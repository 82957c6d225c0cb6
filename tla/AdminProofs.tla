------------------------------ MODULE AdminProofs ------------------------------
(***************************************************************************)
(* The management API of gse-server and the app catalog of the console,    *)
(* for any number of agents, templates, requests, apps and clicks.         *)
(*                                                                         *)
(* UpdateAnsweredWasDone is not inductive: an UPDATE that found no row is  *)
(* followed by a statement that reads the row, and no request in between   *)
(* may bring it back.  UpdateIsOf says so, from ids being above all that   *)
(* were given out.  StartKeepsSpecs needs MovesFirst: while the start has  *)
(* rows to move, nobody has saved a spec, and no request is served.        *)
(*                                                                         *)
(* CatalogIsKept is not inductive: a request that is under way has changed *)
(* the list and not the file, and a failed write must find the way back to *)
(* exactly the file.  CatalogInv says so (Returns), and that the counter   *)
(* is above every app that could come back (SeqIsAbove), which is what     *)
(* keeps a new id apart.                                                   *)
(***************************************************************************)
EXTENDS AdminApi, ConsoleCatalog, TLAPS

-----------------------------------------------------------------------------
(* The app catalog of the console.                                         *)

Kinds == {"none", "create", "update", "click", "delete"}

\* The types of the catalog's state, with what each kind of request holds.
CatalogTypeOK ==
    /\ open \in BOOLEAN /\ seq \in Nat
    /\ apps \in SUBSET App /\ stored \in SUBSET App
    /\ work \in [kind : Kinds, old : App \cup {NoApp}, new : App \cup {NoApp}, done : BOOLEAN]
    /\ work.kind \in {"update", "click", "delete"} => work.old \in App
    /\ work.kind \in {"create", "update", "click"} => work.new \in App
    /\ work.kind # "none" => open
    /\ \A r \in told : r.clicks \in Nat

\* A list that is not stored can be taken back to the one that is.
Returns ==
    /\ open /\ (work.kind = "none" \/ work.done) => apps = stored
    /\ work.kind # "none" /\ ~ work.done => Undone = stored

\* The counter is above every app in memory, and above every app of the file
\* also after a create was taken back.
SeqIsAbove ==
    /\ open => \A a \in apps \cup stored : a.seq <= seq
    /\ work.kind = "create" /\ ~ work.done => seq > 0 /\ \A a \in stored : a.seq < seq

\* What a request that is under way does to the apps.
WorkIsInApps ==
    /\ work.kind \in {"create", "update", "click"} => work.new \in apps
    /\ work.kind \in {"update", "click"} =>
         /\ IdOfApp(work.new) = IdOfApp(work.old) /\ work.old.clicks <= work.new.clicks

CatalogInv ==
    CatalogTypeOK /\ Returns /\ SeqIsAbove /\ WorkIsInApps
    /\ AppsDiffer(apps) /\ AppsDiffer(stored) /\ AnswersAreStored

-----------------------------------------------------------------------------

LEMMA CatalogInitially == CatalogInit => CatalogInv
BY DEF CatalogInit, CatalogInv, CatalogTypeOK, Returns, SeqIsAbove, WorkIsInApps, AppsDiffer,
       AnswersAreStored, NoWork, Kinds

LEMMA CreateKeeps ==
    ASSUME CatalogInv, NEW t \in Times, NEW n \in Titles, NEW l \in Links, CreateApp(t, n, l)
    PROVE  CatalogInv'
<1> DEFINE app == [ts |-> t, seq |-> seq + 1, name |-> n, link |-> l, clicks |-> 0]
<1>1. app \in App /\ app.seq = seq + 1 /\ app.name = n
  BY DEF CatalogInv, CatalogTypeOK, App
<1>2. /\ open /\ work.kind = "none" /\ open' = open /\ stored' = stored /\ told' = told /\ gone' = gone
      /\ apps' = apps \cup {app} /\ seq' = seq + 1
      /\ work' = [kind |-> "create", old |-> NoApp, new |-> app, done |-> FALSE]
      /\ \A a \in apps : a.name # n
  BY DEF CreateApp, Free, Begin
<1> HIDE DEF app
<1>3. apps = stored /\ (\A a \in apps : a.seq <= seq) /\ seq \in Nat /\ apps \in SUBSET App
  BY <1>2 DEF CatalogInv, CatalogTypeOK, Returns, SeqIsAbove
<1>4. app \notin apps
  BY <1>1, <1>3 DEF App
<1>5. CatalogTypeOK'
  BY <1>1, <1>2, <1>3 DEF CatalogInv, CatalogTypeOK, Kinds
<1>6. Returns'
  BY <1>2, <1>3, <1>4 DEF Returns, Undone
<1>7. SeqIsAbove'
  BY <1>1, <1>2, <1>3 DEF SeqIsAbove, App
<1>8. WorkIsInApps'
  BY <1>2 DEF WorkIsInApps
<1>9. AppsDiffer(apps)' /\ AppsDiffer(stored)'
  BY <1>1, <1>2, <1>3 DEF CatalogInv, AppsDiffer, App
<1>10. AnswersAreStored'
  BY <1>2 DEF CatalogInv, AnswersAreStored
<1> QED
  BY <1>5, <1>6, <1>7, <1>8, <1>9, <1>10 DEF CatalogInv

\* An app takes the place of one with its id, in memory.
Replaces(a, app, k) ==
    /\ open /\ work.kind = "none" /\ a \in apps /\ app \in App /\ k \in {"update", "click"}
    /\ app.ts = a.ts /\ app.seq = a.seq /\ a.clicks <= app.clicks
    /\ \A b \in apps \ {a} : b.name # app.name
    /\ apps' = (apps \ {a}) \cup {app}
    /\ work' = [kind |-> k, old |-> a, new |-> app, done |-> FALSE]
    /\ open' = open /\ seq' = seq /\ stored' = stored /\ told' = told /\ gone' = gone

LEMMA ReplaceKeeps ==
    ASSUME CatalogInv, NEW a, NEW app, NEW k, Replaces(a, app, k)
    PROVE  CatalogInv'
<1> USE DEF Replaces
<1>1. apps = stored /\ (\A b \in apps : b.seq <= seq) /\ seq \in Nat /\ apps \in SUBSET App
  BY DEF CatalogInv, CatalogTypeOK, Returns, SeqIsAbove
<1>2. app \notin apps \ {a}
  BY <1>1 DEF CatalogInv, AppsDiffer, App
<1>3. CatalogTypeOK'
  BY <1>1 DEF CatalogInv, CatalogTypeOK, Kinds
<1>4. Returns'
  BY <1>1, <1>2 DEF Returns, Undone
<1>5. SeqIsAbove'
  BY <1>1 DEF SeqIsAbove, App
<1>6. WorkIsInApps'
  BY DEF WorkIsInApps, IdOfApp
<1>7. AppsDiffer(apps)' /\ AppsDiffer(stored)'
  BY <1>1 DEF CatalogInv, AppsDiffer, App
<1>8. AnswersAreStored'
  BY DEF CatalogInv, AnswersAreStored
<1> QED
  BY <1>3, <1>4, <1>5, <1>6, <1>7, <1>8 DEF CatalogInv

LEMMA UpdateKeeps ==
    ASSUME CatalogInv, NEW a \in apps, NEW n \in Titles, NEW l \in Links, UpdateApp(a, n, l)
    PROVE  CatalogInv'
<1> DEFINE app == [a EXCEPT !.name = n, !.link = l]
<1>1. a \in App
  BY DEF CatalogInv, CatalogTypeOK
<1>2. app \in App /\ app.ts = a.ts /\ app.seq = a.seq /\ app.clicks = a.clicks /\ app.name = n /\ a.clicks \in Nat
  BY <1>1 DEF App
<1>3. /\ open /\ work.kind = "none" /\ (\A b \in apps \ {a} : b.name # n)
      /\ apps' = (apps \ {a}) \cup {app}
      /\ work' = [kind |-> "update", old |-> a, new |-> app, done |-> FALSE]
      /\ UNCHANGED <<open, seq, stored, told, gone>>
  BY DEF UpdateApp, Free, Begin
<1> HIDE DEF app
<1>4. Replaces(a, app, "update")
  BY <1>2, <1>3 DEF Replaces
<1> QED
  BY <1>4, ReplaceKeeps

LEMMA ClickKeeps ==
    ASSUME CatalogInv, NEW a \in apps, RecordClick(a)
    PROVE  CatalogInv'
<1> DEFINE app == [a EXCEPT !.clicks = @ + 1]
<1>1. a \in App
  BY DEF CatalogInv, CatalogTypeOK
<1>2. app \in App /\ app.ts = a.ts /\ app.seq = a.seq /\ app.name = a.name /\ a.clicks <= app.clicks
  BY <1>1 DEF App
<1>3. /\ open /\ work.kind = "none"
      /\ apps' = (apps \ {a}) \cup {app}
      /\ work' = [kind |-> "click", old |-> a, new |-> app, done |-> FALSE]
      /\ UNCHANGED <<open, seq, stored, told, gone>>
  BY DEF RecordClick, Free, Begin
<1>4. \A b \in apps \ {a} : b.name # a.name
  BY DEF CatalogInv, AppsDiffer
<1> HIDE DEF app
<1>5. Replaces(a, app, "click")
  BY <1>2, <1>3, <1>4 DEF Replaces
<1> QED
  BY <1>5, ReplaceKeeps

LEMMA DeleteKeeps ==
    ASSUME CatalogInv, NEW a \in apps, DeleteApp(a)
    PROVE  CatalogInv'
<1>1. /\ open /\ work.kind = "none" /\ open' = open /\ seq' = seq /\ stored' = stored /\ told' = told /\ gone' = gone
      /\ apps' = apps \ {a}
      /\ work' = [kind |-> "delete", old |-> a, new |-> NoApp, done |-> FALSE]
  BY DEF DeleteApp, Free, Begin
<1>2. apps = stored
  BY <1>1 DEF CatalogInv, Returns
<1>3. CatalogTypeOK'
  BY <1>1 DEF CatalogInv, CatalogTypeOK, Kinds
<1>4. Returns'
  BY <1>1, <1>2 DEF Returns, Undone
<1>5. SeqIsAbove' /\ WorkIsInApps'
  BY <1>1 DEF CatalogInv, SeqIsAbove, WorkIsInApps
<1>6. AppsDiffer(apps)' /\ AppsDiffer(stored)' /\ AnswersAreStored'
  BY <1>1 DEF CatalogInv, AppsDiffer, AnswersAreStored
<1> QED
  BY <1>3, <1>4, <1>5, <1>6 DEF CatalogInv

-----------------------------------------------------------------------------
(* The file.                                                               *)

\* An app that was told of is still in the list that replaces the file: a
\* replaced one under its id with no fewer clicks, a removed one in `gone`.
LEMMA PersistKeeps ==
    ASSUME CatalogInv, Persist
    PROVE  CatalogInv'
<1>1. /\ work.kind # "none" /\ ~ work.done /\ open' = open /\ apps' = apps /\ seq' = seq /\ told' = told
      /\ stored' = apps /\ work' = [work EXCEPT !.done = TRUE]
      /\ gone' = IF work.kind = "delete" THEN gone \cup {IdOfApp(work.old)} ELSE gone
  BY DEF Persist
<1>2. /\ work'.kind = work.kind /\ work'.old = work.old /\ work'.new = work.new /\ work'.done = TRUE
      /\ work' \in [kind : Kinds, old : App \cup {NoApp}, new : App \cup {NoApp}, done : BOOLEAN]
  BY <1>1 DEF CatalogInv, CatalogTypeOK
<1>3. Undone = stored /\ apps \in SUBSET App /\ stored \in SUBSET App /\ open
  BY <1>1 DEF CatalogInv, CatalogTypeOK, Returns
<1>4. CatalogTypeOK'
  BY <1>1, <1>2, <1>3 DEF CatalogInv, CatalogTypeOK
<1>5. Returns' /\ SeqIsAbove' /\ WorkIsInApps'
  BY <1>1, <1>2, <1>3 DEF CatalogInv, Returns, SeqIsAbove, WorkIsInApps
<1>6. AppsDiffer(apps)' /\ AppsDiffer(stored)'
  BY <1>1 DEF CatalogInv, AppsDiffer
<1>7. ASSUME NEW r \in told
      PROVE  r.id \in gone' \/ \E a \in apps : IdOfApp(a) = r.id /\ r.clicks <= a.clicks
  <2>1. CASE r.id \in gone
    BY <1>1, <2>1
  <2>2. CASE \E a \in stored : IdOfApp(a) = r.id /\ r.clicks <= a.clicks
    <3>1. PICK a \in stored : IdOfApp(a) = r.id /\ r.clicks <= a.clicks
      BY <2>2
    <3>2. CASE a \in apps
      BY <3>1, <3>2
    <3>3. CASE a \notin apps
      <4>1. work.kind \in {"update", "click", "delete"} /\ a = work.old
        BY <1>1, <1>3, <3>3 DEF Undone, CatalogInv, CatalogTypeOK, Kinds
      <4>2. CASE work.kind = "delete"
        BY <1>1, <3>1, <4>1, <4>2
      <4>3. CASE work.kind \in {"update", "click"}
        <5>1. work.new \in apps /\ IdOfApp(work.new) = r.id
          BY <3>1, <4>1, <4>3 DEF CatalogInv, WorkIsInApps
        <5>2. /\ work.new.clicks \in Nat /\ work.old.clicks \in Nat /\ r.clicks \in Nat
              /\ work.old.clicks <= work.new.clicks
          BY <4>3 DEF CatalogInv, CatalogTypeOK, WorkIsInApps, App
        <5> QED
          BY <3>1, <4>1, <5>1, <5>2
      <4> QED
        BY <4>1, <4>2, <4>3
    <3> QED
      BY <3>2, <3>3
  <2> QED
    BY <2>1, <2>2 DEF CatalogInv, AnswersAreStored
<1>8. AnswersAreStored'
  BY <1>1, <1>7 DEF AnswersAreStored
<1> QED
  BY <1>4, <1>5, <1>6, <1>8 DEF CatalogInv

LEMMA PersistFailsKeeps ==
    ASSUME CatalogInv, PersistFails
    PROVE  CatalogInv'
<1>1. /\ work.kind # "none" /\ ~ work.done /\ open' = open /\ stored' = stored /\ told' = told /\ gone' = gone
      /\ apps' = stored /\ work' = NoWork
      /\ seq' = IF work.kind = "create" THEN seq - 1 ELSE seq
  BY DEF CatalogInv, Returns, PersistFails
<1>2. open /\ seq \in Nat /\ stored \in SUBSET App
  BY <1>1 DEF CatalogInv, CatalogTypeOK
<1>3. seq' \in Nat /\ \A a \in stored : a.seq <= seq'
  BY <1>1, <1>2 DEF CatalogInv, SeqIsAbove, App
<1>4. CatalogTypeOK'
  BY <1>1, <1>2, <1>3 DEF CatalogInv, CatalogTypeOK, NoWork, Kinds
<1>5. Returns' /\ SeqIsAbove' /\ WorkIsInApps'
  BY <1>1, <1>3 DEF Returns, SeqIsAbove, WorkIsInApps, NoWork
<1>6. AppsDiffer(apps)' /\ AppsDiffer(stored)' /\ AnswersAreStored'
  BY <1>1 DEF CatalogInv, AppsDiffer, AnswersAreStored
<1> QED
  BY <1>4, <1>5, <1>6 DEF CatalogInv

LEMMA AnswerKeeps ==
    ASSUME CatalogInv, AnswerApp
    PROVE  CatalogInv'
<1>1. /\ work.kind # "none" /\ work.done /\ work' = NoWork
      /\ UNCHANGED <<open, apps, seq, stored, gone>>
      /\ told' = IF work.kind = "delete" THEN told
                 ELSE told \cup {[id |-> IdOfApp(work.new), clicks |-> work.new.clicks]}
  BY DEF AnswerApp
<1>2. open /\ apps = stored
  BY <1>1 DEF CatalogInv, CatalogTypeOK, Returns
<1>3. work.kind # "delete" => work.new \in stored /\ work.new.clicks \in Nat
  BY <1>1, <1>2 DEF CatalogInv, CatalogTypeOK, WorkIsInApps, Kinds, App
<1>4. CatalogTypeOK'
  BY <1>1, <1>3 DEF CatalogInv, CatalogTypeOK, NoWork, Kinds
<1>5. Returns' /\ SeqIsAbove' /\ WorkIsInApps'
  BY <1>1, <1>2 DEF CatalogInv, Returns, SeqIsAbove, WorkIsInApps, NoWork
<1>6. AppsDiffer(apps)' /\ AppsDiffer(stored)'
  BY <1>1 DEF CatalogInv, AppsDiffer
<1>7. AnswersAreStored'
  BY <1>1, <1>3 DEF CatalogInv, AnswersAreStored
<1> QED
  BY <1>4, <1>5, <1>6, <1>7 DEF CatalogInv

LEMMA EndKeeps ==
    ASSUME CatalogInv, ConsoleEnds
    PROVE  CatalogInv'
BY DEF CatalogInv, ConsoleEnds, CatalogTypeOK, Returns, SeqIsAbove, WorkIsInApps, AppsDiffer,
       AnswersAreStored, NoWork, Kinds

\* The counter of a start is that of the file, and no request is under way.
LEMMA StartKeeps ==
    ASSUME CatalogInv, ConsoleStarts
    PROVE  CatalogInv'
<1>1. /\ ~ open /\ open' = TRUE /\ apps' = stored /\ seq' \in 0..MaxSeq /\ SeqFits(seq')
      /\ UNCHANGED <<stored, work, told, gone>>
  BY DEF ConsoleStarts
<1>2. work.kind = "none"
  BY <1>1 DEF CatalogInv, CatalogTypeOK
<1>3. seq' \in Nat /\ \A a \in stored : a.seq <= seq'
  BY <1>1, CatalogAssumption DEF SeqFits
<1>4. CatalogTypeOK'
  BY <1>1, <1>2, <1>3 DEF CatalogInv, CatalogTypeOK
<1>5. Returns' /\ SeqIsAbove' /\ WorkIsInApps'
  BY <1>1, <1>2, <1>3 DEF Returns, SeqIsAbove, WorkIsInApps
<1>6. AppsDiffer(apps)' /\ AppsDiffer(stored)' /\ AnswersAreStored'
  BY <1>1 DEF CatalogInv, AppsDiffer, AnswersAreStored
<1> QED
  BY <1>4, <1>5, <1>6 DEF CatalogInv

LEMMA CatalogStep == CatalogInv /\ [CatalogNext]_catalogVars => CatalogInv'
<1> SUFFICES ASSUME CatalogInv, [CatalogNext]_catalogVars
             PROVE  CatalogInv'
  OBVIOUS
<1>1. ASSUME NEW t \in Times, NEW n \in Titles, NEW l \in Links, CreateApp(t, n, l)
      PROVE  CatalogInv'
  BY <1>1, CreateKeeps
<1>2. ASSUME NEW a \in apps, NEW n \in Titles, NEW l \in Links, UpdateApp(a, n, l)
      PROVE  CatalogInv'
  BY <1>2, UpdateKeeps
<1>3. ASSUME NEW a \in apps, RecordClick(a)
      PROVE  CatalogInv'
  BY <1>3, ClickKeeps
<1>4. ASSUME NEW a \in apps, DeleteApp(a)
      PROVE  CatalogInv'
  BY <1>4, DeleteKeeps
<1>5. CASE Persist
  BY <1>5, PersistKeeps
<1>6. CASE PersistFails
  BY <1>6, PersistFailsKeeps
<1>7. CASE AnswerApp
  BY <1>7, AnswerKeeps
<1>8. CASE ConsoleEnds
  BY <1>8, EndKeeps
<1>9. CASE ConsoleStarts
  BY <1>9, StartKeeps
<1>10. CASE UNCHANGED catalogVars
  BY <1>10 DEF catalogVars, CatalogInv, CatalogTypeOK, Returns, SeqIsAbove, WorkIsInApps, AppsDiffer,
               AnswersAreStored, Undone
<1> QED
  BY <1>1, <1>2, <1>3, <1>4, <1>5, <1>6, <1>7, <1>8, <1>9, <1>10 DEF CatalogNext

-----------------------------------------------------------------------------

\* The catalog of the console never shows what is not stored, never has two
\* apps with one id or one name, and never loses an app or a click it has
\* answered, through failed writes, ends of the process and a clock that is
\* set back (catalog.rs: create, update, record_click, delete, persist, open).
THEOREM CatalogKept == CatalogSpec => []CatalogIsKept
<1>1. CatalogInv => CatalogIsKept
  BY DEF CatalogInv, CatalogIsKept, Returns, Free
<1> QED
  BY <1>1, CatalogInitially, CatalogStep, PTL DEF CatalogSpec

-----------------------------------------------------------------------------
(* The management API: AdminInv, its steps and what follows from it.       *)

\* A request has these fields, and what it needs of its input.
Record(op, step, id, body, hit, code) ==
    [op |-> op, step |-> step, id |-> id, body |-> body, hit |-> hit, code |-> code]

IsRequest(q) ==
    /\ q = Record(q.op, q.step, q.id, q.body, q.hit, q.code)
    /\ q.hit \in BOOLEAN
    /\ q.op = "put_spec" => q.body \in {"t1", "t2"}

\* An update is of a template that was there; one that found no row finds none
\* when it reads back, since no id is given out twice.
UpdateIsOf(q) ==
    q.op = "update_template" =>
        /\ q.id \in TemplateIds /\ q.id <= issued
        /\ q.step = "readback" /\ ~q.hit => templates[q.id] = None
        /\ q.step = "done" /\ q.code = 200 => q.hit

\* Rows of the old tables are moved only while nobody has saved a spec, and
\* nobody can while they are moved.
MovesFirst == boot.at = "moving" /\ boot.todo # {} => \A a \in Agents : specs[a] \notin {"t1", "t2"}

AdminInv ==
    /\ specs \in [Agents -> {None, "legacy", "t1", "t2"}]
    /\ issued \in Nat /\ DOMAIN templates = TemplateIds
    /\ \A i \in TemplateIds : templates[i] # None => i <= issued
    /\ DOMAIN req = Reqs /\ \A r \in Reqs : IsRequest(req[r]) /\ UpdateIsOf(req[r])
    /\ MovesFirst

LEMMA RecordFields ==
    ASSUME NEW op, NEW step, NEW id, NEW body, NEW hit \in BOOLEAN, NEW code,
           op = "put_spec" => body \in {"t1", "t2"}, NEW q, q = Record(op, step, id, body, hit, code)
    PROVE  /\ IsRequest(q) /\ q.op = op /\ q.step = step
           /\ q.id = id /\ q.body = body /\ q.hit = hit /\ q.code = code
BY DEF Record, IsRequest

LEMMA IdleIsRequest == IsRequest(Idle) /\ Idle.op = "idle"
<1>1. Idle = Record("idle", "done", None, None, FALSE, 0)
  BY DEF Idle, Record
<1>2. Idle.op = "idle" /\ Idle.step = "done" /\ Idle.id = None /\ Idle.body = None /\ Idle.code = 0
  BY DEF Idle
<1>3. Idle.hit = FALSE
  BY DEF Idle
<1> QED
  BY <1>1, <1>2, <1>3 DEF IsRequest

\* What it is to set several fields.
LEMMA SetFields ==
    ASSUME NEW q, NEW a, NEW b, NEW c, NEW d
    PROVE  /\ [q EXCEPT !.step = a, !.code = b] = [[q EXCEPT !.step = a] EXCEPT !.code = b]
           /\ [q EXCEPT !.step = a, !.hit = b] = [[q EXCEPT !.step = a] EXCEPT !.hit = b]
           /\ [q EXCEPT !.step = a, !.body = b] = [[q EXCEPT !.step = a] EXCEPT !.body = b]
           /\ [q EXCEPT !.step = a, !.id = b, !.hit = c] = [[[q EXCEPT !.step = a] EXCEPT !.id = b] EXCEPT !.hit = c]
           /\ [q EXCEPT !.op = a, !.id = b, !.body = c, !.step = d]
                = [[[[q EXCEPT !.op = a] EXCEPT !.id = b] EXCEPT !.body = c] EXCEPT !.step = d]
OBVIOUS

LEMMA AdminStarts == Init => AdminInv
<1> SUFFICES ASSUME Init
             PROVE  AdminInv
  OBVIOUS
<1>1. \A i \in TemplateIds : templates[i] = None
  BY DEF Init
<1>2. \A r \in Reqs : req[r] = Idle
  BY DEF Init
<1>3. MovesFirst
  BY DEF Init, MovesFirst, Down
<1> QED
  BY <1>1, <1>2, <1>3, IdleIsRequest DEF Init, AdminInv, UpdateIsOf

\* A request moves on: what there is to show of it and of the templates.
LEMMA RequestMoves ==
    ASSUME AdminInv, NEW r \in Reqs, NEW q, req' = [req EXCEPT ![r] = q], IsRequest(q), UpdateIsOf(q)',
           specs' \in [Agents -> {None, "legacy", "t1", "t2"}], UNCHANGED boot, MovesFirst',
           issued' \in Nat, issued <= issued', DOMAIN templates' = TemplateIds,
           \A i \in TemplateIds : templates'[i] # None => i <= issued',
           \A i \in TemplateIds : i <= issued /\ templates[i] = None => templates'[i] = None
    PROVE  AdminInv'
<1>1. DOMAIN req' = Reqs
  BY DEF AdminInv
<1>2. \A x \in Reqs : req'[x] = IF x = r THEN q ELSE req[x]
  BY DEF AdminInv
<1>3. ASSUME NEW x \in Reqs, x # r
      PROVE  IsRequest(req[x]) /\ UpdateIsOf(req[x])'
  <2>1. IsRequest(req[x]) /\ UpdateIsOf(req[x]) /\ req'[x] = req[x]
    BY <1>2, <1>3 DEF AdminInv
  <2>2. ASSUME req[x].op = "update_template"
        PROVE  /\ req[x].id \in TemplateIds /\ req[x].id <= issued'
               /\ req[x].step = "readback" /\ ~req[x].hit => templates'[req[x].id] = None
               /\ req[x].step = "done" /\ req[x].code = 200 => req[x].hit
    <3>1. req[x].id \in TemplateIds /\ req[x].id <= issued
      BY <2>1, <2>2 DEF UpdateIsOf
    <3>2. req[x].id \in Nat /\ issued \in Nat
      BY <3>1 DEF AdminInv, TemplateIds
    <3>3. req[x].id <= issued'
      BY <3>1, <3>2
    <3> QED
      BY <2>1, <2>2, <3>1, <3>3 DEF UpdateIsOf
  <2> QED
    BY <2>1, <2>2 DEF UpdateIsOf
<1> QED
  BY <1>1, <1>2, <1>3 DEF AdminInv, UpdateIsOf

\* A request goes to a step, or is answered; its other fields stay.
Moved(r, q, step) ==
    /\ req' = [req EXCEPT ![r] = q]
    /\ IsRequest(q) /\ q.op = req[r].op /\ q.id = req[r].id /\ q.hit = req[r].hit /\ q.step = step

HasFields(r, op, step, id, body, hit, code) ==
    /\ req[r] = Record(op, step, id, body, hit, code) /\ (op = "put_spec" => body \in {"t1", "t2"})
    /\ req[r].op = op /\ req[r].id = id /\ req[r].body = body /\ req[r].hit = hit /\ req[r].code = code

LEMMA RequestOf ==
    ASSUME AdminInv, NEW r \in Reqs
    PROVE  \E o, s, id, b, c : \E h \in BOOLEAN : HasFields(r, o, s, id, b, h, c)
BY ZenonT(60) DEF AdminInv, IsRequest, HasFields

LEMMA Goes ==
    ASSUME AdminInv, NEW r \in Reqs, NEW CONSTANT step, Goto(r, step)
    PROVE  \E q : Moved(r, q, step)
<1>1. PICK o, s, id, b, c : \E h \in BOOLEAN : HasFields(r, o, s, id, b, h, c)
  BY RequestOf
<1>2. PICK h \in BOOLEAN : HasFields(r, o, s, id, b, h, c)
  BY <1>1
<1>3. PICK q : q = Record(o, step, id, b, h, c)
  OBVIOUS
<1>4. IsRequest(q) /\ q.op = o /\ q.step = step /\ q.id = id /\ q.hit = h
  BY <1>2, <1>3, RecordFields DEF HasFields
<1>5. PICK old : old = req[r]
  OBVIOUS
<1>6. [old EXCEPT !.step = step] = q
  <2>1. old = Record(o, s, id, b, h, c)
    BY <1>2, <1>5 DEF HasFields
  <2>2. [old EXCEPT !.step = step] = Record(o, step, id, b, h, c)
    BY <2>1 DEF Record
  <2> QED
    BY <1>3, <2>2
<1>7. req' = [req EXCEPT ![r] = [old EXCEPT !.step = step]]
  BY <1>5 DEF Goto, AdminInv
<1> QED
  BY <1>2, <1>4, <1>6, <1>7 DEF Moved, HasFields

LEMMA Answers ==
    ASSUME AdminInv, NEW r \in Reqs, NEW CONSTANT code, Answer(r, code)
    PROVE  \E q : Moved(r, q, "done") /\ q.code = code
<1>1. PICK o, s, id, b, c : \E h \in BOOLEAN : HasFields(r, o, s, id, b, h, c)
  BY RequestOf
<1>2. PICK h \in BOOLEAN : HasFields(r, o, s, id, b, h, c)
  BY <1>1
<1>3. PICK q : q = Record(o, "done", id, b, h, code)
  OBVIOUS
<1>4. IsRequest(q) /\ q.op = o /\ q.step = "done" /\ q.id = id /\ q.hit = h /\ q.code = code
  BY <1>2, <1>3, RecordFields DEF HasFields
<1>5. PICK old : old = req[r]
  OBVIOUS
<1>6. [old EXCEPT !.step = "done", !.code = code] = q
  <2>1. old = Record(o, s, id, b, h, c)
    BY <1>2, <1>5 DEF HasFields
  <2>2. [old EXCEPT !.step = "done"] = Record(o, "done", id, b, h, c)
    BY <2>1 DEF Record
  <2>3. [Record(o, "done", id, b, h, c) EXCEPT !.code = code] = Record(o, "done", id, b, h, code)
    BY DEF Record
  <2>4. [old EXCEPT !.step = "done", !.code = code] = [[old EXCEPT !.step = "done"] EXCEPT !.code = code]
    BY SetFields
  <2> QED
    BY <1>3, <2>2, <2>3, <2>4
<1>7. req' = [req EXCEPT ![r] = [old EXCEPT !.step = "done", !.code = code]]
  BY <1>5 DEF Answer, AdminInv
<1> QED
  BY <1>2, <1>4, <1>6, <1>7 DEF Moved, HasFields

\* Any other request moves on, and the templates are as they were.
LEMMA OthersMove ==
    ASSUME AdminInv, NEW r \in Reqs, NEW q, req' = [req EXCEPT ![r] = q], IsRequest(q),
           q.op # "update_template", UNCHANGED <<boot, issued, templates>>,
           specs' \in [Agents -> {None, "legacy", "t1", "t2"}], MovesFirst'
    PROVE  AdminInv'
<1>1. UpdateIsOf(q)'
  BY DEF UpdateIsOf
<1>2. issued \in Nat /\ issued <= issued
  BY DEF AdminInv
<1> QED
  BY <1>1, <1>2, RequestMoves DEF AdminInv

\* A request is let in: an update names a template that is there (Call).
LEMMA CallKeeps ==
    ASSUME AdminInv, NEW r \in Reqs, Call(r)
    PROVE  AdminInv'
<1>1. PICK q \in Inputs : Sensible(q) /\ req' = [req EXCEPT ![r] = q]
  BY DEF Call
<1>2. UNCHANGED <<boot, specs, issued, templates>>
  BY <1>1 DEF Call
<1>3. ASSUME NEW op, NEW id, NEW body
      PROVE  Request(op, id, body) = Record(op, "first", id, body, FALSE, 0)
  <2>1. PICK h : h = FALSE
    OBVIOUS
  <2>2. Idle = Record("idle", "done", None, None, h, 0)
    BY <2>1 DEF Idle, Record
  <2>3. [Idle EXCEPT !.op = op] = Record(op, "done", None, None, h, 0)
    BY <2>2 DEF Record
  <2>4. [Record(op, "done", None, None, h, 0) EXCEPT !.id = id] = Record(op, "done", id, None, h, 0)
    BY DEF Record
  <2>5. [Record(op, "done", id, None, h, 0) EXCEPT !.body = body] = Record(op, "done", id, body, h, 0)
    BY DEF Record
  <2>6. [Record(op, "done", id, body, h, 0) EXCEPT !.step = "first"] = Record(op, "first", id, body, h, 0)
    BY DEF Record
  <2>7. [Idle EXCEPT !.op = op, !.id = id, !.body = body, !.step = "first"]
          = [[[[Idle EXCEPT !.op = op] EXCEPT !.id = id] EXCEPT !.body = body] EXCEPT !.step = "first"]
    BY SetFields
  <2>8. Request(op, id, body) = Record(op, "first", id, body, h, 0)
    BY <2>3, <2>4, <2>5, <2>6, <2>7 DEF Request
  <2> QED
    BY <2>1, <2>8
<1>4. IsRequest(q) /\ q.step = "first" /\ (q.op = "update_template" => q.id \in TemplateIds)
  <2>1. PICK op, id, body : /\ q = Request(op, id, body)
                            /\ op = "put_spec" => body \in {"t1", "t2"}
                            /\ op = "update_template" => id \in TemplateIds
    BY DEF Inputs
  <2>2. q = Record(op, "first", id, body, FALSE, 0)
    BY <1>3, <2>1
  <2>3. q.op = op /\ q.step = "first" /\ q.id = id /\ q.body = body /\ q.code = 0
    BY <2>2 DEF Record
  <2>4. q.hit = FALSE
    BY <2>2 DEF Record
  <2>5. IsRequest(q)
    BY <2>1, <2>2, <2>3, <2>4 DEF IsRequest
  <2> QED
    BY <2>1, <2>3, <2>5
<1>5. UpdateIsOf(q)'
  <2> SUFFICES ASSUME q.op = "update_template"
               PROVE  q.id \in TemplateIds /\ q.id <= issued
    BY <1>2, <1>4 DEF UpdateIsOf
  <2>1. templates[q.id] # None
    BY <1>1 DEF Sensible
  <2> QED
    BY <1>4, <2>1 DEF AdminInv
<1>6. issued \in Nat /\ issued <= issued
  BY DEF AdminInv
<1> QED
  BY <1>1, <1>2, <1>4, <1>5, <1>6, RequestMoves DEF AdminInv, MovesFirst

\* A template gets an id that was never given out.
LEMMA InsertKeeps ==
    ASSUME AdminInv, NEW r \in Reqs, CreateTemplate(r) \/ SaveAsTemplate(r)
    PROVE  AdminInv'
<1>1. PICK t : InsertTemplate(r, t)
  BY DEF CreateTemplate, SaveAsTemplate
<1>2. req[r].op \in {"create_template", "save_as_template"} /\ UNCHANGED <<boot, specs>>
  BY DEF CreateTemplate, SaveAsTemplate, At, NoAdmin
<1>3. MovesFirst' /\ specs' \in [Agents -> {None, "legacy", "t1", "t2"}]
  BY <1>2 DEF AdminInv, MovesFirst
<1>4. CASE UNCHANGED <<templates, issued>> /\ Answer(r, 409)
  <2>1. PICK q : Moved(r, q, "done")
    BY <1>4, Answers
  <2>2. /\ req' = [req EXCEPT ![r] = q] /\ IsRequest(q)
        /\ q.op # "update_template" /\ UNCHANGED <<boot, issued, templates>>
    BY <1>2, <1>4, <2>1 DEF Moved
  <2> QED
    BY <1>3, <2>2, OthersMove
<1>5. CASE /\ issued < MaxTemplates /\ issued' = issued + 1
           /\ templates' = [templates EXCEPT ![issued + 1] = t]
           /\ req' = [req EXCEPT ![r].step = "readback", ![r].id = issued + 1, ![r].hit = TRUE]
  <2>1. PICK yes \in BOOLEAN : yes = TRUE
    BY TRUE \in BOOLEAN, Zenon
  <2>2. PICK n, old : n = issued + 1 /\ old = req[r]
    OBVIOUS
  <2>3. PICK o, s, id, b, c : \E h \in BOOLEAN : HasFields(r, o, s, id, b, h, c)
    BY RequestOf
  <2>4. PICK h, q : old = Record(o, s, id, b, h, c) /\ q = Record(o, "readback", n, b, yes, c)
    BY <2>2, <2>3 DEF HasFields
  <2>5. req' = [req EXCEPT ![r] = q]
    <3>1. [old EXCEPT !.step = "readback"] = Record(o, "readback", id, b, h, c)
      BY <2>4 DEF Record
    <3>2. [Record(o, "readback", id, b, h, c) EXCEPT !.id = n] = Record(o, "readback", n, b, h, c)
      BY DEF Record
    <3>3. [Record(o, "readback", n, b, h, c) EXCEPT !.hit = yes] = Record(o, "readback", n, b, yes, c)
      BY DEF Record
    <3>4. [old EXCEPT !.step = "readback", !.id = n, !.hit = yes]
            = [[[old EXCEPT !.step = "readback"] EXCEPT !.id = n] EXCEPT !.hit = yes]
      BY SetFields
    <3>5. [old EXCEPT !.step = "readback", !.id = n, !.hit = yes] = q
      BY <2>4, <3>1, <3>2, <3>3, <3>4
    <3>6. req' = [req EXCEPT ![r] = [old EXCEPT !.step = "readback", !.id = n, !.hit = yes]]
      BY <1>5, <2>1, <2>2 DEF AdminInv
    <3> QED
      BY <3>5, <3>6
  <2>6. IsRequest(q) /\ q.op = o /\ o \in {"create_template", "save_as_template"}
    BY <1>2, <2>3, <2>4, RecordFields DEF HasFields
  <2>7. UpdateIsOf(q)'
    BY <2>6 DEF UpdateIsOf
  <2>8. issued \in Nat /\ issued' \in Nat /\ issued <= issued'
    BY <1>5 DEF AdminInv
  <2>9. DOMAIN templates' = TemplateIds /\ \A i \in TemplateIds : templates'[i] = IF i = issued + 1 THEN t ELSE templates[i]
    BY <1>5 DEF AdminInv
  <2>10. \A i \in TemplateIds : i \in Nat /\ (i <= issued => i # issued + 1 /\ i <= issued + 1)
    BY <2>8 DEF TemplateIds
  <2>11. \A i \in TemplateIds : templates'[i] # None => i <= issued'
    BY <1>5, <2>8, <2>9, <2>10 DEF AdminInv
  <2>12. \A i \in TemplateIds : i <= issued /\ templates[i] = None => templates'[i] = None
    BY <2>9, <2>10
  <2> QED
    BY <1>2, <1>3, <2>5, <2>6, <2>7, <2>8, <2>9, <2>11, <2>12, RequestMoves
<1> QED
  BY <1>1, <1>4, <1>5 DEF InsertTemplate

\* An update finds its row, or the row is gone for good (update_template).
LEMMA UpdateTemplateKeeps ==
    ASSUME AdminInv, NEW r \in Reqs, UpdateTemplate(r)
    PROVE  AdminInv'
<1>1. /\ req[r].op = "update_template" /\ UNCHANGED <<boot, specs, issued>>
      /\ IsRequest(req[r]) /\ UpdateIsOf(req[r])
  BY DEF UpdateTemplate, At, NoAdmin, AdminInv
<1>2. MovesFirst' /\ specs' \in [Agents -> {None, "legacy", "t1", "t2"}] /\ issued \in Nat /\ issued <= issued
  BY <1>1 DEF AdminInv, MovesFirst
<1>3. req[r].id \in TemplateIds /\ req[r].id <= issued
  BY <1>1 DEF UpdateIsOf
<1>4. PICK q : /\ req' = [req EXCEPT ![r] = q] /\ IsRequest(q)
               /\ q.id = req[r].id /\ q.op = "update_template"
               /\ \/ q.step = "readback" /\ q.hit
                  \/ q.step = "readback" /\ templates'[q.id] = None
                  \/ q.step = "done" /\ q.code = 409
  <2>1. CASE templates[req[r].id] = None
    <3>1. Goto(r, "readback") /\ templates' = templates
      BY <2>1 DEF UpdateTemplate
    <3>2. PICK q : Moved(r, q, "readback")
      BY <3>1, Goes
    <3>3. templates'[q.id] = None
      BY <2>1, <3>1, <3>2 DEF Moved
    <3> QED
      BY <1>1, <3>2, <3>3, ZenonT(60) DEF Moved
  <2>2. CASE templates[req[r].id] # None /\ NameTaken(req[r].body.name, req[r].id)
    <3>1. Answer(r, 409)
      BY <2>2 DEF UpdateTemplate
    <3>2. PICK q : Moved(r, q, "done") /\ q.code = 409
      BY <3>1, Answers
    <3>3. /\ req' = [req EXCEPT ![r] = q] /\ IsRequest(q)
          /\ q.id = req[r].id /\ q.op = "update_template" /\ q.step = "done"
      BY <1>1, <3>2 DEF Moved
    <3> QED
      BY <3>2, <3>3, ZenonT(60)
  <2>3. CASE templates[req[r].id] # None /\ ~NameTaken(req[r].body.name, req[r].id)
    <3>1. req' = [req EXCEPT ![r].step = "readback", ![r].hit = TRUE]
      BY <2>3 DEF UpdateTemplate
    <3>2. req' = [req EXCEPT ![r] = [req[r] EXCEPT !.step = "readback", !.hit = TRUE]]
      BY <3>1 DEF AdminInv
    <3>3. PICK o, s, id, b, c : \E h \in BOOLEAN : HasFields(r, o, s, id, b, h, c)
      BY RequestOf
    <3>4. PICK yes \in BOOLEAN : yes = TRUE
      BY TRUE \in BOOLEAN, Zenon
    <3>5. PICK old : old = req[r]
      OBVIOUS
    <3>6. PICK h, q : old = Record(o, s, id, b, h, c) /\ q = Record(o, "readback", id, b, yes, c)
      BY <3>3, <3>5 DEF HasFields
    <3>7. [old EXCEPT !.step = "readback"] = Record(o, "readback", id, b, h, c)
      BY <3>6 DEF Record
    <3>8. [Record(o, "readback", id, b, h, c) EXCEPT !.hit = yes] = Record(o, "readback", id, b, yes, c)
      BY DEF Record
    <3>9. [old EXCEPT !.step = "readback", !.hit = yes] = [[old EXCEPT !.step = "readback"] EXCEPT !.hit = yes]
      BY SetFields
    <3>10. req' = [req EXCEPT ![r] = q]
      BY <3>4, <3>2, <3>5, <3>6, <3>7, <3>8, <3>9
    <3>11. IsRequest(q) /\ q.op = o /\ q.id = id /\ q.step = "readback" /\ q.hit = yes
      BY <3>3, <3>6, RecordFields DEF HasFields
    <3> QED
      BY <1>1, <3>4, <3>3, <3>5, <3>10, <3>11, ZenonT(60) DEF HasFields
  <2> QED
    BY <2>1, <2>2, <2>3
<1>5. /\ DOMAIN templates' = TemplateIds
      /\ \A i \in TemplateIds : templates[i] = None => templates'[i] = None
  BY DEF UpdateTemplate, AdminInv
<1>6. \A i \in TemplateIds : templates'[i] # None => i <= issued'
  BY <1>1, <1>5 DEF AdminInv
<1>7. UpdateIsOf(q)'
  BY <1>1, <1>3, <1>4 DEF UpdateIsOf
<1>8. \A i \in TemplateIds : i <= issued /\ templates[i] = None => templates'[i] = None
  BY <1>5
<1>9. /\ req' = [req EXCEPT ![r] = q] /\ IsRequest(q) /\ UNCHANGED boot
      /\ issued' \in Nat /\ issued <= issued' /\ DOMAIN templates' = TemplateIds
  BY <1>1, <1>2, <1>4, <1>5
<1> QED
  BY <1>2, <1>6, <1>7, <1>8, <1>9, RequestMoves

\* What is read back of an update that found no row is no row.
LEMMA ReadBackKeeps ==
    ASSUME AdminInv, NEW r \in Reqs, ReadBack(r)
    PROVE  AdminInv'
<1>1. PICK code : /\ code = IF Found(req[r].id) THEN 200 ELSE IF req[r].op = "update_template" THEN 404 ELSE 500
                  /\ Answer(r, code)
  BY DEF ReadBack
<1>2. /\ req[r].step = "readback" /\ UNCHANGED <<boot, specs, issued, templates>>
      /\ IsRequest(req[r]) /\ UpdateIsOf(req[r])
  BY DEF ReadBack, At, NoAdmin, AdminInv
<1>3. PICK q : Moved(r, q, "done") /\ q.code = code
  BY <1>1, Answers
<1>4. q.op = req[r].op /\ q.id = req[r].id /\ q.hit = req[r].hit /\ q.step = "done"
  BY <1>3 DEF Moved
<1>5. UpdateIsOf(q)'
  <2> SUFFICES ASSUME q.op = "update_template"
               PROVE  q.id \in TemplateIds /\ q.id <= issued /\ (q.code = 200 => q.hit)
    BY <1>2, <1>4 DEF UpdateIsOf
  <2>1. req[r].id \in TemplateIds /\ req[r].id <= issued /\ (~req[r].hit => templates[req[r].id] = None)
    BY <1>2, <1>4 DEF UpdateIsOf
  <2>2. code = 200 => templates[req[r].id] # None
    BY <1>1, <1>4 DEF Found
  <2> QED
    BY <1>3, <1>4, <2>1, <2>2
<1>6. issued \in Nat /\ issued <= issued
  BY DEF AdminInv
<1>7. MovesFirst' /\ specs' \in [Agents -> {None, "legacy", "t1", "t2"}]
  BY <1>2 DEF AdminInv, MovesFirst
<1>8. /\ DOMAIN templates' = TemplateIds
      /\ \A i \in TemplateIds : templates'[i] # None => i <= issued'
      /\ \A i \in TemplateIds : i <= issued /\ templates[i] = None => templates'[i] = None
  BY <1>2 DEF AdminInv
<1>9. req' = [req EXCEPT ![r] = q] /\ IsRequest(q) /\ UNCHANGED boot /\ issued' \in Nat /\ issued <= issued'
  BY <1>2, <1>3, <1>6 DEF Moved
<1> QED
  BY <1>5, <1>7, <1>8, <1>9, RequestMoves

\* A template that is looked up, deleted or submitted.
LEMMA LookUpKeeps ==
    ASSUME AdminInv, NEW r \in Reqs, LookUp(r)
    PROVE  AdminInv'
<1>1. UNCHANGED <<boot, specs, issued, templates>> /\ IsRequest(req[r]) /\ UpdateIsOf(req[r])
  BY DEF LookUp, NoAdmin, AdminInv
<1>2. PICK q : /\ req' = [req EXCEPT ![r] = q] /\ IsRequest(q) /\ q.op = req[r].op /\ q.id = req[r].id
               /\ q.step = "write" \/ (q.step = "done" /\ q.code = 404)
  <2>1. CASE templates[req[r].id] = None
    <3>1. Answer(r, 404)
      BY <2>1 DEF LookUp
    <3>2. PICK q : Moved(r, q, "done") /\ q.code = 404
      BY <3>1, Answers
    <3> QED
      BY <3>2, ZenonT(60) DEF Moved
  <2>2. CASE templates[req[r].id] # None /\ req[r].op = "submit_template"
    <3>1. PICK script : req' = [req EXCEPT ![r].step = "write", ![r].body = script]
      BY <2>2 DEF LookUp
    <3>2. req' = [req EXCEPT ![r] = [req[r] EXCEPT !.step = "write", !.body = script]]
      BY <3>1 DEF AdminInv
    <3>3. PICK o, s, id, b, c : \E h \in BOOLEAN : HasFields(r, o, s, id, b, h, c)
      BY RequestOf
    <3>4. PICK old : old = req[r]
      OBVIOUS
    <3>5. PICK h \in BOOLEAN : old = Record(o, s, id, b, h, c)
      BY <3>3, <3>4 DEF HasFields
    <3>6. PICK q : q = Record(o, "write", id, script, h, c)
      OBVIOUS
    <3>7. [old EXCEPT !.step = "write"] = Record(o, "write", id, b, h, c)
      BY <3>5 DEF Record
    <3>8. [Record(o, "write", id, b, h, c) EXCEPT !.body = script] = Record(o, "write", id, script, h, c)
      BY DEF Record
    <3>9. [old EXCEPT !.step = "write", !.body = script] = [[old EXCEPT !.step = "write"] EXCEPT !.body = script]
      BY SetFields
    <3>10. req' = [req EXCEPT ![r] = q]
      BY <3>2, <3>4, <3>5, <3>6, <3>7, <3>8, <3>9
    <3>11. o = "submit_template" /\ o # "put_spec"
      BY <2>2, <3>3 DEF HasFields
    <3>12. IsRequest(q) /\ q.op = o /\ q.id = id /\ q.step = "write"
      BY <3>6, <3>11, RecordFields
    <3> QED
      BY <3>3, <3>10, <3>12 DEF HasFields
  <2>3. CASE templates[req[r].id] # None /\ req[r].op # "submit_template"
    <3>1. Goto(r, "write")
      BY <2>3 DEF LookUp
    <3>2. PICK q : Moved(r, q, "write")
      BY <3>1, Goes
    <3> QED
      BY <3>2 DEF Moved
  <2> QED
    BY <2>1, <2>2, <2>3
<1>3. UpdateIsOf(q)'
  BY <1>1, <1>2 DEF UpdateIsOf
<1>4. MovesFirst' /\ specs' \in [Agents -> {None, "legacy", "t1", "t2"}]
  BY <1>1 DEF AdminInv, MovesFirst
<1>5. /\ DOMAIN templates' = TemplateIds
      /\ \A i \in TemplateIds : templates'[i] # None => i <= issued'
      /\ \A i \in TemplateIds : i <= issued /\ templates[i] = None => templates'[i] = None
  BY <1>1 DEF AdminInv
<1>6. UNCHANGED boot /\ issued' \in Nat /\ issued <= issued'
  BY <1>1 DEF AdminInv
<1> QED
  BY <1>2, <1>3, <1>4, <1>5, <1>6, RequestMoves

LEMMA DeleteTemplateKeeps ==
    ASSUME AdminInv, NEW r \in Reqs, DeleteTemplate(r)
    PROVE  AdminInv'
<1>1. /\ UNCHANGED <<boot, specs, issued>> /\ req[r].op = "delete_template"
      /\ templates' = [templates EXCEPT ![req[r].id] = None]
      /\ Answer(r, 200)
  BY DEF DeleteTemplate, NoAdmin, At
<1>2. PICK q : req' = [req EXCEPT ![r] = q] /\ IsRequest(q) /\ q.op = "delete_template"
  <2>1. PICK q : Moved(r, q, "done")
    BY <1>1, Answers
  <2> QED
    BY <1>1, <2>1 DEF Moved
<1>3. UpdateIsOf(q)'
  BY <1>2 DEF UpdateIsOf
<1>4. issued \in Nat /\ issued <= issued
  BY DEF AdminInv
<1>5. /\ DOMAIN templates' = TemplateIds
      /\ \A i \in TemplateIds : templates'[i] = None \/ templates'[i] = templates[i]
  BY <1>1 DEF AdminInv
<1>6. \A i \in TemplateIds : templates'[i] # None => i <= issued'
  BY <1>1, <1>5 DEF AdminInv
<1>7. \A i \in TemplateIds : templates[i] = None => templates'[i] = None
  BY <1>5
<1>8. MovesFirst' /\ specs' \in [Agents -> {None, "legacy", "t1", "t2"}]
  BY <1>1 DEF AdminInv, MovesFirst
<1> QED
  BY <1>1, <1>2, <1>3, <1>4, <1>5, <1>6, <1>7, <1>8, RequestMoves

\* The other requests, and what they write of specs.
LEMMA OtherRequestsKeep ==
    ASSUME AdminInv, NEW r \in Reqs, SubmitTemplate(r) \/ Rerun(r) \/ AgentRowStep(r)
    PROVE  AdminInv'
<1>1. /\ req[r].op # "update_template" /\ boot.at = "up" /\ UNCHANGED <<boot, issued, templates>>
      /\ IsRequest(req[r])
  BY DEF SubmitTemplate, Rerun, AgentRowStep, DeleteAgent, PutSpec, Report, At, NoAdmin, Serving, Up, AdminInv
<1>2. MovesFirst'
  BY <1>1 DEF MovesFirst
<1>3. specs' \in [Agents -> {None, "legacy", "t1", "t2"}]
  <2>1. UNCHANGED specs \/ specs' = [specs EXCEPT ![req[r].id] = None]
          \/ (req[r].op = "put_spec" /\ specs' = [specs EXCEPT ![req[r].id] = req[r].body])
    BY DEF SubmitTemplate, Rerun, AgentRowStep, DeleteAgent, PutSpec, Report, At, NoAdmin
  <2> QED
    BY <1>1, <2>1 DEF AdminInv, IsRequest
<1>4. \/ \E step \in {"spec", "state", "write", "token", "rotate"} : Goto(r, step)
      \/ \E code \in {200, 404} : Answer(r, code)
  <2>1. SubmitTemplate(r) \/ Rerun(r) \/ Report(r) => Answer(r, 200)
    BY DEF SubmitTemplate, Rerun, Report
  <2>2. DeleteAgent(r) => Goto(r, "spec") \/ Goto(r, "state") \/ Answer(r, 200)
    BY DEF DeleteAgent
  <2>3. PutSpec(r) => Goto(r, "write") \/ Goto(r, "token") \/ Goto(r, "rotate") \/ Answer(r, 404) \/ Answer(r, 200)
    BY DEF PutSpec
  <2> QED
    BY <2>1, <2>2, <2>3 DEF AgentRowStep
<1>5. PICK q : req' = [req EXCEPT ![r] = q] /\ IsRequest(q) /\ q.op # "update_template"
  <2>1. CASE \E step \in {"spec", "state", "write", "token", "rotate"} : Goto(r, step)
    <3>1. PICK step, q : Moved(r, q, step)
      BY <2>1, Goes
    <3> QED
      BY <1>1, <3>1 DEF Moved
  <2>2. CASE \E code \in {200, 404} : Answer(r, code)
    <3>1. PICK q : Moved(r, q, "done")
      BY <2>2, Answers
    <3> QED
      BY <1>1, <3>1 DEF Moved
  <2> QED
    BY <1>4, <2>1, <2>2
<1> QED
  BY <1>1, <1>2, <1>3, <1>5, OthersMove

\* The start and the end of the process, and requests of one statement.
LEMMA ProcessKeeps ==
    ASSUME AdminInv, Crash \/ Start \/ MoveLegacy
    PROVE  AdminInv'
<1>1. UNCHANGED <<issued, templates>>
  BY DEF Crash, Start, MoveLegacy
<1>2. DOMAIN req' = Reqs /\ \A r \in Reqs : IsRequest(req'[r]) /\ UpdateIsOf(req[r])'
  <2>1. CASE Crash
    <3>1. DOMAIN req' = Reqs /\ \A r \in Reqs : req'[r] = Idle
      BY <2>1 DEF Crash
    <3>2. \A r \in Reqs : UpdateIsOf(req[r])'
      BY <3>1, IdleIsRequest DEF UpdateIsOf
    <3> QED
      BY <3>1, <3>2, IdleIsRequest
  <2>2. CASE Start \/ MoveLegacy
    <3>1. UNCHANGED req
      BY <2>2 DEF Start, MoveLegacy
    <3>2. \A r \in Reqs : UpdateIsOf(req[r]) => UpdateIsOf(req[r])'
      BY <1>1, <3>1 DEF UpdateIsOf
    <3> QED
      BY <3>1, <3>2 DEF AdminInv
  <2> QED
    BY <2>1, <2>2
<1>3. specs' \in [Agents -> {None, "legacy", "t1", "t2"}] /\ MovesFirst'
  <2>1. CASE Crash
    BY <2>1 DEF AdminInv, Crash, MovesFirst, Down
  <2>2. CASE Start
    <3>1. UNCHANGED specs /\ boot' = [at |-> "moving", todo |-> ToMove]
      BY <2>2 DEF Start
    <3>2. ToMove # {} => \A a \in Agents : specs[a] = None
      BY DEF ToMove
    <3> QED
      BY <3>1, <3>2, AdminAssumption DEF AdminInv, MovesFirst
  <2>3. CASE MoveLegacy /\ boot.todo = {}
    BY <2>3 DEF AdminInv, MovesFirst, MoveLegacy, Up
  <2>4. CASE MoveLegacy /\ boot.todo # {}
    <3>1. PICK a \in boot.todo : boot' = [boot EXCEPT !.todo = @ \ {a}] /\ specs' = [specs EXCEPT ![a] = "legacy"]
      BY <2>4 DEF MoveLegacy
    <3>2. \A x \in Agents : specs[x] \notin {"t1", "t2"}
      BY <2>4 DEF AdminInv, MovesFirst, MoveLegacy
    <3> QED
      BY <3>1, <3>2 DEF AdminInv, MovesFirst
  <2> QED
    BY <2>1, <2>2, <2>3, <2>4
<1> QED
  BY <1>1, <1>2, <1>3 DEF AdminInv

LEMMA AdminKeeps == AdminInv /\ [Next]_vars => AdminInv'
<1> SUFFICES ASSUME AdminInv, [Next]_vars
             PROVE  AdminInv'
  OBVIOUS
<1>1. CASE Crash \/ Start \/ MoveLegacy
  BY <1>1, ProcessKeeps
<1>2. CASE \/ \E t \in Tables, k \in Keys : RemoveRow(t, k) \/ \E rev \in {1, 2} : PutRow(t, k, rev)
           \/ \E a \in Agents : AgentOnline(a) \/ \E token \in {"t1", "t2"} : CreateAgent(a, token)
           \/ UNCHANGED vars
  <2>1. UNCHANGED <<boot, specs, issued, templates, req>>
    BY <1>2 DEF RemoveRow, PutRow, AgentOnline, CreateAgent, vars
  <2> QED
    BY <2>1 DEF AdminInv, MovesFirst, UpdateIsOf
<1>3. ASSUME NEW r \in Reqs, Call(r) \/ TemplateStep(r) \/ AgentRowStep(r)
      PROVE  AdminInv'
  <2>1. CASE CreateTemplate(r) \/ SaveAsTemplate(r)
    BY <2>1, InsertKeeps
  <2>2. CASE UpdateTemplate(r)
    BY <2>2, UpdateTemplateKeeps
  <2>3. CASE ReadBack(r)
    BY <2>3, ReadBackKeeps
  <2>4. CASE LookUp(r)
    BY <2>4, LookUpKeeps
  <2>5. CASE DeleteTemplate(r)
    BY <2>5, DeleteTemplateKeeps
  <2>6. CASE SubmitTemplate(r) \/ Rerun(r) \/ AgentRowStep(r)
    BY <2>6, OtherRequestsKeep
  <2>7. CASE Call(r)
    BY <2>7, CallKeeps
  <2> QED
    BY <1>3, <2>1, <2>2, <2>3, <2>4, <2>5, <2>6, <2>7 DEF TemplateStep
<1> QED
  BY <1>1, <1>2, <1>3 DEF Next

\* However requests overlap and whatever was deleted in between, an update that
\* was answered as done was done to the row it named (update_template).
THEOREM UpdatesStayTrue == Spec => []UpdateAnsweredWasDone
<1>1. AdminInv => UpdateAnsweredWasDone
  BY DEF AdminInv, UpdateIsOf, UpdateAnsweredWasDone
<1> QED
  BY <1>1, AdminStarts, AdminKeeps, PTL DEF Spec

\* No start of the server, also after a crash in the middle of the move of the
\* old rows, replaces a spec that somebody saved (migrate_legacy_specs).
THEOREM StartsKeepSpecs == Spec => StartKeepsSpecs
<1>1. AdminInv /\ [Next]_vars => [\A a \in Agents : specs[a] \in {"t1", "t2"} => specs'[a] # "legacy"]_vars
  <2> SUFFICES ASSUME AdminInv, Next, NEW a \in Agents, specs[a] \in {"t1", "t2"}
               PROVE  specs'[a] # "legacy"
    OBVIOUS
  <2>1. specs[a] # "legacy"
    OBVIOUS
  <2>2. CASE MoveLegacy
    BY <2>1, <2>2 DEF MoveLegacy, AdminInv, MovesFirst
  <2>3. ASSUME NEW r \in Reqs, DeleteAgent(r) \/ PutSpec(r)
        PROVE  specs'[a] # "legacy"
    <3>1. IsRequest(req[r])
      BY DEF AdminInv
    <3>2. UNCHANGED specs \/ specs' = [specs EXCEPT ![req[r].id] = None]
            \/ (req[r].op = "put_spec" /\ specs' = [specs EXCEPT ![req[r].id] = req[r].body])
      BY <2>3 DEF DeleteAgent, PutSpec, At
    <3> QED
      BY <2>1, <3>1, <3>2, AdminAssumption DEF AdminInv, IsRequest
  <2>4. CASE UNCHANGED specs
    BY <2>1, <2>4
  <2> QED
    BY <2>2, <2>3, <2>4 DEF Next, Crash, Start, RemoveRow, PutRow, AgentOnline, CreateAgent, Call, TemplateStep,
       CreateTemplate, SaveAsTemplate, LookUp, UpdateTemplate, ReadBack, DeleteTemplate, SubmitTemplate, Rerun,
       AgentRowStep, Report, NoAdmin
<1> QED
  BY <1>1, AdminStarts, AdminKeeps, PTL DEF Spec, StartKeepsSpecs
=============================================================================
