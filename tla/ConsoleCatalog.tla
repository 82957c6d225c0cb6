---------------------------- MODULE ConsoleCatalog ----------------------------
(***************************************************************************)
(* The app catalog of the console (src/bins/console: catalog.rs, http.rs): *)
(* a list of apps behind a mutex, written as a whole to a file after every *)
(* change.  A request changes the list in memory, writes the file aside    *)
(* and renames it, and takes its change back when that failed; the mutex   *)
(* is held for all of it, so no other request sees a list that is not      *)
(* stored.  The process may end at any point and starts from the file.     *)
(*                                                                         *)
(* An app's id is made of the time and of a counter.  The counter is not   *)
(* stored: a start takes the highest one among the apps of the file.  The  *)
(* clock may be set back.  Apps are a set here, for `list` sorts them.  A  *)
(* request that is refused (name, url or tags not valid, name in use, no   *)
(* such app, too many apps) changes nothing.                               *)
(***************************************************************************)
EXTENDS Integers, FiniteSets

CONSTANTS
    Titles,      \* valid names, trimmed
    Links,       \* valid urls with their tags
    Times,       \* what the clock may say
    MaxApps,
    MaxSeq,      \* bound on the counter
    MaxClicks,   \* bound on the clicks of an app
    NoApp

ASSUME CatalogAssumption ==
    /\ MaxApps \in Nat /\ MaxSeq \in Nat /\ MaxClicks \in Nat
    /\ IsFiniteSet(Titles) /\ Times \subseteq Nat

VARIABLES
    open,    \* whether the console runs
    apps,    \* Inner::apps
    seq,     \* Inner::seq
    stored,  \* the apps of the data file, {} when there is none
    work,    \* the request that holds the mutex
    told,    \* the clicks that answers gave for an id (a history)
    gone     \* the ids whose app was removed from the file (a history)

catalogVars == <<open, apps, seq, stored, work, told, gone>>

App == [ts : Times, seq : Nat, name : Titles, link : Links, clicks : Nat]

IdOfApp(a) == <<a.ts, a.seq>>

NoWork == [kind |-> "none", old |-> NoApp, new |-> NoApp, done |-> FALSE]

CatalogInit ==
    /\ open = TRUE /\ apps = {} /\ seq = 0 /\ stored = {}
    /\ work = NoWork /\ told = {} /\ gone = {}

-----------------------------------------------------------------------------
(* The change in memory.                                                   *)

Free == open /\ work.kind = "none"

Begin(kind, old, new) == work' = [kind |-> kind, old |-> old, new |-> new, done |-> FALSE]

CreateApp(t, n, l) ==
    /\ Free /\ Cardinality(apps) < MaxApps /\ seq < MaxSeq
    /\ \A a \in apps : a.name # n
    /\ LET app == [ts |-> t, seq |-> seq + 1, name |-> n, link |-> l, clicks |-> 0]
       IN  apps' = apps \cup {app} /\ Begin("create", NoApp, app)
    /\ seq' = seq + 1
    /\ UNCHANGED <<open, stored, told, gone>>

\* The name may be kept, but not be that of another app.
UpdateApp(a, n, l) ==
    /\ Free /\ \A b \in apps \ {a} : b.name # n
    /\ LET app == [a EXCEPT !.name = n, !.link = l]
       IN  apps' = (apps \ {a}) \cup {app} /\ Begin("update", a, app)
    /\ UNCHANGED <<open, seq, stored, told, gone>>

RecordClick(a) ==
    /\ Free /\ a.clicks < MaxClicks
    /\ LET app == [a EXCEPT !.clicks = @ + 1]
       IN  apps' = (apps \ {a}) \cup {app} /\ Begin("click", a, app)
    /\ UNCHANGED <<open, seq, stored, told, gone>>

DeleteApp(a) ==
    /\ Free
    /\ apps' = apps \ {a} /\ Begin("delete", a, NoApp)
    /\ UNCHANGED <<open, seq, stored, told, gone>>

-----------------------------------------------------------------------------
(* The file.                                                               *)

\* Mutant of Undone: a change that could not be stored stays in memory.
Undone_Not == apps

\* The list after the change was taken back.
Undone ==
    CASE work.kind = "create" -> apps \ {work.new}
      [] work.kind = "delete" -> apps \cup {work.old}
      [] OTHER -> (apps \ {work.new}) \cup {work.old}

\* The file beside is written and renamed.
Persist ==
    /\ work.kind # "none" /\ ~ work.done
    /\ stored' = apps /\ work' = [work EXCEPT !.done = TRUE]
    /\ gone' = IF work.kind = "delete" THEN gone \cup {IdOfApp(work.old)} ELSE gone
    /\ UNCHANGED <<open, apps, seq, told>>

\* One of them fails: the file is as it was.
PersistFails ==
    /\ work.kind # "none" /\ ~ work.done
    /\ apps' = Undone /\ seq' = (IF work.kind = "create" THEN seq - 1 ELSE seq)
    /\ work' = NoWork
    /\ UNCHANGED <<open, stored, told, gone>>

\* The mutex is free and the app is answered.
AnswerApp ==
    /\ work.kind # "none" /\ work.done /\ work' = NoWork
    /\ told' = IF work.kind = "delete" THEN told
               ELSE told \cup {[id |-> IdOfApp(work.new), clicks |-> work.new.clicks]}
    /\ UNCHANGED <<open, apps, seq, stored, gone>>

ConsoleEnds ==
    /\ open /\ open' = FALSE
    /\ apps' = {} /\ seq' = 0 /\ work' = NoWork
    /\ UNCHANGED <<stored, told, gone>>

\* Whether s is the counter that a start takes from the file.
SeqFits(s) ==
    IF stored = {} THEN s = 0
    ELSE /\ \E a \in stored : a.seq = s
         /\ \A a \in stored : a.seq <= s

ConsoleStarts ==
    /\ ~ open /\ open' = TRUE
    /\ apps' = stored /\ seq' \in 0..MaxSeq /\ SeqFits(seq')
    /\ UNCHANGED <<stored, work, told, gone>>

CatalogNext ==
    \/ \E t \in Times, n \in Titles, l \in Links : CreateApp(t, n, l)
    \/ \E a \in apps, n \in Titles, l \in Links : UpdateApp(a, n, l)
    \/ \E a \in apps : RecordClick(a) \/ DeleteApp(a)
    \/ Persist \/ PersistFails \/ AnswerApp \/ ConsoleEnds \/ ConsoleStarts

CatalogSpec == CatalogInit /\ [][CatalogNext]_catalogVars

-----------------------------------------------------------------------------

\* Two apps differ in their counter, and so in their id whatever the clock has
\* said, and in their name.
AppsDiffer(set) == \A a, b \in set : a # b => a.seq # b.seq /\ a.name # b.name

\* What an answer said of an app is in the file until the app is removed: no
\* answered create or click is lost by a failed write or by the end of the
\* process, and a later count is never lower.
AnswersAreStored ==
    \A r \in told : r.id \in gone \/ \E a \in stored : IdOfApp(a) = r.id /\ r.clicks <= a.clicks

\* What the catalog of the console owes its users, across failed writes, the
\* end of the process and starts: the apps it shows are those of the file, are
\* never two with one id or name, and are what was answered.
CatalogIsKept ==
    /\ Free => apps = stored
    /\ AppsDiffer(apps) /\ AppsDiffer(stored)
    /\ AnswersAreStored
=============================================================================
