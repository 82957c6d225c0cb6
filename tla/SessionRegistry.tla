-------------------------- MODULE SessionRegistry --------------------------
(***************************************************************************)
(* The in-memory session table of gse-server                               *)
(* (crates/gse-server-core/src/session.rs): at most one session per agent, *)
(* each remembering the connection (geminio client id) that created it.    *)
(*                                                                         *)
(* The registry is one mutex around a HashMap, so every method of          *)
(* SessionRegistry is one atomic operator here, from registry to registry. *)
(*                                                                         *)
(* Time is abstracted to what `advance` asks of it: `fresh` says that the  *)
(* last message arrived less than a timeout window ago.                    *)
(***************************************************************************)

CONSTANTS
    Agents,   \* agent ids
    Conns,    \* connection identities: geminio client ids, never reused
    NoConn,   \* the connection of "no session"
    Dialer    \* Dialer[c]: the agent process that dials connection c

ASSUME NoConnAssumption == NoConn \notin Conns
ASSUME DialerAssumption == Dialer \in [Conns -> Agents]

\* SessionState, plus "absent": what the API shows when there is no session.
SessionStates == {"online", "checking", "offline", "closed"}

Sessions == [client : Conns, state : SessionStates, fresh : BOOLEAN]

NoSession == [client |-> NoConn, state |-> "absent", fresh |-> FALSE]

Registries == [Agents -> Sessions \cup {NoSession}]

\* Session::new
NewSession(c) == [client |-> c, state |-> "online", fresh |-> TRUE]

\* SessionRegistry::insert: insert or replace.
Insert(reg, a, s) == [reg EXCEPT ![a] = s]

\* SessionRegistry::remove
Remove(reg, a) == [reg EXCEPT ![a] = NoSession]

RemoveIfClient_Unchecked(reg, a, c) == Remove(reg, a)

\* SessionRegistry::remove_if_client: only the session of this connection.
RemoveIfClient(reg, a, c) ==
    IF reg[a].client = c THEN Remove(reg, a) ELSE reg

\* SessionRegistry::touch: renews last_seen and leaves the state alone.
Touch(reg, a) ==
    IF reg[a] = NoSession THEN reg ELSE [reg EXCEPT ![a].fresh = TRUE]

NextState(state) ==
    CASE state = "online"   -> "checking"
      [] state = "checking" -> "offline"
      [] OTHER              -> state

\* Session::advance
Advance(s) == IF s.fresh THEN s ELSE [s EXCEPT !.state = NextState(s.state)]

\* SessionRegistry::advance_all
AdvanceAll(reg) == [a \in Agents |-> Advance(reg[a])]

IsOnline(reg, a) == reg[a].state = "online"
=============================================================================
