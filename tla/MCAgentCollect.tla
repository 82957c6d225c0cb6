--------------------------- MODULE MCAgentCollect ---------------------------
(***************************************************************************)
(* A log item and an OTLP item, two connections.                           *)
(***************************************************************************)
EXTENDS AgentCollect

CONSTANTS log, otlp

\* A push drops the log item, or restarts the receiver in one of two ways.
MCChanges == {[item |-> log, how |-> "drop"], [item |-> otlp, how |-> "edit"],
              [item |-> otlp, how |-> "rebind"]}
=============================================================================
