--------------------------- MODULE MCGseSession ----------------------------
(***************************************************************************)
(* One agent with two connections, so that every reconnect race between an *)
(* old and a new connection happens; a probe threshold of two, so that one *)
(* failure is not enough.                                                  *)
(***************************************************************************)
EXTENDS GseSession, TLC

CONSTANTS a1, c1, c2

MCDialer == [c \in {c1, c2} |-> a1]

=============================================================================
