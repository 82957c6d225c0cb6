----------------------------- MODULE MCGseJob ------------------------------
(***************************************************************************)
(* One agent; every job is for it.  The number of connections bounds how   *)
(* often it reconnects, the number of jobs how many compete for a permit.  *)
(***************************************************************************)
EXTENDS GseJob

CONSTANTS a1, c1, c2, j1, j2

MCDialer == [c \in Conns |-> a1]
MCTarget == [j \in Jobs |-> a1]
=============================================================================
