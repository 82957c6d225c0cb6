---------------------------- MODULE MCAgentSpec ----------------------------
(***************************************************************************)
(* Two PUT requests, the first with a new token, the second without one,   *)
(* one apply request, and two connections, so that a reconnect overlaps    *)
(* what is left of the connection before it.                               *)
(***************************************************************************)
EXTENDS AgentSpec, TLC

CONSTANTS p1, p2, q1, c1, c2, oldToken, newToken

ConnSymmetry == Permutations(Conns)

MCPutInput ==
    [p \in Puts |-> IF p = p1
        THEN [params |-> "p1", items |-> "i1", token |-> newToken]
        ELSE [params |-> "p2", items |-> "i2", token |-> Keep]]
=============================================================================
