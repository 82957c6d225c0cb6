-------------------------------- MODULE MCAdmin --------------------------------
(***************************************************************************)
(* The management API, the dataplane registry and the app catalog of the   *)
(* console.  They share no row and no file, so `part` lets a behaviour be  *)
(* one of each.  The functions on the input have no state: their           *)
(* properties are constants.                                               *)
(***************************************************************************)
EXTENDS AdminApi, DataplaneRegistry, AdminInput, ConsoleCatalog

CONSTANTS s1, s2, u1, u2, t1, t2, a1, a2, r1, r2

VARIABLE part

MCInit ==
    /\ part \in {"api", "dataplanes", "console"}
    /\ Init /\ DpInit /\ CatalogInit
    /\ part # "dataplanes" => healthy = {}

MCNext ==
    /\ UNCHANGED part
    /\ \/ part = "api" /\ Next /\ UNCHANGED <<dpVars, catalogVars>>
       \/ part = "dataplanes" /\ DpNext /\ UNCHANGED <<vars, catalogVars>>
       \/ part = "console" /\ CatalogNext /\ UNCHANGED <<vars, dpVars>>

MCSpec == MCInit /\ [][MCNext]_<<part, vars, dpVars, catalogVars>> /\ DpFairness

\* The management API keeps its word: an update that was answered as done was
\* done to the row, and the conversions of the API and of the agent fit each
\* other.
ApiKeepsItsWord == UpdateAnsweredWasDone /\ (part = "api" => AdminInputAgrees)
=============================================================================
