------------------------------- MODULE ApmSpans -------------------------------
(***************************************************************************)
(* The numbers the dataserver makes of spans.  The traces and the edges    *)
(* share no variable: each observes the spans it is about.                 *)
(***************************************************************************)
EXTENDS ApmTraces, ApmEdges

\* The summary of a trace, the requests of a minute and the calls of an edge
\* are those of the spans that were observed.
SpansAreCounted == SummariesAreExact /\ RequestsAreCounted /\ CallsAreAccounted
=============================================================================
