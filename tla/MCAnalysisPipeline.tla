------------------------- MODULE MCAnalysisPipeline -------------------------
(***************************************************************************)
(* Small instances of AnalysisPipeline. The events e1 and e2 are two jobs  *)
(* of one run and e3 a job of another run; x1 and x2 are jobs of one run   *)
(* that an external CI posts. The excerpts of one source are alike.        *)
(***************************************************************************)
EXTENDS AnalysisPipeline, TLC

CONSTANTS e1, e2, e3, x1, x2, r1, r2, r3, l1, l2

MCRunOf == [e \in Event |->
    CASE e \in {e1, e2} -> r1 [] e = e3 -> r2 [] e \in {x1, x2} -> r3]

MCLookupOf == [e \in Event |-> IF e \in Ingest THEN l2 ELSE l1]

\* Messages are interchangeable: no property tells one task from another
Messages == Permutations(Task)

\* The state without alerts, which no action reads and, of the properties checked
\* under this view, only the type invariant mentions
WithoutAlerts ==
    <<tables, polled, pc, message, local, comments, rollbacks, expiries, deaths>>
=============================================================================
