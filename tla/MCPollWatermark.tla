--------------------------- MODULE MCPollWatermark ---------------------------
(***************************************************************************)
(* Small instances of PollWatermark. The GitLab jobs 1 and 2 belong to one *)
(* pipeline; elsewhere a run is its own ci_run_id.                         *)
(***************************************************************************)
EXTENDS PollWatermark, TLC

MCRun == 1..Last

MCRunsOf == [p \in Providers |->
    [j \in 1..Last |-> IF p = "gitlab" /\ j = 2 THEN 1 ELSE j]]

TwoPerPage == [p \in Providers |-> 2]

\* Two runs at a time, of which those that list failed runs only show one
ShortPages == [p \in Providers |-> IF p \in {"gitlab", "github"} THEN 1 ELSE 2]

\* Cycles are interchangeable in what the safety runs check
Cycles == Permutations(Cycle)
=============================================================================
