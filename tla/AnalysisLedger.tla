---------------------------- MODULE AnalysisLedger ----------------------------
(***************************************************************************)
(* What the tables of analyses, clusters and usage show of the pipeline,   *)
(* however many messages, retries, rollbacks and duplicates stand behind   *)
(* it: a failure is counted once, in the same instant its analysis is      *)
(* stored and its cluster points to an analysis of its kind, its own one   *)
(* or a stored one. Retention deletes analyses, which their clusters then  *)
(* let go of, and what was counted stays counted.                          *)
(* AnalysisPipeline and ClusterLifecycle implement this specification: a   *)
(* cluster is a log fingerprint in the one, a severity in the other.       *)
(***************************************************************************)
CONSTANTS Event, Key, None

VARIABLES key,      \* the cluster that a stored analysis belongs to, or None
          pointer,  \* the analysis that a cluster offers for reuse, or None
          counted   \* failures that were counted

vars == <<key, pointer, counted>>

Init ==
    /\ key = [e \in Event |-> None]
    /\ pointer = [k \in Key |-> None]
    /\ counted = {}

Count(e) == e \notin counted /\ counted' = counted \cup {e}

\* The analysis of e is stored. Without a log excerpt no cluster points to it.
Analyze(e, k) ==
    /\ Count(e)
    /\ key' = [key EXCEPT ![e] = k]
    /\ \/ pointer' = [pointer EXCEPT ![k] = e]
       \/ UNCHANGED pointer

\* The stored analysis a explains e as well
Reuse(e, a, k) ==
    /\ Count(e)
    /\ key[a] = k
    /\ pointer' = [pointer EXCEPT ![k] = a]
    /\ UNCHANGED key

Delete(A) ==
    /\ key' = [e \in Event |-> IF e \in A THEN None ELSE key[e]]
    /\ pointer' = [k \in Key |-> IF pointer[k] \in A THEN None ELSE pointer[k]]
    /\ UNCHANGED counted

Next ==
    \/ \E e \in Event, k \in Key : Analyze(e, k) \/ \E a \in Event : Reuse(e, a, k)
    \/ \E A \in SUBSET Event : Delete(A)

Spec == Init /\ [][Next]_vars
=============================================================================
