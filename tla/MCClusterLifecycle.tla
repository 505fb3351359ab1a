-------------------------- MODULE MCClusterLifecycle --------------------------
(***************************************************************************)
(* Small instances of ClusterLifecycle: two messages of one failure and    *)
(* one message of another failure with the same fingerprint.               *)
(***************************************************************************)
EXTENDS ClusterLifecycle

CONSTANTS e1, e2, t1, t2, t3

MCEventOf == [t \in Task |-> IF t = t3 THEN e2 ELSE e1]
=============================================================================
