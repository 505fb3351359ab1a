---------------------------- MODULE FailureIntake ----------------------------
(***************************************************************************)
(* What the intake of CI failures promises, however a failure arrives: a   *)
(* run is taken up when nobody holds it, and taking it up claims it. A     *)
(* claim ends only when its ingestion_events row is forgotten: the poll    *)
(* cycle that inserted it rolls back, or retention deletes it.             *)
(* AnalysisPipeline and PollWatermark implement this specification.        *)
(***************************************************************************)
EXTENDS Naturals, TLAPS

CONSTANT Run

VARIABLES claimed,  \* runs with an ingestion_events row, committed or not
          taken,    \* how often a run was taken up for analysis
          forgotten \* how often rows were forgotten

vars == <<claimed, taken, forgotten>>

Init == claimed = {} /\ taken = [r \in Run |-> 0] /\ forgotten = 0

\* The row is new. Its inserter takes the run up, or does not: an ingest request
\* analyses it itself, and the broker may refuse the message
Claim(r) ==
    /\ r \notin claimed
    /\ claimed' = claimed \cup {r}
    /\ \/ taken' = [taken EXCEPT ![r] = @ + 1]
       \/ UNCHANGED taken
    /\ UNCHANGED forgotten

Forget(R) ==
    /\ claimed' = claimed \ R
    /\ forgotten' = forgotten + 1
    /\ UNCHANGED taken

Next == (\E r \in Run : Claim(r)) \/ (\E R \in SUBSET claimed : Forget(R))

Spec == Init /\ [][Next]_vars

\* A run is taken up once, and once more for each time its row was forgotten
TakenOnce == \A r \in Run : taken[r] <= forgotten + 1

-----------------------------------------------------------------------------

TypeOK ==
    claimed \in SUBSET Run /\ taken \in [Run -> Nat] /\ forgotten \in Nat

\* An unclaimed run has a take left for each time rows were forgotten
Left == \A r \in Run : taken[r] <= forgotten + (IF r \in claimed THEN 1 ELSE 0)

\* Every implementation takes a run up at most once per time its row was forgotten
THEOREM TakenAtMostOnce == Spec => []TakenOnce
<1> DEFINE IInv == TypeOK /\ Left
<1>1. Init => IInv
  BY DEF Init, TypeOK, Left
<1>2. IInv /\ [Next]_vars => IInv'
  <2> SUFFICES ASSUME IInv, [Next]_vars PROVE IInv'
    OBVIOUS
  <2>1. ASSUME NEW r \in Run, Claim(r) PROVE IInv'
    BY <2>1 DEF Claim, TypeOK, Left
  <2>2. ASSUME NEW R \in SUBSET claimed, Forget(R) PROVE IInv'
    BY <2>2 DEF Forget, TypeOK, Left
  <2>3. CASE UNCHANGED vars
    BY <2>3 DEF vars, TypeOK, Left
  <2>4. QED
    BY <2>1, <2>2, <2>3 DEF Next
<1>3. IInv => TakenOnce
  BY DEF TypeOK, Left, TakenOnce
<1>4. QED
  BY <1>1, <1>2, <1>3, PTL DEF Spec
=============================================================================
