------------------------- MODULE ClusterLifecycleProofs -------------------------
(***************************************************************************)
(* ClusterLifecycle for any messages, events, severities and users: the    *)
(* analysis that a row points to has the severity of the row               *)
(* (SeverityAgrees). The fingerprint that is looked up does not have the   *)
(* severity, so this rests on what a transaction may still do with the row *)
(* that it reuses: an event's severity is written once, by the transaction *)
(* that counts the event, and every analysis in use belongs to a counted   *)
(* one. So the transactions look like the steps of AnalysisLedger, and the *)
(* counters of the rows add up to the failures counted.                    *)
(***************************************************************************)
EXTENDS ClusterLifecycle, FiniteSetTheorems, TLAPS

Acts == {"resolved", "stamped", "upserted", "published", "flushed"}

\* Where a transaction may be
Phase == Acts \cup {"idle", "done"}

\* Who analyses or reuses has an analysis and a severity; a reused one of
\* another event has that severity for good
Decided ==
    \A t \in Task : pc[t] \in Acts =>
        /\ row[t] \in Event /\ outcome[t] \in Severity
        /\ row[t] # EventOf[t] => severity[row[t]] = outcome[t]

\* Analyses are stored with their usage row
Counted == \A e \in Event : severity[e] # None => e \in usage

\* The analysis a row points to has the severity of the row, so that a reuse
\* updates the row it was found by, even when a second message of the same
\* failure gets another severity from the LLM
SeverityAgrees ==
    \A s \in Known : severity[cluster[s].analysis] = s

IInv == TypeOK /\ Decided /\ Counted /\ SeverityAgrees

-----------------------------------------------------------------------------

LEMMA TypeInit == Init => TypeOK
  BY ConstantsOK DEF Init, TypeOK

\* The row that an upsert makes is a row
LEMMA MergedType ==
    ASSUME TypeOK, NEW t \in Task, NEW old \in Rows \cup {None}, row[t] \in Event
    PROVE  Merged(old, t) \in Rows /\ Merged(old, t).analysis = row[t]
<1>1. seenAt[t] \in 0..MaxTime
  BY DEF TypeOK
<1>2. CASE old = None
  BY <1>1, <1>2 DEF Merged, Rows, Status
<1>3. CASE old \in Rows
  BY <1>1, <1>3 DEF Merged, Rows, Status
<1> QED
  BY <1>2, <1>3

LEMMA TypeStep == TypeOK /\ Decided /\ [Next]_vars => TypeOK'
<1> SUFFICES ASSUME TypeOK, Decided, [Next]_vars PROVE TypeOK'
  OBVIOUS
<1> USE DEF TypeOK
<1>1. CASE Tick
  BY <1>1, ConstantsOK DEF Tick, tables, local, request
<1>2. ASSUME NEW t \in Task, Reuse(t) PROVE TypeOK'
  <2>1. PICK s \in Severity :
          /\ s \in Known
          /\ row' = [row EXCEPT ![t] = cluster[s].analysis]
          /\ outcome' = [outcome EXCEPT ![t] = severity[cluster[s].analysis]]
    BY <1>2 DEF Reuse, Reusable, Newest
  <2>2. cluster[s] \in Rows
    BY <2>1 DEF Known
  <2>3. cluster[s].analysis \in Event
    BY <2>2 DEF Rows
  <2> QED
    BY <1>2, <2>1, <2>3 DEF Reuse, tables, request
<1>3. ASSUME NEW t \in Task, NEW s \in Severity, Analyze(t, s) PROVE TypeOK'
  BY <1>3, ConstantsOK DEF Analyze, tables, request
<1>4. ASSUME NEW t \in Task, Stamp(t) \/ Upsert(t) \/ Conflict(t) \/ Fault(t) PROVE TypeOK'
  BY <1>4 DEF Stamp, Upsert, Conflict, Fault, End, tables, local, request
<1>5. ASSUME NEW t \in Task, Commit(t) PROVE TypeOK'
  <2>1. row[t] \in Event /\ outcome[t] \in Severity
    BY <1>5 DEF Commit, Decided, Acts
  <2>2. Merged(cluster[outcome[t]], t) \in Rows
    BY <2>1, MergedType
  <2>3. EventOf[t] \in Event
    BY ConstantsOK
  <2> QED
    BY <1>5, <2>1, <2>2, <2>3 DEF Commit, End, request
<1>6. ASSUME NEW u \in User, NEW s \in Severity, Load(u, s) PROVE TypeOK'
  BY <1>6 DEF Load, tables, local
<1>7. ASSUME NEW u \in User, NEW st \in Status, Answer(u, st) PROVE TypeOK'
  BY <1>7 DEF Answer, tables, local
<1>8. ASSUME NEW u \in User, Close(u) PROVE TypeOK'
  BY <1>8 DEF Close, tables, local
<1>9. CASE UNCHANGED vars
  BY <1>9 DEF vars, tables, local, request
<1>10. ASSUME NEW t \in Task, Publish(t) \/ Flush(t) \/ Victim(t) PROVE TypeOK'
  BY <1>10 DEF Publish, Flush, Victim, End, tables, local, request
<1> QED
  BY <1>1, <1>2, <1>3, <1>4, <1>5, <1>6, <1>7, <1>8, <1>9, <1>10 DEF Next, Work

\* A step that changes no table keeps what only the tables say
LEMMA TablesKept ==
    ASSUME Counted, SeverityAgrees, UNCHANGED tables
    PROVE  Counted' /\ SeverityAgrees'
  BY DEF Counted, SeverityAgrees, Known, tables

\* .. and what the other transactions have decided
LEMMA OthersKept ==
    ASSUME Decided, UNCHANGED severity, NEW t \in Task,
           \A u \in Task \ {t} : UNCHANGED <<pc[u], row[u], outcome[u]>>,
           pc'[t] \in Acts =>
              /\ row'[t] \in Event /\ outcome'[t] \in Severity
              /\ row'[t] # EventOf[t] => severity[row'[t]] = outcome'[t]
    PROVE  Decided'
  BY DEF Decided

\* Only the transaction that counts an event writes the event's severity, and
\* nothing that is in use belongs to an event that is not counted yet
LEMMA CommitStep ==
    ASSUME IInv, NEW t \in Task, Commit(t)
    PROVE  Decided' /\ Counted' /\ SeverityAgrees'
<1>1. /\ row[t] \in Event /\ outcome[t] \in Severity /\ EventOf[t] \in Event
      /\ EventOf[t] \notin usage
      /\ row[t] # EventOf[t] => severity[row[t]] = outcome[t]
  BY ConstantsOK DEF Commit, Counts, IInv, Decided, Acts
<1>2. /\ severity \in [Event -> Severity \cup {None}] /\ cluster \in [Severity -> Rows \cup {None}]
      /\ pc \in [Task -> Phase]
  BY DEF IInv, TypeOK, Phase, Acts
<1>3. /\ usage' = usage \cup {EventOf[t]}
      /\ severity' = IF row[t] = EventOf[t]
                     THEN [severity EXCEPT ![row[t]] = outcome[t]] ELSE severity
      /\ cluster' = [cluster EXCEPT ![outcome[t]] = Merged(cluster[outcome[t]], t)]
      /\ pc' = [pc EXCEPT ![t] = "done"] /\ row' = row /\ outcome' = outcome
  BY DEF Commit, End
<1>4. \A e \in Event : severity[e] # None => e # EventOf[t] /\ severity'[e] = severity[e]
  BY <1>1, <1>2, <1>3 DEF IInv, Counted
<1>5. severity'[row[t]] = outcome[t]
  BY <1>1, <1>2, <1>3
<1>6. Counted'
  BY <1>1, <1>2, <1>3 DEF IInv, Counted
<1>7. Decided'
  <2> SUFFICES ASSUME NEW u \in Task, pc'[u] \in Acts
               PROVE  /\ row[u] \in Event /\ outcome[u] \in Severity
                      /\ row[u] # EventOf[u] => severity'[row[u]] = outcome[u]
    BY <1>3 DEF Decided
  <2>1. pc[u] \in Acts
    BY <1>2, <1>3 DEF Acts
  <2>2. row[u] \in Event /\ outcome[u] \in Severity
        /\ (row[u] # EventOf[u] => severity[row[u]] = outcome[u])
    BY <2>1 DEF IInv, Decided
  <2> QED
    BY <1>4, <2>2, ConstantsOK
<1>8. SeverityAgrees'
  <2> SUFFICES ASSUME NEW s \in Severity, cluster'[s] # None
               PROVE  severity'[cluster'[s].analysis] = s
    BY DEF SeverityAgrees, Known
  <2>1. CASE s = outcome[t]
    <3>1. cluster'[s] = Merged(cluster[s], t)
      BY <1>1, <1>2, <1>3, <2>1
    <3>2. cluster'[s].analysis = row[t]
      BY <1>1, <1>2, <3>1, MergedType DEF IInv
    <3> QED
      BY <1>5, <2>1, <3>2
  <2>2. CASE s # outcome[t]
    <3>1. cluster'[s] = cluster[s] /\ cluster[s] \in Rows
      BY <1>2, <1>3, <2>2
    <3>2. cluster[s].analysis \in Event
      BY <3>1 DEF Rows
    <3>3. severity[cluster[s].analysis] = s
      BY <3>1 DEF IInv, SeverityAgrees, Known
    <3> QED
      BY <1>4, <3>1, <3>2, <3>3, ConstantsOK
  <2> QED
    BY <2>1, <2>2
<1> QED
  BY <1>6, <1>7, <1>8

LEMMA InvStep == IInv /\ [Next]_vars => IInv'
<1> SUFFICES ASSUME IInv, [Next]_vars PROVE IInv'
  OBVIOUS
<1>1. TypeOK /\ Decided /\ Counted /\ SeverityAgrees /\ TypeOK'
  BY TypeStep DEF IInv
<1>2. /\ pc \in [Task -> Phase]
      /\ row \in [Task -> Event \cup {None}] /\ outcome \in [Task -> Severity \cup {None}]
      /\ cluster \in [Severity -> Rows \cup {None}]
  BY <1>1 DEF TypeOK, Phase, Acts
<1>3. ASSUME UNCHANGED <<tables, pc, row, outcome>> PROVE IInv'
  BY <1>1, <1>3, TablesKept DEF IInv, Decided, tables
<1>4. ASSUME NEW t \in Task, Reuse(t) PROVE IInv'
  <2>1. PICK s \in Severity :
          /\ s \in Known
          /\ row' = [row EXCEPT ![t] = cluster[s].analysis]
          /\ outcome' = [outcome EXCEPT ![t] = severity[cluster[s].analysis]]
    BY <1>4 DEF Reuse, Reusable, Newest
  <2>2. cluster[s] \in Rows
    BY <1>2, <2>1 DEF Known
  <2>3. cluster[s].analysis \in Event /\ severity[cluster[s].analysis] = s
    BY <1>1, <2>1, <2>2 DEF Rows, SeverityAgrees
  <2>4. UNCHANGED tables /\ pc' = [pc EXCEPT ![t] = "resolved"]
    BY <1>4 DEF Reuse
  <2>5. row'[t] = cluster[s].analysis /\ outcome'[t] = s
        /\ \A u \in Task \ {t} : UNCHANGED <<pc[u], row[u], outcome[u]>>
    BY <1>2, <2>1, <2>3, <2>4
  <2>6. Decided'
    BY <1>1, <2>3, <2>4, <2>5, OthersKept DEF tables
  <2> QED
    BY <1>1, <2>4, <2>6, TablesKept DEF IInv
<1>5. ASSUME NEW t \in Task, NEW s \in Severity, Analyze(t, s) PROVE IInv'
  <2>1. /\ UNCHANGED tables /\ pc' = [pc EXCEPT ![t] = "resolved"]
        /\ row' = [row EXCEPT ![t] = EventOf[t]] /\ outcome' = [outcome EXCEPT ![t] = s]
    BY <1>5 DEF Analyze
  <2>2. row'[t] = EventOf[t] /\ EventOf[t] \in Event /\ outcome'[t] = s
        /\ \A u \in Task \ {t} : UNCHANGED <<pc[u], row[u], outcome[u]>>
    BY <1>2, <2>1, ConstantsOK
  <2>3. Decided'
    BY <1>1, <2>1, <2>2, OthersKept DEF tables
  <2> QED
    BY <1>1, <2>1, <2>3, TablesKept DEF IInv
<1>6. ASSUME NEW t \in Task, \/ Stamp(t) \/ Upsert(t) \/ Publish(t) \/ Flush(t)
                            \/ Conflict(t) \/ Fault(t) \/ Victim(t)
      PROVE  IInv'
  <2>1. /\ UNCHANGED <<tables, row, outcome>> /\ (pc'[t] \in Acts => pc[t] \in Acts)
        /\ \A u \in Task \ {t} : pc'[u] = pc[u]
    BY <1>2, <1>6
    DEF Stamp, Upsert, Publish, Flush, Conflict, Fault, Victim, End, local, Acts
  <2>2. Decided'
    BY <1>1, <2>1 DEF Decided, tables
  <2> QED
    BY <1>1, <2>1, <2>2, TablesKept DEF IInv
<1>7. ASSUME NEW t \in Task, Commit(t) PROVE IInv'
  BY <1>1, <1>7, CommitStep DEF IInv
<1> QED
  BY <1>3, <1>4, <1>5, <1>6, <1>7
     DEF Next, Work, Tick, Load, Answer, Close, vars, local

-----------------------------------------------------------------------------

LEMMA InvInit == Init => IInv
  BY TypeInit DEF Init, IInv, Decided, Acts, Counted, SeverityAgrees, Known

\* Every variable of the cluster model keeps its type: a committed row has a
\* count, an analysis and a status (clustering.py).
THEOREM TypeCorrect == Spec => []TypeOK
<1>1. IInv => TypeOK
  BY DEF IInv
<1> QED
  BY <1>1, InvInit, InvStep, PTL DEF Spec

\* A cluster row points to an analysis of its own severity, although the cost
\* saver looks rows up without the severity, for any number of messages, users
\* and severities (clustering.py: evaluate_cost_saver_decision, upsert_cluster).
THEOREM SeveritiesAgree == Spec => []SeverityAgrees
<1>1. IInv => SeverityAgrees
  BY DEF IInv
<1> QED
  BY <1>1, InvInit, InvStep, PTL DEF Spec

-----------------------------------------------------------------------------
(* Sightings *)

\* The sets that SightingsCounted compares are finite
Finite == IsFiniteSet(usage) /\ IsFiniteSet(Sightings)

\* A commit adds one sighting, to the row of its outcome
LEMMA OneSighting ==
    ASSUME IInv, NEW t \in Task, Commit(t)
    PROVE  \E x : x \notin Sightings /\ Sightings' = Sightings \cup {x}
<1> DEFINE z == outcome[t]
           Of(s) == IF s \in Known THEN cluster[s].count ELSE 0
<1>1. /\ z \in Severity /\ row[t] \in Event /\ cluster[z] \in Rows \cup {None}
      /\ cluster \in [Severity -> Rows \cup {None}]
      /\ cluster' = [cluster EXCEPT ![z] = Merged(cluster[z], t)]
  BY DEF Commit, IInv, TypeOK, Decided, Acts
<1>2. /\ Merged(cluster[z], t) \in Rows
      /\ Merged(cluster[z], t).count = IF cluster[z] = None THEN 1 ELSE cluster[z].count + 1
  BY <1>1, MergedType DEF Merged, IInv
<1>3. \A s \in Known : cluster[s].count \in Nat
  BY <1>1 DEF Known, Rows
<1>4. Of(z) \in Nat /\ Merged(cluster[z], t).count = Of(z) + 1
  BY <1>1, <1>2, <1>3 DEF Known
<1>5. /\ z \in Known' /\ cluster'[z].count = Of(z) + 1
      /\ \A s \in Severity \ {z} : cluster'[s] = cluster[s] /\ (s \in Known' <=> s \in Known)
  BY <1>1, <1>2, <1>4, ConstantsOK DEF Known
<1>6. \A s, n : <<s, n>> \in Sightings <=> s \in Known /\ n \in 1..cluster[s].count
  BY DEF Sightings
<1>7. \A s, n : <<s, n>> \in Sightings' <=> s \in Known' /\ n \in 1..cluster'[s].count
  BY DEF Sightings
<1>8. <<z, Of(z) + 1>> \notin Sightings
  BY <1>3, <1>4, <1>6
<1>9. Sightings' = Sightings \cup {<<z, Of(z) + 1>>}
  <2>1. \A x : x \in Sightings \cup Sightings' => \E s, n : x = <<s, n>>
    BY DEF Sightings
  <2>2. ASSUME NEW s, NEW n
        PROVE  <<s, n>> \in Sightings' <=> <<s, n>> \in Sightings \/ <<s, n>> = <<z, Of(z) + 1>>
    <3>1. CASE s = z
      <4>1. <<z, n>> \in Sightings <=> n \in 1..Of(z)
        BY <1>3, <1>4, <1>6
      <4>2. <<z, n>> \in Sightings' <=> n \in 1..(Of(z) + 1)
        BY <1>5, <1>7
      <4>3. n \in 1..(Of(z) + 1) <=> n \in 1..Of(z) \/ n = Of(z) + 1
        BY <1>4
      <4> QED
        BY <3>1, <4>1, <4>2, <4>3
    <3>2. CASE s # z
      BY <1>5, <1>6, <1>7, <3>2 DEF Known
    <3> QED
      BY <3>1, <3>2
  <2> QED
    BY <2>1, <2>2
<1> QED
  BY <1>8, <1>9

LEMMA SightingStep == IInv /\ Finite /\ SightingsCounted /\ [Next]_vars => Finite' /\ SightingsCounted'
<1> SUFFICES ASSUME IInv, Finite, SightingsCounted, [Next]_vars
             PROVE  Finite' /\ SightingsCounted'
  OBVIOUS
<1>1. CASE UNCHANGED <<cluster, usage>>
  BY <1>1 DEF Finite, SightingsCounted, Sightings, Known
<1>2. ASSUME NEW t \in Task, Commit(t) PROVE Finite' /\ SightingsCounted'
  <2>1. EventOf[t] \notin usage /\ usage' = usage \cup {EventOf[t]}
    BY <1>2 DEF Commit, Counts
  <2>2. PICK x : x \notin Sightings /\ Sightings' = Sightings \cup {x}
    BY <1>2, OneSighting
  <2>3. IsFiniteSet(usage') /\ Cardinality(usage') = Cardinality(usage) + 1
    BY <2>1, FS_AddElement DEF Finite
  <2>4. IsFiniteSet(Sightings') /\ Cardinality(Sightings') = Cardinality(Sightings) + 1
    BY <2>2, FS_AddElement DEF Finite
  <2> QED
    BY <2>3, <2>4 DEF Finite, SightingsCounted
<1> QED
  BY <1>1, <1>2
  DEF Next, Work, Tick, Reuse, Analyze, Stamp, Upsert, Publish, Flush, Conflict,
      Fault, Victim, Load, Answer, Close, vars, tables

\* The counters of a fingerprint's rows add up to the runs that were counted,
\* for any number of concurrent messages and severities: no increment is lost
\* and none stays of a transaction that was rolled back (clustering.py:
\* upsert_cluster, pipeline.py: record_run)
THEOREM SightingsAreCounted == Spec => []SightingsCounted
<1>1. Init => IInv /\ Finite /\ SightingsCounted
  <2> SUFFICES ASSUME Init PROVE Finite /\ SightingsCounted
    BY InvInit
  <2>1. usage = {} /\ Sightings = {}
    BY DEF Init, Sightings, Known
  <2> QED
    BY <2>1, FS_EmptySet DEF Finite, SightingsCounted
<1> QED
  BY <1>1, InvStep, SightingStep, PTL DEF Spec
-----------------------------------------------------------------------------
(* The transactions are seen as single steps *)

\* The analysis that each row offers
Pointer == [s \in Severity |-> IF s \in Known THEN cluster[s].analysis ELSE None]

\* A commit moves the pointer of one row, to an analysis that is stored with the
\* severity of the row, or is being stored with it
LEMMA LedgerCommit ==
    ASSUME IInv, NEW t \in Task, Commit(t)
    PROVE  Ledger!Next
<1>1. /\ pc[t] \in Acts /\ EventOf[t] \notin usage
      /\ usage' = usage \cup {EventOf[t]}
      /\ severity' = IF row[t] = EventOf[t]
                     THEN [severity EXCEPT ![row[t]] = outcome[t]] ELSE severity
      /\ cluster' = [cluster EXCEPT ![outcome[t]] = Merged(cluster[outcome[t]], t)]
  BY DEF Commit, Counts, Acts
<1>2. /\ row[t] \in Event /\ outcome[t] \in Severity /\ EventOf[t] \in Event
      /\ row[t] # EventOf[t] => severity[row[t]] = outcome[t]
  BY <1>1, ConstantsOK DEF IInv, Decided, Acts
<1>3. PICK e \in Event, k \in Severity, a \in Event :
         e = EventOf[t] /\ k = outcome[t] /\ a = row[t]
  BY <1>2
<1>4. cluster \in [Severity -> Rows \cup {None}]
  BY DEF IInv, TypeOK
<1>5. cluster' = [cluster EXCEPT ![k] = Merged(cluster[k], t)]
  BY <1>1, <1>3
<1>6. /\ Merged(cluster[k], t) \in Rows /\ Merged(cluster[k], t) # None
      /\ Merged(cluster[k], t).analysis = a
  BY <1>3, <1>4, MergedType, ConstantsOK DEF IInv
<1>7. Pointer' = [Pointer EXCEPT ![k] = a]
  <2>1. \A s \in Severity : Pointer'[s] = IF s = k THEN a ELSE Pointer[s]
    BY <1>4, <1>5, <1>6 DEF Pointer, Known
  <2> QED
    BY <2>1 DEF Pointer
<1>8. Ledger!Count(e)
  BY <1>1, <1>3 DEF Ledger!Count
<1>9. CASE a = e
  <2>1. severity' = [severity EXCEPT ![e] = k] /\ Pointer' = [Pointer EXCEPT ![k] = e]
    BY <1>1, <1>3, <1>7, <1>9
  <2>2. Ledger!Analyze(e, k)
    BY <1>8, <2>1 DEF Ledger!Analyze, Pointer
  <2> QED
    BY <2>2 DEF Ledger!Next
<1>10. CASE a # e
  <2>1. severity' = severity /\ severity[a] = k
    BY <1>1, <1>2, <1>3, <1>10
  <2>2. Ledger!Reuse(e, a, k)
    BY <1>7, <1>8, <2>1 DEF Ledger!Reuse, Pointer
  <2> QED
    BY <2>2 DEF Ledger!Next
<1> QED
  BY <1>9, <1>10

LEMMA LedgerStep == IInv /\ [Next]_vars => [Ledger!Next]_(Ledger!vars)
<1>1. UNCHANGED tables => UNCHANGED Ledger!vars
  BY DEF tables, Ledger!vars, Known
<1> QED
  BY <1>1, LedgerCommit
  DEF Next, Work, Tick, Reuse, Analyze, Stamp, Upsert, Publish, Flush, Conflict, Fault, Victim,
      Load, Answer, Close, vars

LEMMA LedgerInit == Init => Ledger!Init
  BY DEF Init, Ledger!Init, Known

\* The transactions and the users' requests implement the ledger of single steps,
\* as those of the pipeline do, with a severity in the place of a fingerprint:
\* each leaves one count and one pointer to an analysis of the row's severity, or
\* nothing (clustering.py: upsert_cluster, pipeline.py: record_run, get_db).
THEOREM ClustersImplementLedger == Spec => LedgerRefined
  BY InvInit, InvStep, LedgerInit, LedgerStep, PTL DEF Spec, LedgerRefined, Ledger!Spec
=============================================================================
