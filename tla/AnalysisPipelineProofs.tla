----------------------- MODULE AnalysisPipelineProofs -----------------------
(***************************************************************************)
(* Proofs about AnalysisPipeline for any sets of events, messages and poll *)
(* cycles and any bounds. The stated safety properties are not inductive:  *)
(* what a commit writes was chosen stages before, so the invariant IInv    *)
(* also says what each stage of a transaction holds (TxOK).                *)
(***************************************************************************)
EXTENDS AnalysisPipeline, FiniteSetTheorems, TLAPS

\* What a transaction holds, by its stage
TxAt(t) ==
    /\ pc[t] \notin Active => mode[t] = "none" /\ ~wrote[t] /\ ~posted[t]
    /\ pc[t] \in Active => mode[t] # "none"
    /\ pc[t] = "persist" => mode[t] \in {"fresh", "bare"} /\ ~wrote[t]
    /\ pc[t] = "cluster" => mode[t] \in {"fresh", "reuse"}
    /\ mode[t] \in {"fresh", "bare"} /\ pc[t] # "persist" => wrote[t] /\ row[t] = ev[t]
    /\ mode[t] = "reuse" => row[t] \in Event /\ LookupOf[row[t]] = LookupOf[ev[t]]
    /\ mode[t] = "reuse" /\ wrote[t] => posted[t]
    /\ posted[t] => pc[t] \in {"notify", "finish"}
    /\ posted[t] \/ pc[t] = "flush" => comments[ev[t]] > 0

TxOK == \A t \in Task : TxAt(t)

\* No analysis is stored that was not counted: whatever attempt fails, crashes
\* or loses a race, an analysis_results row comes with its usage_events row
\* (pipeline.py, one transaction for persist_analysis and record_run)
AnalysesCounted == analyses \subseteq usage

\* last_analysis_id names a stored analysis of the same fingerprint: retention
\* and late commits never leave a cluster pointing elsewhere
ClusterSound ==
    \A l \in Lookup : cluster[l] # None =>
        cluster[l] \in analyses /\ LookupOf[cluster[l]] = l

IInv == TypeOK /\ TxOK /\ AnalysesCounted /\ RefBacked /\ ClusterSound /\ ReusedRowStays

-----------------------------------------------------------------------------
(* Type correctness *)

LEMMA TypeInit == Init => TypeOK
BY ConstantsOK DEF Init, TypeOK, Stage, Active, Mode

LEMMA TypeStep == TypeOK /\ [Next]_vars => TypeOK'
<1> SUFFICES ASSUME TypeOK, [Next]_vars PROVE TypeOK'
  OBVIOUS
<1> USE ConstantsOK
<1>1. ASSUME NEW t \in Task, NEW e \in Event, AcceptWebhook(t, e)
      PROVE  TypeOK'
  BY <1>1 DEF AcceptWebhook, NewMessage, local, world, bounds, TypeOK, Stage, Active, Mode, CiEvent
<1>2. ASSUME NEW t \in Task, NEW e \in Event, IngestRequest(t, e)
      PROVE  TypeOK'
  BY <1>2 DEF IngestRequest, NewMessage, tables, local, world, bounds, TypeOK, Stage, Active, Mode, CiEvent
<1>3. ASSUME NEW p \in Poller, NEW t \in Task, NEW e \in Event, PollEvent(p, t, e)
      PROVE  TypeOK'
  BY <1>3 DEF PollEvent, NewMessage, tables, local, world, bounds, TypeOK, Stage, Active, Mode, CiEvent
<1>4. ASSUME NEW p \in Poller, PollCommit(p)
      PROVE  TypeOK'
  BY <1>4 DEF PollCommit, message, local, world, bounds, TypeOK, Stage, Active, Mode, CiEvent
<1>5. ASSUME NEW p \in Poller, PollRollback(p)
      PROVE  TypeOK'
  BY <1>5 DEF PollRollback, tables, message, local, world, TypeOK, Stage, Active, Mode, CiEvent
<1>6. ASSUME NEW t \in Task, EnqueueAccepted(t)
      PROVE  TypeOK'
  BY <1>6 DEF EnqueueAccepted, tables, message, local, world, bounds, TypeOK, Stage, Active, Mode, CiEvent
<1>7. ASSUME NEW t \in Task, HandlerDies(t)
      PROVE  TypeOK'
  BY <1>7 DEF HandlerDies, tables, message, local, world, bounds, TypeOK, Stage, Active, Mode, CiEvent
<1>8. ASSUME NEW t \in Task, Begin(t)
      PROVE  TypeOK'
  <2>1. Prior(t) # None => Prior(t) \in Event
    BY <1>8 DEF Begin, Prior, Stage, Active, TypeOK
  <2>2. /\ pc' \in [Task -> Stage] /\ mode' \in [Task -> Mode]
        /\ pc[t] = "queued" /\ \A u \in Task : u # t => pc'[u] = pc[u]
    BY <1>8 DEF Begin, Resolve, TypeOK, Stage, Active, Mode
  <2>3. row' \in [Task -> Event \cup {None}] /\ seen' \in [Task -> BOOLEAN]
    <3>1. CASE UNCHANGED <<row, seen>>
      BY <3>1 DEF TypeOK
    <3>2. CASE /\ Prior(t) # None
               /\ row' = [row EXCEPT ![t] = Prior(t)]
               /\ seen' = [seen EXCEPT ![t] = ref[Prior(t)] # None]
      BY <3>2, <2>1 DEF TypeOK
    <3>3. QED
      BY <1>8, <3>1, <3>2 DEF Begin
  <2>4. UNCHANGED <<tables, polled, message, wrote, posted, world, bounds>>
    BY <1>8 DEF Begin
  <2>5. QED
    BY <2>2, <2>3, <2>4 DEF tables, message, world, bounds, TypeOK
<1>9. ASSUME NEW t \in Task, Persist(t)
      PROVE  TypeOK'
  BY <1>9 DEF Persist, AfterResolve, tables, message, world, bounds, TypeOK, Stage, Active, Mode, CiEvent
<1>10. ASSUME NEW t \in Task, UpsertCluster(t)
      PROVE  TypeOK'
  BY <1>10 DEF UpsertCluster, AfterResolve, tables, message, local, world, bounds, TypeOK, Stage, Active, Mode, CiEvent
<1>11. ASSUME NEW t \in Task, Publish(t)
      PROVE  TypeOK'
  BY <1>11 DEF Publish, Outcome, tables, message, local, bounds, TypeOK, Stage, Active, Mode, CiEvent
<1>12. ASSUME NEW t \in Task, Flush(t)
      PROVE  TypeOK'
  BY <1>12 DEF Flush, tables, message, world, bounds, TypeOK, Stage, Active, Mode, CiEvent
<1>13. ASSUME NEW t \in Task, Notify(t)
      PROVE  TypeOK'
  BY <1>13 DEF Notify, Sent, tables, message, local, bounds, TypeOK, Stage, Active, Mode, CiEvent
<1>14. ASSUME NEW t \in Task, Finish(t)
      PROVE  TypeOK'
  <2>1. ev[t] \in Event /\ RunOf[ev[t]] \in Run
    BY <1>14 DEF Finish, RecordRun, RefAfter, TypeOK
  <2>2. usage' \in SUBSET Event /\ analyses' \in SUBSET Event /\ ingested' \in SUBSET Run
    BY <1>14, <2>1 DEF Finish, RecordRun, RefAfter, TypeOK
  <2>3. /\ ref' \in [Event -> Event \cup {None}]
        /\ cluster' \in [Lookup -> Event \cup {None}]
    BY <1>14, <2>1 DEF Finish, RecordRun, RefAfter, TypeOK
  <2>4. /\ pc' \in [Task -> Stage] /\ \A u \in Task : pc'[u] # "unused" => ev'[u] \in Event
        /\ mode' \in [Task -> Mode] /\ row' \in [Task -> Event \cup {None}]
        /\ seen' \in [Task -> BOOLEAN] /\ wrote' \in [Task -> BOOLEAN]
        /\ posted' \in [Task -> BOOLEAN]
    BY <1>14, <2>1 DEF Finish, RecordRun, RefAfter, Forget, message, TypeOK, Stage, Mode
  <2>5. UNCHANGED <<polled, ev, attempt, redelivered, comments, alerts, rollbacks, expiries, deaths>>
    BY <1>14 DEF Finish, RecordRun, RefAfter, message, world, bounds
  <2>6. QED
    BY <2>2, <2>3, <2>4, <2>5 DEF TypeOK
<1>15. ASSUME NEW t \in Task, pc[t] \in Active, RollBack(t)
      PROVE  TypeOK'
  BY <1>15 DEF RollBack, Retry, Requeue, Forget, tables, world, bounds, TypeOK, Stage, Active, Mode, CiEvent
<1>16. ASSUME NEW t \in Task, WorkerDies(t)
      PROVE  TypeOK'
  BY <1>16 DEF WorkerDies, Forget, tables, world, bounds, TypeOK, Stage, Active, Mode, CiEvent
<1>17. ASSUME NEW A \in SUBSET analyses, NEW R \in SUBSET ingested, EnforceRetention(A, R)
      PROVE  TypeOK'
  BY <1>17 DEF EnforceRetention, ClusterAfter, message, local, world, TypeOK, Stage, Active, Mode, CiEvent
<1>18. ASSUME UNCHANGED vars PROVE TypeOK'
  BY <1>18 DEF vars, tables, message, local, world, bounds, TypeOK, Stage, Active, Mode, CiEvent
<1>19. QED
  BY <1>1, <1>2, <1>3, <1>4, <1>5, <1>6, <1>7, <1>8, <1>9, <1>10, <1>11, <1>12, <1>13, <1>14, <1>15, <1>16, <1>17, <1>18
  DEF Next, Step, Error, UsageConflict, StaleReuse, DeadlockVictim, WaitsFor, Active

-----------------------------------------------------------------------------
(* The invariant *)

LEMMA InvInit == Init => IInv
BY TypeInit, ConstantsOK
DEF Init, IInv, TxOK, TxAt, AnalysesCounted, RefBacked, ClusterSound, ReusedRowStays, Active

\* What one step does to the committed analyses: only a commit and retention
\* change them, and comments are never taken back
Quiet ==
    /\ UNCHANGED <<analyses, ref, usage, cluster>>
    /\ \A e \in Event : comments'[e] >= comments[e]

LEMMA WhoWrites ==
    TypeOK /\ [Next]_vars =>
        \/ Quiet
        \/ \E t \in Task : Finish(t)
        \/ \E A \in SUBSET analyses, R \in SUBSET ingested : EnforceRetention(A, R)
<1> DEFINE Goal == \/ Quiet
                   \/ \E t \in Task : Finish(t)
                   \/ \E A \in SUBSET analyses, R \in SUBSET ingested : EnforceRetention(A, R)
<1> SUFFICES ASSUME TypeOK, [Next]_vars PROVE Goal
  OBVIOUS
<1> USE ConstantsOK
<1>1. ASSUME NEW t \in Task, NEW e \in Event, AcceptWebhook(t, e)
      PROVE  Goal
  BY <1>1 DEF AcceptWebhook, NewMessage, local, world, bounds, Quiet, TypeOK
<1>2. ASSUME NEW t \in Task, NEW e \in Event, IngestRequest(t, e)
      PROVE  Goal
  BY <1>2 DEF IngestRequest, NewMessage, tables, local, world, bounds, Quiet, TypeOK
<1>3. ASSUME NEW p \in Poller, NEW t \in Task, NEW e \in Event, PollEvent(p, t, e)
      PROVE  Goal
  BY <1>3 DEF PollEvent, NewMessage, tables, local, world, bounds, Quiet, TypeOK
<1>4. ASSUME NEW p \in Poller, PollCommit(p)
      PROVE  Goal
  BY <1>4 DEF PollCommit, message, local, world, bounds, Quiet, TypeOK
<1>5. ASSUME NEW p \in Poller, PollRollback(p)
      PROVE  Goal
  BY <1>5 DEF PollRollback, tables, message, local, world, Quiet, TypeOK
<1>6. ASSUME NEW t \in Task, EnqueueAccepted(t)
      PROVE  Goal
  BY <1>6 DEF EnqueueAccepted, tables, message, local, world, bounds, Quiet, TypeOK
<1>7. ASSUME NEW t \in Task, HandlerDies(t)
      PROVE  Goal
  BY <1>7 DEF HandlerDies, tables, message, local, world, bounds, Quiet, TypeOK
<1>8. ASSUME NEW t \in Task, Begin(t)
      PROVE  Goal
  BY <1>8 DEF Begin, Prior, Resolve, tables, message, world, bounds, Quiet, TypeOK
<1>9. ASSUME NEW t \in Task, Persist(t)
      PROVE  Goal
  BY <1>9 DEF Persist, AfterResolve, tables, message, world, bounds, Quiet, TypeOK
<1>10. ASSUME NEW t \in Task, UpsertCluster(t)
      PROVE  Goal
  BY <1>10 DEF UpsertCluster, AfterResolve, tables, message, local, world, bounds, Quiet, TypeOK
<1>11. ASSUME NEW t \in Task, Publish(t)
      PROVE  Goal
  BY <1>11 DEF Publish, Outcome, tables, message, local, bounds, Quiet, TypeOK
<1>12. ASSUME NEW t \in Task, Flush(t)
      PROVE  Goal
  BY <1>12 DEF Flush, tables, message, world, bounds, Quiet, TypeOK
<1>13. ASSUME NEW t \in Task, Notify(t)
      PROVE  Goal
  BY <1>13 DEF Notify, tables, message, local, bounds, Quiet, TypeOK
<1>14. ASSUME NEW t \in Task, Finish(t)
      PROVE  Goal
  BY <1>14
<1>15. ASSUME NEW t \in Task, pc[t] \in Active, RollBack(t)
      PROVE  Goal
  BY <1>15 DEF RollBack, Retry, Requeue, Forget, tables, world, bounds, Quiet, TypeOK
<1>16. ASSUME NEW t \in Task, WorkerDies(t)
      PROVE  Goal
  BY <1>16 DEF WorkerDies, Forget, tables, world, bounds, Quiet, TypeOK
<1>17. ASSUME NEW A \in SUBSET analyses, NEW R \in SUBSET ingested, EnforceRetention(A, R)
      PROVE  Goal
  BY <1>17
<1>18. ASSUME UNCHANGED vars
      PROVE  Goal
  BY <1>18 DEF vars, tables, message, local, world, bounds, Quiet, TypeOK
<1>19. QED
  BY <1>1, <1>2, <1>3, <1>4, <1>5, <1>6, <1>7, <1>8, <1>9, <1>10, <1>11, <1>12, <1>13, <1>14, <1>15, <1>16, <1>17, <1>18
  DEF Next, Step, Error, UsageConflict, StaleReuse, DeadlockVictim, WaitsFor, Active

\* Every step keeps what the stage of a transaction says about it
LEMMA TxStep == IInv /\ [Next]_vars => TxOK'
<1> SUFFICES ASSUME IInv, [Next]_vars PROVE TxOK'
  OBVIOUS
<1> USE ConstantsOK DEF IInv
<1>1. ASSUME NEW t \in Task, NEW e \in Event, AcceptWebhook(t, e)
      PROVE  TxOK'
  BY <1>1 DEF AcceptWebhook, NewMessage, local, world, bounds, TypeOK, TxOK, TxAt, Active, Stage, Mode
<1>2. ASSUME NEW t \in Task, NEW e \in Event, IngestRequest(t, e)
      PROVE  TxOK'
  BY <1>2 DEF IngestRequest, NewMessage, tables, local, world, bounds, TypeOK, TxOK, TxAt, Active, Stage, Mode
<1>3. ASSUME NEW p \in Poller, NEW t \in Task, NEW e \in Event, PollEvent(p, t, e)
      PROVE  TxOK'
  BY <1>3 DEF PollEvent, NewMessage, tables, local, world, bounds, TypeOK, TxOK, TxAt, Active, Stage, Mode
<1>4. ASSUME NEW p \in Poller, PollCommit(p)
      PROVE  TxOK'
  BY <1>4 DEF PollCommit, message, local, world, bounds, TypeOK, TxOK, TxAt, Active, Stage, Mode
<1>5. ASSUME NEW p \in Poller, PollRollback(p)
      PROVE  TxOK'
  BY <1>5 DEF PollRollback, tables, message, local, world, TypeOK, TxOK, TxAt, Active, Stage, Mode
<1>6. ASSUME NEW t \in Task, EnqueueAccepted(t)
      PROVE  TxOK'
  BY <1>6 DEF EnqueueAccepted, tables, message, local, world, bounds, TypeOK, TxOK, TxAt, Active, Stage, Mode
<1>7. ASSUME NEW t \in Task, HandlerDies(t)
      PROVE  TxOK'
  BY <1>7 DEF HandlerDies, tables, message, local, world, bounds, TypeOK, TxOK, TxAt, Active, Stage, Mode
<1>8. ASSUME NEW t \in Task, Begin(t)
      PROVE  TxOK'
  <2>1. CASE mode'[t] \in {"fresh", "bare"}
    BY <1>8, <2>1 DEF Begin, Prior, Resolve, message, world, TypeOK, TxOK, TxAt, Active, Stage, Mode
  <2>2. CASE mode'[t] = "reuse"
    <3>1. /\ row'[t] \in Event /\ LookupOf[row'[t]] = LookupOf[ev'[t]]
          /\ pc'[t] = "cluster" /\ ~wrote[t] /\ ~posted[t]
      BY <1>8, <2>2 DEF Begin, Prior, Resolve, message, TypeOK, TxOK, TxAt, ClusterSound, Active, Mode
    <3>2. \A u \in Task \ {t} : /\ pc'[u] = pc[u] /\ mode'[u] = mode[u] /\ row'[u] = row[u]
      BY <1>8 DEF Begin, Prior, Resolve, TypeOK
    <3>3. UNCHANGED <<ev, wrote, posted, comments>>
      BY <1>8 DEF Begin, Prior, message, world
    <3>4. QED
      <4> SUFFICES ASSUME NEW u \in Task PROVE TxAt(u)'
        BY DEF TxOK
      <4>1. CASE u = t
        BY <1>8, <2>2, <3>1, <3>3, <4>1 DEF Begin, Prior, TypeOK, TxOK, TxAt, Active
      <4>2. CASE u # t
        BY <3>2, <3>3, <4>2 DEF TxOK, TxAt
      <4>3. QED
        BY <4>1, <4>2
  <2>3. QED
    BY <1>8, <2>1, <2>2 DEF Begin, Prior, Resolve, TypeOK, Active, Mode
<1>9. ASSUME NEW t \in Task, Persist(t)
      PROVE  TxOK'
  BY <1>9 DEF Persist, AfterResolve, tables, message, world, bounds, TypeOK, TxOK, TxAt, Active, Stage, Mode
<1>10. ASSUME NEW t \in Task, UpsertCluster(t)
      PROVE  TxOK'
  BY <1>10 DEF UpsertCluster, AfterResolve, tables, message, local, world, bounds, TypeOK, TxOK, TxAt, Active, Stage, Mode
<1>11. ASSUME NEW t \in Task, Publish(t)
      PROVE  TxOK'
  BY <1>11 DEF Publish, Outcome, tables, message, local, bounds, TypeOK, TxOK, TxAt, Active, Stage, Mode
<1>12. ASSUME NEW t \in Task, Flush(t)
      PROVE  TxOK'
  BY <1>12 DEF Flush, tables, message, world, bounds, TypeOK, TxOK, TxAt, Active, Stage, Mode
<1>13. ASSUME NEW t \in Task, Notify(t)
      PROVE  TxOK'
  BY <1>13 DEF Notify, tables, message, local, bounds, TypeOK, TxOK, TxAt, Active, Stage, Mode
<1>14. ASSUME NEW t \in Task, Finish(t)
      PROVE  TxOK'
  BY <1>14 DEF Finish, RecordRun, RefAfter, Forget, message, world, bounds, TypeOK, TxOK, TxAt, Active, Stage, Mode
<1>15. ASSUME NEW t \in Task, pc[t] \in Active, RollBack(t)
      PROVE  TxOK'
  BY <1>15 DEF RollBack, Retry, Requeue, Forget, tables, world, bounds, TypeOK, TxOK, TxAt, Active, Stage, Mode
<1>16. ASSUME NEW t \in Task, WorkerDies(t)
      PROVE  TxOK'
  BY <1>16 DEF WorkerDies, Forget, tables, world, bounds, TypeOK, TxOK, TxAt, Active, Stage, Mode
<1>17. ASSUME NEW A \in SUBSET analyses, NEW R \in SUBSET ingested, EnforceRetention(A, R)
      PROVE  TxOK'
  BY <1>17 DEF EnforceRetention, ClusterAfter, message, local, world, TypeOK, TxOK, TxAt, Active, Stage, Mode
<1>18. ASSUME UNCHANGED vars
      PROVE  TxOK'
  BY <1>18 DEF vars, tables, message, local, world, bounds, TypeOK, TxOK, TxAt, Active, Stage, Mode
<1>19. QED
  BY <1>1, <1>2, <1>3, <1>4, <1>5, <1>6, <1>7, <1>8, <1>9, <1>10, <1>11, <1>12, <1>13, <1>14, <1>15, <1>16, <1>17, <1>18
  DEF Next, Step, Error, UsageConflict, StaleReuse, DeadlockVictim, WaitsFor, Active

\* What a transaction holds when it commits
LEMMA AtFinish ==
    ASSUME IInv, NEW t \in Task, pc[t] = "finish"
    PROVE  /\ ev[t] \in Event /\ mode[t] \in {"fresh", "bare", "reuse"}
           /\ mode[t] # "reuse" => row[t] = ev[t]
           /\ mode[t] = "reuse" => row[t] \in analyses /\ LookupOf[row[t]] = LookupOf[ev[t]]
           /\ posted[t] => comments[ev[t]] > 0
BY DEF IInv, TxOK, TxAt, TypeOK, ReusedRowStays, Active, Mode

\* A commit writes a ref and a cluster that point to the row it commits
LEMMA RefStep == IInv /\ [Next]_vars => RefBacked'
<1> SUFFICES ASSUME IInv, [Next]_vars PROVE RefBacked'
  OBVIOUS
<1> USE ConstantsOK DEF IInv
<1>1. CASE Quiet
  BY <1>1, TypeStep DEF Quiet, TypeOK, RefBacked
<1>2. ASSUME NEW t \in Task, Finish(t)
      PROVE  RefBacked'
  <2>1. ev[t] \in Event /\ ref' \in [Event -> Event \cup {None}]
    BY <1>2 DEF Finish, RecordRun, RefAfter, TypeOK
  <2>2. UNCHANGED comments /\ analyses \subseteq analyses' /\ usage' = usage \cup {ev[t]}
    BY <1>2 DEF Finish, RecordRun, RefAfter, world
  <2>3. posted[t] => /\ row[t] \in analyses' /\ comments[ev[t]] > 0
                     /\ LookupOf[ev[t]] = LookupOf[row[t]]
    BY <1>2, AtFinish DEF Finish
  <2>4. \A e \in Event : ref'[e] = IF posted[t] /\ e = row[t] THEN ev[t] ELSE ref[e]
    BY <1>2 DEF Finish, RecordRun, RefAfter, TypeOK
  <2>5. QED
    BY <2>1, <2>2, <2>3, <2>4 DEF RefBacked
<1>3. ASSUME NEW A \in SUBSET analyses, NEW R \in SUBSET ingested, EnforceRetention(A, R)
      PROVE  RefBacked'
  BY <1>3 DEF EnforceRetention, ClusterAfter, world, TypeOK, RefBacked
<1>4. QED
  BY <1>1, <1>2, <1>3, WhoWrites

LEMMA ClusterStep == IInv /\ [Next]_vars => ClusterSound'
<1> SUFFICES ASSUME IInv, [Next]_vars PROVE ClusterSound'
  OBVIOUS
<1> USE ConstantsOK DEF IInv
<1>1. CASE Quiet
  BY <1>1 DEF Quiet, ClusterSound
<1>2. ASSUME NEW t \in Task, Finish(t)
      PROVE  ClusterSound'
  <2>1. mode[t] # "bare" => row[t] \in analyses' /\ LookupOf[row[t]] = LookupOf[ev[t]]
    BY <1>2, AtFinish DEF Finish
  <2>2. \A l \in Lookup :
            cluster'[l] = IF mode[t] # "bare" /\ l = LookupOf[ev[t]] THEN row[t] ELSE cluster[l]
    BY <1>2 DEF Finish, RecordRun, RefAfter, TypeOK
  <2>3. analyses \subseteq analyses'
    BY <1>2 DEF Finish, RecordRun, RefAfter
  <2>4. QED
    BY <2>1, <2>2, <2>3 DEF ClusterSound
<1>3. ASSUME NEW A \in SUBSET analyses, NEW R \in SUBSET ingested, EnforceRetention(A, R)
      PROVE  ClusterSound'
  BY <1>3 DEF EnforceRetention, ClusterAfter, TypeOK, ClusterSound
<1>4. QED
  BY <1>1, <1>2, <1>3, WhoWrites

LEMMA CountStep == IInv /\ [Next]_vars => AnalysesCounted'
BY WhoWrites DEF IInv, Quiet, Finish, RecordRun, EnforceRetention, AnalysesCounted

\* The lock on the cluster row keeps retention away from a reused row
LEMMA ReuseStep == IInv /\ [Next]_vars => ReusedRowStays'
<1> SUFFICES ASSUME IInv, [Next]_vars PROVE ReusedRowStays'
  OBVIOUS
<1> USE ConstantsOK DEF IInv
<1>1. ASSUME NEW t \in Task, NEW e \in Event, AcceptWebhook(t, e)
      PROVE  ReusedRowStays'
  BY <1>1 DEF AcceptWebhook, NewMessage, local, world, bounds, TypeOK, TxOK, TxAt, ReusedRowStays, RowVisible, Active
<1>2. ASSUME NEW t \in Task, NEW e \in Event, IngestRequest(t, e)
      PROVE  ReusedRowStays'
  BY <1>2 DEF IngestRequest, NewMessage, tables, local, world, bounds, TypeOK, TxOK, TxAt, ReusedRowStays, RowVisible, Active
<1>3. ASSUME NEW p \in Poller, NEW t \in Task, NEW e \in Event, PollEvent(p, t, e)
      PROVE  ReusedRowStays'
  BY <1>3 DEF PollEvent, NewMessage, tables, local, world, bounds, TypeOK, TxOK, TxAt, ReusedRowStays, RowVisible, Active
<1>4. ASSUME NEW p \in Poller, PollCommit(p)
      PROVE  ReusedRowStays'
  BY <1>4 DEF PollCommit, message, local, world, bounds, TypeOK, TxOK, TxAt, ReusedRowStays, RowVisible, Active
<1>5. ASSUME NEW p \in Poller, PollRollback(p)
      PROVE  ReusedRowStays'
  BY <1>5 DEF PollRollback, tables, message, local, world, TypeOK, TxOK, TxAt, ReusedRowStays, RowVisible, Active
<1>6. ASSUME NEW t \in Task, EnqueueAccepted(t)
      PROVE  ReusedRowStays'
  BY <1>6 DEF EnqueueAccepted, tables, message, local, world, bounds, TypeOK, TxOK, TxAt, ReusedRowStays, RowVisible, Active
<1>7. ASSUME NEW t \in Task, HandlerDies(t)
      PROVE  ReusedRowStays'
  BY <1>7 DEF HandlerDies, tables, message, local, world, bounds, TypeOK, TxOK, TxAt, ReusedRowStays, RowVisible, Active
<1>8. ASSUME NEW t \in Task, Begin(t)
      PROVE  ReusedRowStays'
  BY <1>8 DEF Begin, Prior, Resolve, tables, message, world, bounds, TypeOK, TxOK, TxAt, ReusedRowStays, RowVisible, Active
<1>9. ASSUME NEW t \in Task, Persist(t)
      PROVE  ReusedRowStays'
  BY <1>9 DEF Persist, AfterResolve, tables, message, world, bounds, TypeOK, TxOK, TxAt, ReusedRowStays, RowVisible, Active
<1>10. ASSUME NEW t \in Task, UpsertCluster(t)
      PROVE  ReusedRowStays'
  BY <1>10 DEF UpsertCluster, AfterResolve, tables, message, local, world, bounds, TypeOK, TxOK, TxAt, ReusedRowStays, RowVisible, Active
<1>11. ASSUME NEW t \in Task, Publish(t)
      PROVE  ReusedRowStays'
  BY <1>11 DEF Publish, Outcome, tables, message, local, bounds, TypeOK, TxOK, TxAt, ReusedRowStays, RowVisible, Active
<1>12. ASSUME NEW t \in Task, Flush(t)
      PROVE  ReusedRowStays'
  BY <1>12 DEF Flush, tables, message, world, bounds, TypeOK, TxOK, TxAt, ReusedRowStays, RowVisible, Active
<1>13. ASSUME NEW t \in Task, Notify(t)
      PROVE  ReusedRowStays'
  BY <1>13 DEF Notify, tables, message, local, bounds, TypeOK, TxOK, TxAt, ReusedRowStays, RowVisible, Active
<1>14. ASSUME NEW t \in Task, Finish(t)
      PROVE  ReusedRowStays'
  BY <1>14 DEF Finish, RecordRun, RefAfter, Forget, message, world, bounds, TypeOK, TxOK, TxAt, ReusedRowStays, RowVisible, Active
<1>15. ASSUME NEW t \in Task, pc[t] \in Active, RollBack(t)
      PROVE  ReusedRowStays'
  BY <1>15 DEF RollBack, Retry, Requeue, Forget, tables, world, bounds, TypeOK, TxOK, TxAt, ReusedRowStays, RowVisible, Active
<1>16. ASSUME NEW t \in Task, WorkerDies(t)
      PROVE  ReusedRowStays'
  BY <1>16 DEF WorkerDies, Forget, tables, world, bounds, TypeOK, TxOK, TxAt, ReusedRowStays, RowVisible, Active
<1>17. ASSUME NEW A \in SUBSET analyses, NEW R \in SUBSET ingested, EnforceRetention(A, R)
      PROVE  ReusedRowStays'
  <2> SUFFICES ASSUME NEW t \in Task, mode[t] = "reuse", pc[t] # "cluster"
               PROVE  row[t] \in analyses'
    BY <1>17 DEF EnforceRetention, ClusterAfter, local, ReusedRowStays
  <2>1. /\ pc[t] \in Active \ {"persist", "cluster"} /\ row[t] \in analyses
        /\ ev[t] \in Event
    BY DEF TypeOK, TxOK, TxAt, ReusedRowStays, Active
  <2>2. LocksCluster(t, LookupOf[ev[t]]) /\ LookupOf[ev[t]] \in Lookup
    BY <2>1 DEF LocksCluster, Active
  <2>3. row[t] \notin A
    BY <1>17, <2>2 DEF EnforceRetention, ClusterAfter, Pinned
  <2>4. QED
    BY <1>17, <2>1, <2>3 DEF EnforceRetention, ClusterAfter
<1>18. ASSUME UNCHANGED vars
      PROVE  ReusedRowStays'
  BY <1>18 DEF vars, tables, message, local, world, bounds, TypeOK, TxOK, TxAt, ReusedRowStays, RowVisible, Active
<1>19. QED
  BY <1>1, <1>2, <1>3, <1>4, <1>5, <1>6, <1>7, <1>8, <1>9, <1>10, <1>11, <1>12, <1>13, <1>14, <1>15, <1>16, <1>17, <1>18
  DEF Next, Step, Error, UsageConflict, StaleReuse, DeadlockVictim, WaitsFor, Active

LEMMA InvStep == IInv /\ [Next]_vars => IInv'
BY TypeStep, TxStep, RefStep, ClusterStep, CountStep, ReuseStep DEF IInv

THEOREM Invariance == Spec => []IInv
BY InvInit, InvStep, PTL DEF Spec

\* Type correctness, for any number of events, messages and poll cycles
THEOREM TypeCorrect == Spec => []TypeOK
<1>1. IInv => TypeOK
  BY DEF IInv
<1>2. QED
  BY Invariance, <1>1, PTL

\* A stored analysis is always counted: the pipeline's transaction is all or nothing
THEOREM AnalysesAreCounted == Spec => []AnalysesCounted
<1>1. IInv => AnalysesCounted
  BY DEF IInv
<1>2. QED
  BY Invariance, <1>1, PTL

\* A stored feedback_ref always has a real comment of an analysed, alike failure
\* behind it, whatever rolls back, dies or is retried
THEOREM RefsAreBacked == Spec => []RefBacked
<1>1. IInv => RefBacked
  BY DEF IInv
<1>2. QED
  BY Invariance, <1>1, PTL

\* The cost saver never finds a deleted or foreign analysis in a cluster
THEOREM ClustersAreSound == Spec => []ClusterSound
<1>1. IInv => ClusterSound
  BY DEF IInv
<1>2. QED
  BY Invariance, <1>1, PTL

\* A transaction past upsert_cluster never loses the row it reuses to retention
THEOREM ReusedRowsStay == Spec => []ReusedRowStays
<1>1. IInv => ReusedRowStays
  BY DEF IInv
<1>2. QED
  BY Invariance, <1>1, PTL

LEMMA RefSurvivesStep ==
    IInv /\ [Next]_vars => \A e \in Event : ref[e] # None /\ e \in analyses' => ref'[e] # None
<1> SUFFICES ASSUME IInv, [Next]_vars, NEW e \in Event, ref[e] # None, e \in analyses'
             PROVE  ref'[e] # None
  OBVIOUS
<1> USE ConstantsOK DEF IInv
<1>1. CASE Quiet
  BY <1>1 DEF Quiet
<1>2. ASSUME NEW t \in Task, Finish(t) PROVE ref'[e] # None
  BY <1>2, AtFinish DEF Finish, RefAfter, TypeOK
<1>3. ASSUME NEW A \in SUBSET analyses, NEW R \in SUBSET ingested, EnforceRetention(A, R)
      PROVE  ref'[e] # None
  BY <1>3 DEF EnforceRetention
<1>4. QED
  BY <1>1, <1>2, <1>3, WhoWrites

\* No step takes the feedback_ref from a row that stays stored: the second
\* analysis of a failure, a retry or a reuse never makes the pipeline forget
\* that it has commented
THEOREM RefsSurvive == Spec => RefSurvives
<1>1. IInv /\ [Next]_vars =>
        [\A e \in Event : ref[e] # None /\ e \in analyses' => ref'[e] # None]_vars
  BY RefSurvivesStep
<1>2. QED
  BY Invariance, <1>1, PTL DEF Spec, RefSurvives

-----------------------------------------------------------------------------
(* The intake *)

\* A message that was not sent is of no event
Blank == \A t \in Task : pc[t] = "unused" => ev[t] = None

\* What a step does to the messages: it sends one, or no event changes
Sends(t, e) ==
    /\ pc[t] = "unused" /\ pc'[t] # "unused"
    /\ ev' = [ev EXCEPT ![t] = e]
    /\ \A u \in Task \ {t} : pc'[u] = pc[u]
    /\ UNCHANGED <<attempt, redelivered>>

Unsent == UNCHANGED ev /\ \A t \in Task : pc'[t] = "unused" => pc[t] = "unused"

\* Only the ways of ingestion send a message, only they and a commit of an
\* ingest request or of a poll cycle claim a run, and only a rollback and
\* retention let one go
LEMMA WhoSends ==
    TypeOK /\ [Next]_vars =>
        \/ \E t \in Task, e \in Event : AcceptWebhook(t, e)
        \/ \E t \in Task, e \in Event : IngestRequest(t, e)
        \/ \E p \in Poller, t \in Task, e \in Event : PollEvent(p, t, e)
        \/ \E p \in Poller : PollCommit(p)
        \/ \E p \in Poller : PollRollback(p)
        \/ \E t \in Task : Finish(t)
        \/ \E A \in SUBSET analyses, R \in SUBSET ingested : EnforceRetention(A, R)
        \/ Unsent /\ UNCHANGED <<ingested, polled, rollbacks, expiries>>
<1> DEFINE Rest == Unsent /\ UNCHANGED <<ingested, polled, rollbacks, expiries>>
<1> SUFFICES ASSUME TypeOK, [Next]_vars,
                    ~\E t \in Task, e \in Event : AcceptWebhook(t, e),
                    ~\E t \in Task, e \in Event : IngestRequest(t, e),
                    ~\E p \in Poller, t \in Task, e \in Event : PollEvent(p, t, e),
                    ~\E p \in Poller : PollCommit(p),
                    ~\E p \in Poller : PollRollback(p),
                    ~\E t \in Task : Finish(t),
                    ~\E A \in SUBSET analyses, R \in SUBSET ingested : EnforceRetention(A, R)
             PROVE  Rest
  OBVIOUS
<1>1. ASSUME NEW t \in Task, EnqueueAccepted(t)
      PROVE  Rest
  BY <1>1 DEF EnqueueAccepted, tables, message, bounds, TypeOK, Unsent
<1>2. ASSUME NEW t \in Task, HandlerDies(t)
      PROVE  Rest
  BY <1>2 DEF HandlerDies, tables, message, bounds, TypeOK, Unsent
<1>3. ASSUME NEW t \in Task, Begin(t)
      PROVE  Rest
  BY <1>3 DEF Begin, Resolve, tables, message, bounds, TypeOK, Unsent
<1>4. ASSUME NEW t \in Task, Persist(t)
      PROVE  Rest
  BY <1>4 DEF Persist, AfterResolve, tables, message, bounds, TypeOK, Unsent
<1>5. ASSUME NEW t \in Task, UpsertCluster(t)
      PROVE  Rest
  BY <1>5 DEF UpsertCluster, AfterResolve, tables, message, bounds, TypeOK, Unsent
<1>6. ASSUME NEW t \in Task, Publish(t)
      PROVE  Rest
  BY <1>6 DEF Publish, tables, message, bounds, TypeOK, Unsent
<1>7. ASSUME NEW t \in Task, Flush(t)
      PROVE  Rest
  BY <1>7 DEF Flush, tables, message, bounds, TypeOK, Unsent
<1>8. ASSUME NEW t \in Task, Notify(t)
      PROVE  Rest
  BY <1>8 DEF Notify, tables, message, bounds, TypeOK, Unsent
<1>9. ASSUME NEW t \in Task, RollBack(t)
      PROVE  Rest
  BY <1>9 DEF RollBack, Retry, Requeue, tables, bounds, TypeOK, Unsent
<1>10. ASSUME NEW t \in Task, WorkerDies(t)
      PROVE  Rest
  BY <1>10 DEF WorkerDies, tables, TypeOK, Unsent
<1>11. ASSUME UNCHANGED vars
      PROVE  Rest
  BY <1>11 DEF vars, tables, message, bounds, Unsent
<1>12. QED
  BY <1>1, <1>2, <1>3, <1>4, <1>5, <1>6, <1>7, <1>8, <1>9, <1>10, <1>11
  DEF Next, Step, Error, UsageConflict, StaleReuse, DeadlockVictim

LEMMA BlankStep == TypeOK /\ Blank /\ [Next]_vars => Blank'
<1> SUFFICES ASSUME TypeOK, Blank, [Next]_vars PROVE Blank'
  OBVIOUS
<1>1. CASE Unsent
  BY <1>1 DEF Unsent, Blank
<1>2. ASSUME NEW t \in Task, NEW e \in Event, NEW stage \in {"accepted", "queued", "lost"},
             NewMessage(t, e, stage)
      PROVE  Blank'
  BY <1>2 DEF NewMessage, TypeOK, Blank
<1>3. ASSUME NEW t \in Task, Finish(t) PROVE Blank'
  BY <1>3 DEF Finish, message, TypeOK, Blank
<1>4. QED
  BY <1>1, <1>2, <1>3, WhoSends
  DEF AcceptWebhook, IngestRequest, PollEvent, PollCommit, PollRollback, EnforceRetention,
      message, Blank

\* The runs that FailureIntake takes for claimed
Claimed == ingested \cup UNION {polled[p] : p \in Poller}

\* The messages of a run
Messages(r) == {t \in Task : ev[t] \in CiEvent /\ RunOf[ev[t]] = r}

LEMMA MessagesFinite ==
    \A r \in Run : IsFiniteSet(Messages(r)) /\ Taken(r) = Cardinality(Messages(r)) /\ Taken(r) \in Nat
<1> SUFFICES ASSUME NEW r \in Run
             PROVE  IsFiniteSet(Messages(r)) /\ Taken(r) = Cardinality(Messages(r)) /\ Taken(r) \in Nat
  OBVIOUS
<1>1. Taken(r) = Cardinality(Messages(r))
  BY DEF Taken, Messages
<1>2. Messages(r) \in SUBSET Task
  BY DEF Messages
<1>3. IsFiniteSet(Messages(r))
  BY <1>2, FS_Subset, ConstantsOK
<1>4. QED
  BY <1>1, <1>3, FS_CardinalityType

\* A new message of a CI failure is one more of its run
LEMMA OneMore ==
    ASSUME TypeOK, Blank, NEW t \in Task, NEW e \in CiEvent, pc[t] = "unused",
           ev' = [ev EXCEPT ![t] = e]
    PROVE  [r \in Run |-> Taken(r)]' = [[r \in Run |-> Taken(r)] EXCEPT ![RunOf[e]] = @ + 1]
<1>1. /\ e \in Event /\ RunOf[e] \in Run /\ ev[t] = None /\ None \notin CiEvent
      /\ ev'[t] = e /\ \A u \in Task \ {t} : ev'[u] = ev[u]
  BY ConstantsOK DEF CiEvent, TypeOK, Blank
<1>2. ASSUME NEW r \in Run
      PROVE  Taken(r)' = IF r = RunOf[e] THEN Taken(r) + 1 ELSE Taken(r)
  <2>1. Taken(r)' = Cardinality(Messages(r)')
    BY DEF Taken, Messages
  <2>2. t \notin Messages(r)
    BY <1>1 DEF Messages
  <2>3. CASE r = RunOf[e]
    <3>1. Messages(r)' = Messages(r) \cup {t}
      BY <1>1, <2>3 DEF Messages, CiEvent
    <3>2. IsFiniteSet(Messages(r)) /\ Taken(r) = Cardinality(Messages(r))
      BY MessagesFinite
    <3>3. Cardinality(Messages(r) \cup {t}) = Cardinality(Messages(r)) + 1
      BY <2>2, <3>2, FS_AddElement
    <3>4. QED
      BY <2>1, <2>3, <3>1, <3>2, <3>3
  <2>4. CASE r # RunOf[e]
    <3>1. Messages(r)' = Messages(r)
      BY <1>1, <2>4 DEF Messages, CiEvent
    <3>2. QED
      BY <2>1, <2>4, <3>1, MessagesFinite
  <2>5. QED
    BY <2>3, <2>4
<1>3. QED
  BY <1>1, <1>2

\* Other messages, and none, leave the runs' numbers alone
LEMMA NoneMore ==
    ASSUME TypeOK, Blank,
           \/ UNCHANGED ev
           \/ \E t \in Task, e \in Ingest : pc[t] = "unused" /\ ev' = [ev EXCEPT ![t] = e]
    PROVE  [r \in Run |-> Taken(r)]' = [r \in Run |-> Taken(r)]
<1>1. ASSUME NEW r \in Run PROVE Messages(r)' = Messages(r)
  BY ConstantsOK DEF Messages, CiEvent, TypeOK, Blank
<1>2. ASSUME NEW r \in Run PROVE Taken(r)' = Taken(r)
  BY <1>1 DEF Taken, Messages
<1>3. QED
  BY <1>2

\* Runs that are let go of are forgotten
LEMMA LetGo ==
    ASSUME TypeOK, Blank, UNCHANGED ev, Claimed' \subseteq Claimed,
           (rollbacks + expiries)' = rollbacks + expiries + 1
    PROVE  Intake!Next
<1>1. PICK R \in SUBSET Claimed : Claimed' = Claimed \ R
  <2>1. Claimed' = Claimed \ (Claimed \ Claimed')
    OBVIOUS
  <2>2. QED
    BY <2>1
<1>2. Intake!Forget(R)
  BY <1>1, NoneMore DEF Intake!Forget, Claimed
<1>3. QED
  BY <1>1, <1>2 DEF Intake!Next, Claimed

\* Every step of the pipeline is a step of FailureIntake or none: AcceptWebhook,
\* PollEvent and the commit of an ingest request claim a run that nobody holds,
\* and what a poll cycle commits was claimed before
LEMMA IntakeStep == TypeOK /\ Blank /\ [Next]_vars => [Intake!Next]_(Intake!vars)
<1> SUFFICES ASSUME TypeOK, Blank, [Next]_vars PROVE [Intake!Next]_(Intake!vars)
  OBVIOUS
<1> USE ConstantsOK
<1>1. ASSUME Claimed' = Claimed, UNCHANGED <<rollbacks, expiries>>,
             \/ UNCHANGED ev
             \/ \E t \in Task, e \in Ingest : pc[t] = "unused" /\ ev' = [ev EXCEPT ![t] = e]
      PROVE  UNCHANGED Intake!vars
  BY <1>1, NoneMore DEF Intake!vars, Claimed
<1>2. ASSUME NEW t \in Task, NEW e \in Event, AcceptWebhook(t, e) PROVE Intake!Next
  <2>1. /\ e \in CiEvent /\ RunOf[e] \in Run /\ RunOf[e] \notin Claimed
        /\ Claimed' = Claimed \cup {RunOf[e]}
    BY <1>2 DEF AcceptWebhook, NewRun, Claimed
  <2>2. [r \in Run |-> Taken(r)]' = [[r \in Run |-> Taken(r)] EXCEPT ![RunOf[e]] = @ + 1]
    BY <1>2, <2>1, OneMore DEF AcceptWebhook, NewMessage
  <2>3. Intake!Claim(RunOf[e])
    BY <1>2, <2>1, <2>2 DEF AcceptWebhook, bounds, Intake!Claim, Claimed
  <2>4. QED
    BY <2>1, <2>3 DEF Intake!Next
<1>3. ASSUME NEW t \in Task, NEW e \in Event, IngestRequest(t, e) PROVE UNCHANGED Intake!vars
  BY <1>1, <1>3 DEF IngestRequest, NewMessage, tables, bounds, Claimed
<1>4. ASSUME NEW p \in Poller, NEW t \in Task, NEW e \in Event, PollEvent(p, t, e)
      PROVE  Intake!Next
  <2>1. /\ e \in CiEvent /\ RunOf[e] \in Run /\ RunOf[e] \notin Claimed
        /\ UNCHANGED <<ingested, rollbacks, expiries>>
    BY <1>4 DEF PollEvent, NewRun, Claimed, tables, bounds
  <2>2. /\ RunOf[e] \in polled'[p]
        /\ \A q \in Poller : /\ polled[q] \subseteq polled'[q]
                            /\ polled'[q] \subseteq polled[q] \cup {RunOf[e]}
    BY <1>4 DEF PollEvent, TypeOK
  <2>3. Claimed' = Claimed \cup {RunOf[e]}
    <3>1. RunOf[e] \in Claimed'
      BY <2>2 DEF Claimed
    <3>2. ASSUME NEW r \in Claimed' PROVE r \in Claimed \cup {RunOf[e]}
      BY <3>2, <2>1, <2>2 DEF Claimed
    <3>3. ASSUME NEW r \in Claimed PROVE r \in Claimed'
      BY <3>3, <2>1, <2>2 DEF Claimed
    <3>4. QED
      BY <3>1, <3>2, <3>3
  <2>4. [r \in Run |-> Taken(r)]' = [[r \in Run |-> Taken(r)] EXCEPT ![RunOf[e]] = @ + 1]
    BY <1>4, <2>1, OneMore DEF PollEvent, NewMessage
  <2>5. Intake!Claim(RunOf[e])
    BY <2>1, <2>3, <2>4 DEF Intake!Claim, Claimed
  <2>6. QED
    BY <2>1, <2>5 DEF Intake!Next
<1>5. ASSUME NEW p \in Poller, PollCommit(p) PROVE UNCHANGED Intake!vars
  <2>1. /\ ingested' = ingested \cup polled[p] /\ UNCHANGED <<ev, rollbacks, expiries>>
        /\ \A q \in Poller : polled'[q] = IF q = p THEN {} ELSE polled[q]
    BY <1>5 DEF PollCommit, message, bounds, TypeOK
  <2>2. Claimed' \subseteq Claimed
    BY <2>1 DEF Claimed
  <2>3. ASSUME NEW r \in Claimed PROVE r \in Claimed'
    BY <2>1 DEF Claimed
  <2>4. QED
    BY <1>1, <2>1, <2>2, <2>3
<1>6. ASSUME NEW p \in Poller, PollRollback(p) PROVE Intake!Next
  <2>1. /\ UNCHANGED <<ingested, ev>> /\ (rollbacks + expiries)' = rollbacks + expiries + 1
        /\ \A q \in Poller : polled'[q] = IF q = p THEN {} ELSE polled[q]
    BY <1>6 DEF PollRollback, tables, message, TypeOK
  <2>2. Claimed' \subseteq Claimed
    BY <2>1 DEF Claimed
  <2>3. QED
    BY <2>1, <2>2, LetGo
<1>7. ASSUME NEW t \in Task, Finish(t) PROVE Intake!Next \/ UNCHANGED Intake!vars
  <2>1. /\ UNCHANGED <<polled, ev, rollbacks, expiries>> /\ ev[t] \in Event
        /\ ingested' \in {ingested, ingested \cup {RunOf[ev[t]]}}
    BY <1>7 DEF Finish, message, bounds, TypeOK
  <2>2. CASE Claimed' = Claimed
    BY <1>1, <2>1, <2>2
  <2>3. CASE Claimed' # Claimed
    <3>1. PICK r \in Run : r \notin Claimed /\ Claimed' = Claimed \cup {r}
      BY <2>1, <2>3 DEF Claimed
    <3>2. Intake!Claim(r)
      BY <2>1, <3>1, NoneMore DEF Intake!Claim, Claimed
    <3>3. QED
      BY <3>2 DEF Intake!Next
  <2>4. QED
    BY <2>2, <2>3
<1>8. ASSUME NEW A \in SUBSET analyses, NEW R \in SUBSET ingested, EnforceRetention(A, R)
      PROVE  Intake!Next
  <2>1. /\ UNCHANGED <<polled, ev>> /\ ingested' = ingested \ R
        /\ (rollbacks + expiries)' = rollbacks + expiries + 1
    BY <1>8 DEF EnforceRetention, message, TypeOK
  <2>2. Claimed' \subseteq Claimed
    BY <2>1 DEF Claimed
  <2>3. QED
    BY <2>1, <2>2, LetGo
<1>9. ASSUME Unsent, UNCHANGED <<ingested, polled, rollbacks, expiries>>
      PROVE  UNCHANGED Intake!vars
  BY <1>1, <1>9 DEF Unsent, Claimed
<1>10. QED
  BY <1>2, <1>3, <1>4, <1>5, <1>6, <1>7, <1>8, <1>9, WhoSends

LEMMA IntakeInit == Init => Intake!Init
<1> SUFFICES ASSUME Init PROVE Intake!Init
  OBVIOUS
<1>1. Claimed = {} /\ rollbacks + expiries = 0
  BY DEF Init, Claimed
<1>2. ASSUME NEW r \in Run PROVE Taken(r) = 0
  <2>1. Messages(r) = {}
    BY ConstantsOK DEF Init, Messages, CiEvent
  <2>2. QED
    BY <2>1, MessagesFinite, FS_EmptySet
<1>3. QED
  BY <1>1, <1>2 DEF Intake!Init, Claimed

\* Webhooks, poll cycles, manual calls and ingest requests together implement
\* FailureIntake: a run is taken up once, and again only after a poll cycle
\* rolled back what it had sent a message for, or retention dropped its row
THEOREM PipelineImplementsIntake == Spec => IntakeRefined
<1>1. Init => Blank
  BY DEF Init, Blank
<1>2. QED
  BY <1>1, IntakeInit, IntakeStep, BlankStep, TypeCorrect, PTL
  DEF Spec, IntakeRefined, Intake!Spec

\* No run is sent more messages for than one, and one for each time that a poll
\* cycle rolled back or retention ran
THEOREM RunsTakenOnce == Spec => [](\A r \in Run : Taken(r) <= rollbacks + expiries + 1)
<1>1. Intake!TakenOnce => \A r \in Run : Taken(r) <= rollbacks + expiries + 1
  BY DEF Intake!TakenOnce
<1>2. Spec => []Intake!TakenOnce
  BY PipelineImplementsIntake, Intake!TakenAtMostOnce DEF IntakeRefined
<1>3. QED
  BY <1>1, <1>2, PTL

-----------------------------------------------------------------------------
(* The transactions are seen as single steps *)

\* The cluster that the analysis of an event belongs to
KeyIn(A) == [e \in Event |-> IF e \in A THEN LookupOf[e] ELSE None]

\* A commit stores an analysis, or takes a stored one
LEMMA LedgerCommit ==
    ASSUME IInv, NEW t \in Task, Finish(t)
    PROVE  Ledger!Next
<1> USE DEF IInv
<1>1. /\ pc[t] = "finish" /\ ev[t] \notin usage /\ usage' = usage \cup {ev[t]}
      /\ analyses' = IF mode[t] = "reuse" THEN analyses ELSE analyses \cup {ev[t]}
      /\ cluster' = IF mode[t] = "bare" THEN cluster
                    ELSE [cluster EXCEPT ![LookupOf[ev[t]]] = row[t]]
  BY DEF Finish, RecordRun
<1>2. /\ ev[t] \in Event /\ LookupOf[ev[t]] \in Lookup
      /\ mode[t] \in {"fresh", "bare", "reuse"}
      /\ mode[t] # "reuse" => row[t] = ev[t]
      /\ mode[t] = "reuse" => row[t] \in analyses /\ LookupOf[row[t]] = LookupOf[ev[t]]
  BY <1>1, AtFinish, ConstantsOK
<1>3. PICK e \in Event, k \in Lookup : e = ev[t] /\ k = LookupOf[ev[t]]
  BY <1>2
<1>4. Ledger!Count(e)
  BY <1>1, <1>3 DEF Ledger!Count
<1>5. CASE mode[t] = "reuse"
  <2>1. PICK a \in Event : a = row[t] /\ a \in analyses /\ LookupOf[a] = k
    BY <1>2, <1>3, <1>5 DEF TypeOK
  <2>2. KeyIn(analyses') = KeyIn(analyses) /\ KeyIn(analyses)[a] = k
    BY <1>1, <1>5, <2>1 DEF KeyIn
  <2>3. cluster' = [cluster EXCEPT ![k] = a]
    BY <1>1, <1>3, <1>5, <2>1
  <2>4. Ledger!Reuse(e, a, k)
    BY <1>4, <2>2, <2>3 DEF Ledger!Reuse, KeyIn
  <2> QED
    BY <2>4 DEF Ledger!Next
<1>6. CASE mode[t] # "reuse"
  <2>1. KeyIn(analyses') = [KeyIn(analyses) EXCEPT ![e] = k]
    BY <1>1, <1>3, <1>6 DEF KeyIn
  <2>2. cluster' = [cluster EXCEPT ![k] = e] \/ cluster' = cluster
    BY <1>1, <1>2, <1>3, <1>6
  <2>3. Ledger!Analyze(e, k)
    BY <1>4, <2>1, <2>2 DEF Ledger!Analyze, KeyIn
  <2> QED
    BY <2>3 DEF Ledger!Next
<1> QED
  BY <1>5, <1>6

LEMMA LedgerStep == IInv /\ [Next]_vars => [Ledger!Next]_(Ledger!vars)
<1> SUFFICES ASSUME IInv, [Next]_vars PROVE [Ledger!Next]_(Ledger!vars)
  OBVIOUS
<1> USE DEF IInv
<1>1. CASE Quiet
  BY <1>1 DEF Quiet, Ledger!vars
<1>2. ASSUME NEW t \in Task, Finish(t) PROVE Ledger!Next
  BY <1>2, LedgerCommit
<1>3. ASSUME NEW A \in SUBSET analyses, NEW R \in SUBSET ingested, EnforceRetention(A, R)
      PROVE  Ledger!Next
  <2>1. /\ A \in SUBSET Event /\ analyses' = analyses \ A /\ usage' = usage
        /\ cluster' = [l \in Lookup |-> IF cluster[l] \in A THEN None ELSE cluster[l]]
    BY <1>3 DEF EnforceRetention, ClusterAfter, TypeOK
  <2>2. KeyIn(analyses') = [e \in Event |-> IF e \in A THEN None ELSE KeyIn(analyses)[e]]
    BY <2>1 DEF KeyIn
  <2>3. Ledger!Delete(A)
    BY <2>1, <2>2 DEF Ledger!Delete, KeyIn
  <2> QED
    BY <2>1, <2>3 DEF Ledger!Next
<1> QED
  BY <1>1, <1>2, <1>3, WhoWrites

LEMMA LedgerInit == Init => Ledger!Init
  BY DEF Init, Ledger!Init

\* Retries, duplicates, rollbacks, deaths and deadlocks are invisible in the tables:
\* every transaction that leaves a trace leaves the one of a single, atomic count
THEOREM PipelineImplementsLedger == Spec => LedgerRefined
  BY Invariance, LedgerInit, LedgerStep, PTL DEF Spec, LedgerRefined, Ledger!Spec

-----------------------------------------------------------------------------
(* Deadlocks are pairs *)

\* Nobody shares a lock
Exclusive ==
    \A t, u \in Task : t # u =>
        /\ ~(wrote[t] /\ wrote[u] /\ row[t] = row[u])
        /\ \A l \in Lookup : ~(LocksCluster(t, l) /\ LocksCluster(u, l))

\* What u holds after a step it held before
NoGain(u) ==
    /\ wrote'[u] => wrote[u] /\ row'[u] = row[u]
    /\ \A l \in Lookup : LocksCluster(u, l)' => LocksCluster(u, l)

\* t gets what nobody else holds
Gains(t) ==
    /\ \A u \in Task \ {t} : NoGain(u)
    /\ wrote'[t] => \/ wrote[t] /\ row'[t] = row[t]
                    \/ \A u \in Task \ {t} : ~(wrote[u] /\ row[u] = row'[t])
    /\ \A l \in Lookup : LocksCluster(t, l)' =>
          \/ LocksCluster(t, l)
          \/ \A u \in Task \ {t} : ~LocksCluster(u, l)

LEMMA WhoLocks ==
    TypeOK /\ TxOK /\ [Next]_vars =>
        (\A u \in Task : NoGain(u)) \/ (\E t \in Task : Gains(t))
<1> DEFINE None1 == \A u \in Task : NoGain(u)
<1> SUFFICES ASSUME TypeOK, TxOK, [Next]_vars PROVE None1 \/ (\E t \in Task : Gains(t))
  OBVIOUS
<1> USE ConstantsOK DEF NoGain, LocksCluster
<1>1. ASSUME NEW t \in Task, NEW e \in Event, NEW stage \in {"accepted", "queued", "lost"},
             NewMessage(t, e, stage), UNCHANGED local
      PROVE  None1
  BY <1>1 DEF NewMessage, local, TypeOK
<1>2. ASSUME NEW t \in Task, EnqueueAccepted(t) \/ HandlerDies(t)
      PROVE  None1
  BY <1>2 DEF EnqueueAccepted, HandlerDies, message, local, TypeOK
<1>3. ASSUME NEW t \in Task, Begin(t)
      PROVE  None1
  <2>1. /\ pc' = [pc EXCEPT ![t] = pc'[t]] /\ mode' = [mode EXCEPT ![t] = mode'[t]]
        /\ pc'[t] \in {"persist", "cluster"} /\ UNCHANGED <<ev, wrote>>
        /\ \A u \in Task \ {t} : row'[u] = row[u]
    BY <1>3 DEF Begin, Resolve, message, TypeOK
  <2>2. ~wrote[t]
    BY <1>3 DEF Begin, TxOK, TxAt, Active
  <2> QED
    BY <2>1, <2>2 DEF TypeOK
<1>4. ASSUME NEW t \in Task, Persist(t)
      PROVE  Gains(t)
  <2>1. /\ \A u \in Task \ {t} : ~(wrote[u] /\ row[u] = ev[t])
        /\ row'[t] = ev[t] /\ mode[t] \in {"fresh", "bare"}
    BY <1>4 DEF Persist, LocksRow, TxOK, TxAt, TypeOK
  <2>2. /\ UNCHANGED <<ev, mode>>
        /\ mode[t] = "fresh" => pc'[t] = "cluster"
        /\ \A u \in Task \ {t} : pc'[u] = pc[u] /\ row'[u] = row[u] /\ wrote'[u] = wrote[u]
    BY <1>4 DEF Persist, message, TypeOK
  <2> QED
    BY <2>1, <2>2 DEF Gains
<1>5. ASSUME NEW t \in Task, UpsertCluster(t)
      PROVE  Gains(t)
  <2>1. /\ \A u \in Task \ {t} : ~LocksCluster(u, LookupOf[ev[t]])
        /\ UNCHANGED <<ev, mode, row, wrote>>
        /\ \A u \in Task \ {t} : pc'[u] = pc[u]
    BY <1>5 DEF UpsertCluster, message, local, TypeOK
  <2> QED
    BY <2>1 DEF Gains
<1>6. ASSUME NEW t \in Task, Publish(t) \/ Notify(t)
      PROVE  None1
  BY <1>6 DEF Publish, Notify, message, local, TypeOK
<1>7. ASSUME NEW t \in Task, Flush(t)
      PROVE  Gains(t)
  BY <1>7 DEF Flush, message, LocksRow, Gains, TypeOK
<1>8. ASSUME NEW t \in Task, Forget(t), UNCHANGED ev, \A u \in Task \ {t} : pc'[u] = pc[u]
      PROVE  None1
  BY <1>8 DEF Forget, TypeOK
<1>9. ASSUME NEW t \in Task, Finish(t) \/ WorkerDies(t) \/ RollBack(t)
      PROVE  None1
  <2>1. Forget(t) /\ UNCHANGED ev /\ \A u \in Task \ {t} : pc'[u] = pc[u]
    BY <1>9 DEF Finish, WorkerDies, RollBack, Retry, Requeue, message, TypeOK
  <2> QED
    BY <2>1, <1>8
<1>10. ASSUME UNCHANGED <<pc, ev, local>>
       PROVE  None1
  BY <1>10 DEF local
<1>11. ASSUME \/ \E p \in Poller : PollCommit(p) \/ PollRollback(p)
              \/ \E A \in SUBSET analyses, R \in SUBSET ingested : EnforceRetention(A, R)
              \/ UNCHANGED vars
       PROVE  None1
  BY <1>10, <1>11 DEF PollCommit, PollRollback, EnforceRetention, vars, message
<1>12. ASSUME NEW t \in Task, NEW e \in Event, AcceptWebhook(t, e) \/ IngestRequest(t, e)
       PROVE  None1
  BY <1>1, <1>12 DEF AcceptWebhook, IngestRequest
<1>13. ASSUME NEW p \in Poller, NEW t \in Task, NEW e \in Event, PollEvent(p, t, e)
       PROVE  None1
  <2>1. PICK stage \in {"queued", "lost"} : NewMessage(t, e, stage)
    BY <1>13 DEF PollEvent
  <2> QED
    BY <1>1, <1>13, <2>1 DEF PollEvent
<1> QED
  BY <1>2, <1>3, <1>4, <1>5, <1>6, <1>7, <1>9, <1>11, <1>12, <1>13
  DEF Next, Step, Error, UsageConflict, StaleReuse, DeadlockVictim

LEMMA ExclusiveStep == TypeOK /\ TxOK /\ Exclusive /\ [Next]_vars => Exclusive'
<1> SUFFICES ASSUME TypeOK, TxOK, Exclusive, [Next]_vars PROVE Exclusive'
  OBVIOUS
<1>1. CASE \A u \in Task : NoGain(u)
  BY <1>1 DEF NoGain, Exclusive
<1>2. ASSUME NEW t \in Task, Gains(t) PROVE Exclusive'
  BY <1>2 DEF Gains, NoGain, Exclusive
<1> QED
  BY <1>1, <1>2, WhoLocks

\* Who holds a lock is at work, and past the statement that took it
LEMMA Holders ==
    ASSUME TypeOK, TxOK, NEW t \in Task, NEW u \in Task
    PROVE  /\ Blocked(t, u) => pc[u] \in Active
           /\ WaitsFor(t, u) => pc[u] # "persist"
           /\ WaitsFor(t, u) /\ pc[t] = "cluster" => pc[u] # "cluster"
           /\ Blocked(t, u) => pc[t] \in {"queued", "persist", "cluster", "flush"}
           /\ Blocked(t, u) /\ pc[t] # "queued" => WaitsFor(t, u)
  BY DEF Blocked, WaitsFor, LocksRow, LocksCluster, InsertsRun, TxOK, TxAt, Active

\* Whom a flush waits for in a deadlock: a fresh analysis of the very failure that
\* is being reused, which waits for the cluster in its turn
LEMMA FlushMeetsFresh ==
    ASSUME IInv, Exclusive, NEW w \in Task, NEW x \in Task, NEW y \in Task,
           pc[w] = "flush", WaitsFor(w, x), Blocked(x, y)
    PROVE  WaitsFor(x, w)
<1> USE DEF IInv
<1>1. w # x /\ wrote[x] /\ row[x] = row[w]
  BY DEF WaitsFor, LocksRow
<1>2. ~wrote[w] /\ mode[w] = "reuse" /\ row[w] \in Event /\ LookupOf[row[w]] = LookupOf[ev[w]]
  <2>1. ~wrote[w]
    BY <1>1 DEF Exclusive
  <2>2. mode[w] \in {"fresh", "bare", "reuse"}
    BY DEF TypeOK, Mode, TxOK, TxAt, Active
  <2> QED
    BY <2>1, <2>2 DEF TxOK, TxAt
<1>3. pc[x] \in {"cluster", "flush"} /\ pc[x] # "queued" /\ WaitsFor(x, y)
  <2>1. pc[x] \in Active /\ pc[x] # "persist"
    BY Holders DEF Blocked
  <2> QED
    BY <2>1, Holders DEF Active
<1>4. mode[x] \in {"fresh", "bare"} /\ row[x] = ev[x]
  <2>1. mode[x] \in {"fresh", "bare", "reuse"}
    BY <1>3 DEF TypeOK, Mode, TxOK, TxAt, Active
  <2>2. mode[x] # "reuse"
    BY <1>1, <1>3 DEF TxOK, TxAt
  <2> QED
    BY <1>3, <2>1, <2>2 DEF TxOK, TxAt
<1>5. pc[x] = "cluster"
  <2>1. CASE pc[x] = "flush"
    <3>1. x # y /\ wrote[y] /\ row[y] = row[x]
      BY <1>3, <2>1 DEF WaitsFor, LocksRow
    <3> QED
      BY <1>1, <3>1 DEF Exclusive
  <2> QED
    BY <1>3, <2>1
<1>6. LocksCluster(w, LookupOf[ev[x]])
  BY <1>1, <1>2, <1>4 DEF LocksCluster
<1> QED
  BY <1>1, <1>5, <1>6 DEF WaitsFor

LEMMA PairsOnly == IInv /\ Exclusive => DeadlocksArePairs
<1> SUFFICES ASSUME IInv, Exclusive PROVE DeadlocksArePairs
  OBVIOUS
<1>1. ASSUME NEW t \in Task, NEW u \in Task, Blocked(t, u) PROVE pc[u] \in Active
  BY <1>1, Holders DEF IInv
<1>2. ASSUME NEW S \in SUBSET Task, S # {}, \A t \in S : \E u \in S : Blocked(t, u)
      PROVE  \E t, u \in S : WaitsFor(t, u) /\ WaitsFor(u, t)
  <2>1. \A t \in S : pc[t] \in {"queued", "persist", "cluster", "flush"}
    BY <1>2, Holders DEF IInv
  <2>2. ASSUME NEW t \in S, pc[t] = "queued"
        PROVE  \E u \in S : pc[u] \in {"persist", "cluster", "flush"}
    <3>1. PICK u \in S : Blocked(t, u)
      BY <1>2
    <3>2. pc[u] \in Active
      BY <1>1, <3>1
    <3> QED
      BY <2>1, <3>2 DEF Active
  <2>3. ASSUME NEW t \in S, pc[t] = "persist"
        PROVE  \E u \in S : pc[u] \in {"cluster", "flush"}
    <3>1. PICK u \in S : Blocked(t, u)
      BY <1>2
    <3>2. pc[u] \in Active /\ pc[u] # "persist"
      BY <2>3, <3>1, Holders DEF IInv
    <3> QED
      BY <2>1, <3>2 DEF Active
  <2>4. ASSUME NEW t \in S, pc[t] = "cluster"
        PROVE  \E u \in S : pc[u] = "flush"
    <3>1. PICK u \in S : Blocked(t, u)
      BY <1>2
    <3>2. pc[u] \in Active /\ pc[u] \notin {"persist", "cluster"}
      BY <2>4, <3>1, Holders DEF IInv
    <3> QED
      BY <2>1, <3>2 DEF Active
  <2>5. PICK w \in S : pc[w] = "flush"
    BY <1>2, <2>1, <2>2, <2>3, <2>4
  <2>6. PICK x \in S : Blocked(w, x)
    BY <1>2
  <2>7. PICK y \in S : Blocked(x, y)
    BY <1>2
  <2>8. WaitsFor(w, x)
    BY <2>5, <2>6, Holders DEF IInv
  <2>9. WaitsFor(x, w)
    BY <2>5, <2>7, <2>8, FlushMeetsFresh
  <2> QED
    BY <2>8, <2>9
<1> QED
  BY <1>1, <1>2 DEF DeadlocksArePairs

\* Any set of messages that wait for one another holds a pair that does: the pair
\* which PostgreSQL's victim unties. Nobody waits for a transaction that has ended.
THEOREM OnlyPairsDeadlock == Spec => []DeadlocksArePairs
<1>1. Init => Exclusive
  BY DEF Init, Exclusive, LocksCluster
<1>2. IInv => TypeOK /\ TxOK
  BY DEF IInv
<1> QED
  BY <1>1, <1>2, Invariance, ExclusiveStep, PairsOnly, PTL DEF Spec

-----------------------------------------------------------------------------
(* Comments and alerts *)

\* Every redelivery is counted by deaths, so that Attempts has room for it
Redelivered == \A t \in Task : redelivered[t] <= deaths

FailuresOf(e) == {a \in Attempts : ev[a[1]] = e /\ a[2] <= Failures(a[1])}
TasksAt(e, stages) == {t \in Task : ev[t] = e /\ pc[t] \in stages}

LEMMA AttemptsFinite == IsFiniteSet(Attempts)
<1>1. IsFiniteSet(1..MaxRetries + MaxDeaths + 1)
  BY ConstantsOK, FS_Interval
<1>2. QED
  BY <1>1, ConstantsOK, FS_Product DEF Attempts

LEMMA FailuresFinite ==
    \A e \in Event :
        /\ IsFiniteSet(FailuresOf(e)) /\ RolledBack(e) = Cardinality(FailuresOf(e))
        /\ RolledBack(e) \in Nat
<1> SUFFICES ASSUME NEW e \in Event
             PROVE  /\ IsFiniteSet(FailuresOf(e)) /\ RolledBack(e) = Cardinality(FailuresOf(e))
                    /\ RolledBack(e) \in Nat
  OBVIOUS
<1>1. FailuresOf(e) \in SUBSET Attempts /\ RolledBack(e) = Cardinality(FailuresOf(e))
  BY DEF FailuresOf, RolledBack
<1>2. IsFiniteSet(FailuresOf(e))
  BY <1>1, AttemptsFinite, FS_Subset
<1>3. QED
  BY <1>1, <1>2, FS_CardinalityType

LEMMA AtFinite ==
    \A e \in Event, stages \in SUBSET Stage :
        /\ IsFiniteSet(TasksAt(e, stages)) /\ At(e, stages) = Cardinality(TasksAt(e, stages))
        /\ At(e, stages) \in Nat
<1> SUFFICES ASSUME NEW e \in Event, NEW stages \in SUBSET Stage
             PROVE  /\ IsFiniteSet(TasksAt(e, stages))
                    /\ At(e, stages) = Cardinality(TasksAt(e, stages))
                    /\ At(e, stages) \in Nat
  OBVIOUS
<1>1. TasksAt(e, stages) \in SUBSET Task /\ At(e, stages) = Cardinality(TasksAt(e, stages))
  BY DEF TasksAt, At
<1>2. IsFiniteSet(TasksAt(e, stages))
  BY <1>1, ConstantsOK, FS_Subset
<1>3. QED
  BY <1>1, <1>2, FS_CardinalityType

\* The stages at which an attempt has paid for a comment, and all it may pay for
Paying == {"flush", "notify", "finish"}
Paid(e, stages) == RolledBack(e) + At(e, stages) + Counted(e)

\* A message moves on: the comments come with entering Paying, the alerts with
\* entering the last stage
Advances(t, s) ==
    /\ pc[t] \in Stage \ {"unused", "finish", "failed"} /\ s \in Stage \ {"unused", "failed"}
    /\ pc[t] \in Paying => s \in Paying
    /\ pc' = [pc EXCEPT ![t] = s]
    /\ UNCHANGED <<ev, attempt, redelivered, usage>>
    /\ \/ UNCHANGED comments
       \/ /\ pc[t] \notin Paying /\ s \in Paying
          /\ \E n \in 0..PostTries : comments' = [comments EXCEPT ![ev[t]] = @ + n]
    /\ \/ UNCHANGED alerts
       \/ /\ s = "finish"
          /\ \E n \in 0..PostTries : alerts' = [alerts EXCEPT ![ev[t]] = @ + n]

\* An attempt ends without a commit, or is repeated after it
Fails(t) ==
    /\ pc[t] \in Active \cup {"done"} /\ pc'[t] \in {"queued", "failed"}
    /\ \A u \in Task \ {t} : pc'[u] = pc[u] /\ Failures(u)' = Failures(u)
    /\ Failures(t)' = Failures(t) + 1
    /\ UNCHANGED <<ev, usage, comments, alerts>>

\* No message does anything that counts
Waits == UNCHANGED <<pc, ev, attempt, redelivered, usage, comments, alerts>>

LEMMA WhoPays ==
    TypeOK /\ [Next]_vars =>
        \/ \E t \in Task, e \in Event : Sends(t, e) /\ UNCHANGED <<usage, comments, alerts>>
        \/ \E t \in Task, s \in Stage : Advances(t, s)
        \/ \E t \in Task : Fails(t)
        \/ \E t \in Task : Finish(t)
        \/ Waits
<1> DEFINE Goal == \/ \E t \in Task, e \in Event : Sends(t, e) /\ UNCHANGED <<usage, comments, alerts>>
                   \/ \E t \in Task, s \in Stage : Advances(t, s)
                   \/ \E t \in Task : Fails(t)
                   \/ \E t \in Task : Finish(t)
                   \/ Waits
<1> SUFFICES ASSUME TypeOK, [Next]_vars PROVE Goal
  OBVIOUS
<1> USE ConstantsOK DEF Stage, Active, Paying
<1>1. ASSUME NEW t \in Task, NEW e \in Event, NEW stage \in {"accepted", "queued", "lost"},
             NewMessage(t, e, stage), UNCHANGED <<usage, comments, alerts>>
      PROVE  Goal
  BY <1>1 DEF NewMessage, TypeOK, Sends
<1>2. ASSUME NEW t \in Task, NEW s \in Stage \ {"unused", "failed"},
             pc[t] \in Stage \ {"unused", "finish", "failed"},
             pc[t] \in Paying => s \in Paying,
             pc' = [pc EXCEPT ![t] = s], UNCHANGED <<message, usage>>,
             \/ UNCHANGED comments
             \/ /\ pc[t] \notin Paying /\ s \in Paying
                /\ \E n \in 0..PostTries : comments' = [comments EXCEPT ![ev[t]] = @ + n],
             \/ UNCHANGED alerts
             \/ /\ s = "finish"
                /\ \E n \in 0..PostTries : alerts' = [alerts EXCEPT ![ev[t]] = @ + n]
      PROVE  Goal
  BY <1>2 DEF message, Advances
<1>3. ASSUME NEW t \in Task, EnqueueAccepted(t) \/ HandlerDies(t)
      PROVE  Goal
  BY <1>2, <1>3 DEF EnqueueAccepted, HandlerDies, tables, world
<1>4. ASSUME NEW t \in Task, Begin(t)
      PROVE  Goal
  BY <1>2, <1>4 DEF Begin, Resolve, tables, world
<1>5. ASSUME NEW t \in Task, Persist(t)
      PROVE  Goal
  BY <1>2, <1>5 DEF Persist, AfterResolve, tables, world
<1>6. ASSUME NEW t \in Task, UpsertCluster(t)
      PROVE  Goal
  BY <1>2, <1>6 DEF UpsertCluster, AfterResolve, tables, world
<1>7. ASSUME NEW t \in Task, Publish(t)
      PROVE  Goal
  <2>1. PICK s \in {"flush", "notify"} :
            /\ pc' = [pc EXCEPT ![t] = s]
            /\ \/ UNCHANGED comments
               \/ \E n \in 0..PostTries : comments' = [comments EXCEPT ![ev[t]] = @ + n]
    BY <1>7 DEF Publish, Outcome
  <2>2. pc[t] = "publish" /\ UNCHANGED <<message, usage, alerts>>
    BY <1>7 DEF Publish, tables
  <2>3. QED
    BY <1>2, <2>1, <2>2
<1>8. ASSUME NEW t \in Task, Flush(t)
      PROVE  Goal
  BY <1>2, <1>8 DEF Flush, tables, world
<1>9. ASSUME NEW t \in Task, Notify(t)
      PROVE  Goal
  BY <1>2, <1>9 DEF Notify, Sent, tables
<1>10. ASSUME NEW t \in Task, pc[t] \in Active, RollBack(t)
       PROVE  Goal
  <2>1. /\ UNCHANGED <<ev, redelivered, usage, comments, alerts>>
        /\ \/ pc' = [pc EXCEPT ![t] = "queued"] /\ attempt' = [attempt EXCEPT ![t] = @ + 1]
           \/ pc' = [pc EXCEPT ![t] = "failed"] /\ UNCHANGED attempt
    BY <1>10 DEF RollBack, Retry, Requeue, tables, world
  <2> QED BY <1>10, <2>1 DEF TypeOK, Fails, Failures
<1>11. ASSUME NEW t \in Task, WorkerDies(t)
      PROVE  Goal
  BY <1>11 DEF WorkerDies, tables, world, TypeOK, Fails, Failures
<1>12. ASSUME \/ \E p \in Poller : PollCommit(p) \/ PollRollback(p)
              \/ \E A \in SUBSET analyses, R \in SUBSET ingested : EnforceRetention(A, R)
              \/ UNCHANGED vars
      PROVE  Goal
  BY <1>12 DEF PollCommit, PollRollback, EnforceRetention, vars, tables, message, world, Waits
<1>13. ASSUME NEW t \in Task, NEW e \in Event, AcceptWebhook(t, e) \/ IngestRequest(t, e)
      PROVE  Goal
  BY <1>1, <1>13 DEF AcceptWebhook, IngestRequest, tables, world
<1>14. ASSUME NEW p \in Poller, NEW t \in Task, NEW e \in Event, PollEvent(p, t, e)
      PROVE  Goal
  BY <1>1, <1>14 DEF PollEvent, tables, world
<1>15. QED
  BY <1>3, <1>4, <1>5, <1>6, <1>7, <1>8, <1>9, <1>10, <1>11, <1>12, <1>13, <1>14
  DEF Next, Step, Error, UsageConflict, StaleReuse, DeadlockVictim, WaitsFor

LEMMA RedeliveredStep == TypeOK /\ Redelivered /\ [Next]_vars => Redelivered'
<1> SUFFICES ASSUME TypeOK, Redelivered, [Next]_vars PROVE Redelivered'
  OBVIOUS
<1>1. ASSUME NEW t \in Task, WorkerDies(t) PROVE Redelivered'
  BY <1>1, ConstantsOK DEF WorkerDies, TypeOK, Redelivered
<1>2. CASE UNCHANGED <<redelivered, deaths>>
  BY <1>2 DEF Redelivered
<1>3. QED
  BY <1>1, <1>2
  DEF Next, vars, Step, Error, UsageConflict, StaleReuse, DeadlockVictim, message, bounds,
      AcceptWebhook, IngestRequest, PollEvent, PollCommit, PollRollback, NewMessage,
      EnqueueAccepted, HandlerDies, Begin, Persist, UpsertCluster, Publish, Flush, Notify,
      Finish, RollBack, EnforceRetention

\* A set that has gained or lost one element
LEMMA PlusOne ==
    ASSUME NEW S, NEW x, IsFiniteSet(S), x \notin S
    PROVE  Cardinality(S \cup {x}) = Cardinality(S) + 1
BY FS_AddElement

\* How many messages of an event are at some stages, when one of them moves
LEMMA AtMoves ==
    ASSUME TypeOK, TypeOK', NEW t \in Task, NEW e \in Event, NEW stages \in SUBSET Stage,
           UNCHANGED ev, \A u \in Task \ {t} : pc'[u] = pc[u]
    PROVE  /\ ev[t] # e \/ (pc[t] \in stages <=> pc'[t] \in stages)
                => At(e, stages)' = At(e, stages)
           /\ ev[t] = e /\ pc[t] \notin stages /\ pc'[t] \in stages
                => At(e, stages)' = At(e, stages) + 1
           /\ ev[t] = e /\ pc[t] \in stages /\ pc'[t] \notin stages
                => At(e, stages) = At(e, stages)' + 1
<1> DEFINE S == TasksAt(e, stages)
<1>1. At(e, stages) = Cardinality(S) /\ At(e, stages)' = Cardinality(S')
  BY DEF At, TasksAt
<1>2. IsFiniteSet(S) /\ IsFiniteSet(S')
  <2>1. S \in SUBSET Task /\ S' \in SUBSET Task
    BY DEF TasksAt
  <2>2. QED
    BY <2>1, FS_Subset, ConstantsOK
<1>3. CASE ev[t] # e \/ (pc[t] \in stages <=> pc'[t] \in stages)
  <2>1. S' = S
    BY <1>3 DEF TasksAt
  <2>2. QED
    BY <1>1, <1>3, <2>1
<1>4. CASE ev[t] = e /\ pc[t] \notin stages /\ pc'[t] \in stages
  <2>1. S' = S \cup {t} /\ t \notin S
    BY <1>4 DEF TasksAt
  <2>2. QED
    BY <1>1, <1>2, <1>4, <2>1, PlusOne
<1>5. CASE ev[t] = e /\ pc[t] \in stages /\ pc'[t] \notin stages
  <2>1. S = S' \cup {t} /\ t \notin S'
    BY <1>5 DEF TasksAt
  <2>2. QED
    BY <1>1, <1>2, <1>5, <2>1, PlusOne
<1>6. QED
  BY <1>3, <1>4, <1>5

\* Attempts that ended without a commit stay so
LEMMA FailuresKept ==
    ASSUME TypeOK, TypeOK', NEW e \in Event,
           \A u \in Task : ev[u] = e => ev'[u] = e /\ Failures(u) <= Failures(u)'
    PROVE  RolledBack(e) <= RolledBack(e)'
<1>1. \A u \in Task : Failures(u) \in Nat /\ Failures(u)' \in Nat
  BY ConstantsOK DEF TypeOK, Failures
<1>2. FailuresOf(e) \in SUBSET FailuresOf(e)'
  <2> SUFFICES ASSUME NEW a \in FailuresOf(e) PROVE a \in FailuresOf(e)'
    OBVIOUS
  <2>1. a \in Attempts /\ a[1] \in Task /\ a[2] \in Nat /\ ev[a[1]] = e /\ a[2] <= Failures(a[1])
    BY ConstantsOK DEF FailuresOf, Attempts
  <2>2. ev'[a[1]] = e /\ a[2] <= Failures(a[1])'
    BY <1>1, <2>1
  <2>3. QED
    BY <2>1, <2>2 DEF FailuresOf, Attempts
<1>3. /\ RolledBack(e) = Cardinality(FailuresOf(e))
      /\ RolledBack(e)' = Cardinality(FailuresOf(e)')
      /\ IsFiniteSet(FailuresOf(e)')
  <2>1. FailuresOf(e)' \in SUBSET Attempts /\ RolledBack(e)' = Cardinality(FailuresOf(e)')
    BY DEF FailuresOf, RolledBack, Attempts
  <2>2. IsFiniteSet(FailuresOf(e)')
    BY <2>1, AttemptsFinite, FS_Subset
  <2>3. QED
    BY <2>1, <2>2, FailuresFinite
<1>4. QED
  BY <1>2, <1>3, FS_Subset

\* One more attempt of t ended without a commit
LEMMA FailuresGrow ==
    ASSUME TypeOK, TypeOK', Redelivered', NEW t \in Task, NEW e \in Event, ev[t] = e, Fails(t)
    PROVE  RolledBack(e)' = RolledBack(e) + 1
<1> DEFINE n == Failures(t) + 1
<1>1. /\ \A u \in Task : Failures(u) \in Nat
      /\ Failures(t)' = n /\ n \in 1..MaxRetries + MaxDeaths + 1
  <2>1. \A u \in Task : Failures(u) \in Nat
    BY ConstantsOK DEF TypeOK, Failures
  <2>2. attempt'[t] <= MaxRetries /\ redelivered'[t] <= MaxDeaths
    BY ConstantsOK DEF TypeOK, Redelivered
  <2>3. Failures(t)' = n
    BY DEF Fails
  <2>4. Failures(t)' <= MaxRetries + MaxDeaths + 1
    BY <2>2, ConstantsOK DEF Failures, TypeOK
  <2>5. QED
    BY <2>1, <2>3, <2>4, ConstantsOK
<1>2. /\ RolledBack(e) = Cardinality(FailuresOf(e)) /\ IsFiniteSet(FailuresOf(e))
      /\ RolledBack(e)' = Cardinality(FailuresOf(e)')
  <2>1. RolledBack(e)' = Cardinality(FailuresOf(e)')
    BY DEF FailuresOf, RolledBack, Attempts, Fails
  <2>2. QED
    BY <1>1, <2>1, FailuresFinite
<1>3. <<t, n>> \notin FailuresOf(e)
  BY <1>1 DEF FailuresOf, Attempts
<1>4. FailuresOf(e)' = FailuresOf(e) \cup {<<t, n>>}
  <2>1. ASSUME NEW a \in Attempts
        PROVE  a[2] <= Failures(a[1])' <=> a[2] <= Failures(a[1]) \/ a = <<t, n>>
    <3>1. a[1] \in Task /\ a[2] \in 1..MaxRetries + MaxDeaths + 1 /\ a = <<a[1], a[2]>>
      BY DEF Attempts
    <3>2. CASE a[1] = t
      BY <1>1, <3>1, <3>2, ConstantsOK
    <3>3. CASE a[1] # t
      BY <3>1, <3>3 DEF Fails
    <3>4. QED
      BY <3>2, <3>3
  <2>2. <<t, n>> \in Attempts
    BY <1>1 DEF Attempts
  <2>3. UNCHANGED ev
    BY DEF Fails
  <2>4. FailuresOf(e)' = {a \in Attempts : ev[a[1]] = e /\ a[2] <= Failures(a[1])'}
    BY <2>3 DEF FailuresOf, Attempts
  <2>5. QED
    BY <2>1, <2>2, <2>4 DEF FailuresOf
<1>5. QED
  BY <1>2, <1>3, <1>4, PlusOne

\* What a step adds to the comments and alerts of e is paid for by what it adds
\* to the attempts that failed, that got so far, or that were counted
Balanced(e) ==
    /\ \/ comments'[e] = comments[e] /\ Paid(e, Paying) <= Paid(e, Paying)'
       \/ comments'[e] <= comments[e] + PostTries /\ Paid(e, Paying) + 1 <= Paid(e, Paying)'
    /\ \/ alerts'[e] = alerts[e] /\ Paid(e, {"finish"}) <= Paid(e, {"finish"})'
       \/ alerts'[e] <= alerts[e] + PostTries /\ Paid(e, {"finish"}) + 1 <= Paid(e, {"finish"})'

LEMMA PaidParts ==
    ASSUME TypeOK, TypeOK', NEW e \in Event, NEW stages \in {Paying, {"finish"}}
    PROVE  /\ stages \in SUBSET Stage
           /\ RolledBack(e) \in Nat /\ RolledBack(e)' \in Nat
           /\ At(e, stages) \in Nat /\ At(e, stages)' \in Nat
           /\ Counted(e) \in Nat /\ Counted(e)' \in Nat
           /\ Paid(e, stages) = RolledBack(e) + At(e, stages) + Counted(e)
           /\ Paid(e, stages)' = RolledBack(e)' + At(e, stages)' + Counted(e)'
           /\ Paid(e, stages) \in Nat /\ Paid(e, stages)' \in Nat
           /\ comments[e] \in Nat /\ comments'[e] \in Nat
           /\ alerts[e] \in Nat /\ alerts'[e] \in Nat
<1>1. stages \in SUBSET Stage
  BY DEF Stage, Active, Paying
<1>2. RolledBack(e)' \in Nat
  <2>1. FailuresOf(e)' \in SUBSET Attempts /\ RolledBack(e)' = Cardinality(FailuresOf(e)')
    BY DEF FailuresOf, RolledBack, Attempts
  <2>2. QED
    BY <2>1, AttemptsFinite, FS_Subset, FS_CardinalityType
<1>3. At(e, stages)' \in Nat
  <2>1. TasksAt(e, stages)' \in SUBSET Task /\ At(e, stages)' = Cardinality(TasksAt(e, stages)')
    BY DEF TasksAt, At
  <2>2. QED
    BY <2>1, ConstantsOK, FS_Subset, FS_CardinalityType
<1>4. QED
  BY <1>1, <1>2, <1>3, FailuresFinite, AtFinite DEF Paid, Counted, TypeOK

LEMMA BalanceStep ==
    ASSUME TypeOK, TypeOK', Blank, Redelivered', [Next]_vars, NEW e \in Event
    PROVE  Balanced(e)
<1> USE ConstantsOK
<1>1. ASSUME NEW t \in Task, NEW f \in Event, Sends(t, f), UNCHANGED <<usage, comments, alerts>>
      PROVE  Balanced(e)
  <2>1. \A u \in Task : ev[u] = e => ev'[u] = e /\ Failures(u) <= Failures(u)'
    <3>1. ev[t] # e
      BY <1>1 DEF Sends, Blank
    <3>2. \A u \in Task \ {t} : ev'[u] = ev[u] /\ Failures(u)' = Failures(u) /\ Failures(u) \in Nat
      BY <1>1 DEF Sends, TypeOK, Failures
    <3>3. QED
      BY <3>1, <3>2
  <2>2. ASSUME NEW stages \in {Paying, {"finish"}} PROVE At(e, stages) <= At(e, stages)'
    <3>1. TasksAt(e, stages) \in SUBSET TasksAt(e, stages)'
      BY <1>1 DEF Sends, Blank, TasksAt, TypeOK
    <3>2. TasksAt(e, stages)' \in SUBSET Task /\ At(e, stages)' = Cardinality(TasksAt(e, stages)')
      BY DEF TasksAt, At
    <3>3. IsFiniteSet(TasksAt(e, stages)')
      BY <3>2, FS_Subset
    <3>4. QED
      BY <3>1, <3>2, <3>3, FS_Subset DEF At, TasksAt
  <2>3. RolledBack(e) <= RolledBack(e)' /\ Counted(e)' = Counted(e)
    BY <1>1, <2>1, FailuresKept DEF Counted
  <2>4. QED
    BY <1>1, <2>2, <2>3, PaidParts DEF Balanced
<1>2. ASSUME NEW t \in Task, NEW s \in Stage, Advances(t, s) PROVE Balanced(e)
  <2>1. /\ ev[t] \in Event /\ pc'[t] = s /\ Counted(e)' = Counted(e)
        /\ UNCHANGED ev /\ \A u \in Task \ {t} : pc'[u] = pc[u]
    BY <1>2 DEF Advances, TypeOK, Counted
  <2>2. RolledBack(e) <= RolledBack(e)'
    <3>1. \A u \in Task : Failures(u)' = Failures(u) /\ Failures(u) \in Nat
      BY <1>2 DEF Advances, TypeOK, Failures
    <3>2. QED
      BY <2>1, <3>1, FailuresKept
  <2>3. \/ comments'[e] = comments[e] /\ Paid(e, Paying) <= Paid(e, Paying)'
        \/ comments'[e] <= comments[e] + PostTries /\ Paid(e, Paying) + 1 <= Paid(e, Paying)'
    <3>1. CASE comments'[e] = comments[e]
      <4>1. At(e, Paying) <= At(e, Paying)'
        BY <1>2, <2>1, AtMoves, PaidParts DEF Advances
      <4>2. QED
        BY <2>1, <2>2, <3>1, <4>1, PaidParts
    <3>2. CASE comments'[e] # comments[e]
      <4>1. /\ ev[t] = e /\ pc[t] \notin Paying /\ s \in Paying
            /\ comments'[e] <= comments[e] + PostTries
        BY <1>2, <2>1, <3>2 DEF Advances, TypeOK
      <4>2. At(e, Paying)' = At(e, Paying) + 1
        BY <2>1, <4>1, AtMoves, PaidParts
      <4>3. QED
        BY <2>1, <2>2, <4>1, <4>2, PaidParts
    <3>3. QED
      BY <3>1, <3>2
  <2>4. \/ alerts'[e] = alerts[e] /\ Paid(e, {"finish"}) <= Paid(e, {"finish"})'
        \/ alerts'[e] <= alerts[e] + PostTries /\ Paid(e, {"finish"}) + 1 <= Paid(e, {"finish"})'
    <3>1. CASE alerts'[e] = alerts[e]
      <4>1. At(e, {"finish"}) <= At(e, {"finish"})'
        BY <1>2, <2>1, AtMoves, PaidParts DEF Advances
      <4>2. QED
        BY <2>1, <2>2, <3>1, <4>1, PaidParts
    <3>2. CASE alerts'[e] # alerts[e]
      <4>1. /\ ev[t] = e /\ pc[t] # "finish" /\ s = "finish"
            /\ alerts'[e] <= alerts[e] + PostTries
        BY <1>2, <2>1, <3>2 DEF Advances, TypeOK
      <4>2. At(e, {"finish"})' = At(e, {"finish"}) + 1
        BY <2>1, <4>1, AtMoves, PaidParts
      <4>3. QED
        BY <2>1, <2>2, <4>1, <4>2, PaidParts
    <3>3. QED
      BY <3>1, <3>2
  <2>5. QED
    BY <2>3, <2>4 DEF Balanced
<1>3. ASSUME NEW t \in Task, Fails(t) PROVE Balanced(e)
  <2>1. /\ \A u \in Task : Failures(u) \in Nat
        /\ \A u \in Task : ev'[u] = ev[u] /\ Failures(u) <= Failures(u)'
    BY <1>3 DEF Fails, TypeOK, Failures
  <2>2. /\ UNCHANGED <<ev, comments, alerts>> /\ Counted(e)' = Counted(e)
        /\ \A u \in Task \ {t} : pc'[u] = pc[u]
        /\ pc'[t] \notin Paying \cup {"finish"}
    BY <1>3 DEF Fails, Counted, Paying
  <2>3. RolledBack(e) <= RolledBack(e)'
    BY <2>1, FailuresKept
  <2>4. ev[t] = e => RolledBack(e)' = RolledBack(e) + 1
    BY <1>3, FailuresGrow
  <2>5. ASSUME NEW stages \in {Paying, {"finish"}} PROVE Paid(e, stages) <= Paid(e, stages)'
    <3>1. pc'[t] \notin stages /\ stages \in SUBSET Stage
      BY <2>2, PaidParts
    <3>2. \/ ev[t] # e /\ At(e, stages)' = At(e, stages)
          \/ ev[t] = e /\ At(e, stages)' = At(e, stages)
          \/ ev[t] = e /\ At(e, stages) = At(e, stages)' + 1
      BY <2>2, <3>1, AtMoves
    <3>3. /\ RolledBack(e) \in Nat /\ RolledBack(e)' \in Nat
          /\ At(e, stages) \in Nat /\ At(e, stages)' \in Nat
          /\ Counted(e) \in Nat /\ Counted(e)' \in Nat
          /\ Paid(e, stages) = RolledBack(e) + At(e, stages) + Counted(e)
          /\ Paid(e, stages)' = RolledBack(e)' + At(e, stages)' + Counted(e)'
      BY PaidParts
    <3>4. QED
      BY <2>2, <2>3, <2>4, <3>2, <3>3
  <2>6. QED
    BY <2>2, <2>5 DEF Balanced
<1>4. ASSUME NEW t \in Task, Finish(t) PROVE Balanced(e)
  <2>1. /\ UNCHANGED <<ev, comments, alerts>> /\ pc[t] = "finish" /\ pc'[t] = "done"
        /\ \A u \in Task \ {t} : pc'[u] = pc[u]
        /\ Counted(e)' = IF ev[t] = e THEN Counted(e) + 1 ELSE Counted(e)
    BY <1>4 DEF Finish, RecordRun, message, world, TypeOK, Counted
  <2>2. RolledBack(e) <= RolledBack(e)'
    <3>1. \A u \in Task : Failures(u)' = Failures(u) /\ Failures(u) \in Nat
      BY <1>4, <2>1 DEF Finish, message, TypeOK, Failures
    <3>2. QED
      BY <2>1, <3>1, FailuresKept
  <2>3. ASSUME NEW stages \in {Paying, {"finish"}} PROVE Paid(e, stages) <= Paid(e, stages)'
    <3>1. pc[t] \in stages /\ pc'[t] \notin stages /\ stages \in SUBSET Stage
      BY <2>1, PaidParts DEF Paying
    <3>2. \/ ev[t] # e /\ At(e, stages)' = At(e, stages)
          \/ ev[t] = e /\ At(e, stages) = At(e, stages)' + 1
      BY <2>1, <3>1, AtMoves
    <3>3. /\ RolledBack(e) \in Nat /\ RolledBack(e)' \in Nat
          /\ At(e, stages) \in Nat /\ At(e, stages)' \in Nat
          /\ Counted(e) \in Nat /\ Counted(e)' \in Nat
          /\ Paid(e, stages) = RolledBack(e) + At(e, stages) + Counted(e)
          /\ Paid(e, stages)' = RolledBack(e)' + At(e, stages)' + Counted(e)'
      BY PaidParts
    <3>4. QED
      BY <2>1, <2>2, <3>2, <3>3
  <2>4. QED
    BY <2>1, <2>3 DEF Balanced
<1>5. ASSUME Waits PROVE Balanced(e)
  <2>1. /\ UNCHANGED <<comments, alerts>> /\ RolledBack(e)' = RolledBack(e)
        /\ Counted(e)' = Counted(e)
    BY <1>5 DEF Waits, RolledBack, Attempts, Failures, Counted
  <2>2. ASSUME NEW stages \in {Paying, {"finish"}} PROVE At(e, stages)' = At(e, stages)
    BY <1>5 DEF Waits, At
  <2>3. QED
    BY <2>1, <2>2, PaidParts DEF Balanced
<1>6. QED
  BY <1>1, <1>2, <1>3, <1>4, <1>5, WhoPays

\* What is paid for grows by the calls that pay
LEMMA Times ==
    ASSUME NEW a \in Nat, NEW b \in Nat, a <= b
    PROVE  PostTries * a \in Nat /\ PostTries * a <= PostTries * b
<1>1. PICK d \in Nat : b = a + d
  <2>1. b - a \in Nat /\ b = a + (b - a)
    OBVIOUS
  <2>2. QED
    BY <2>1
<1>2. PostTries * a \in Nat /\ PostTries * d \in Nat
  BY ConstantsOK
<1>3. PostTries * b = PostTries * a + PostTries * d
  BY <1>1, ConstantsOK
<1>4. QED
  BY <1>2, <1>3

\* A count that its budget pays for stays so: it is left alone, or grows by one call
\* when the budget grows by one as well
LEMMA Spent ==
    ASSUME NEW c \in Nat, NEW d \in Nat, NEW p \in Nat, NEW q \in Nat,
           c <= PostTries * p,
           \/ d = c /\ p <= q
           \/ d <= c + PostTries /\ p + 1 <= q
    PROVE  d <= PostTries * q
<1>1. CASE d = c /\ p <= q
  <2>1. PostTries * p <= PostTries * q /\ PostTries * p \in Nat /\ PostTries * q \in Nat
    BY <1>1, Times
  <2>2. QED
    BY <1>1, <2>1
<1>2. CASE d <= c + PostTries /\ p + 1 <= q
  <2>1. /\ PostTries * (p + 1) <= PostTries * q
        /\ PostTries * q \in Nat /\ PostTries * p \in Nat
    BY <1>2, Times
  <2>2. PostTries * (p + 1) = PostTries * p + PostTries
    BY ConstantsOK
  <2>3. QED
    BY <1>2, <2>1, <2>2, ConstantsOK
<1>3. QED
  BY <1>1, <1>2

LEMMA AccountStep ==
    ASSUME TypeOK, TypeOK', Blank, Redelivered', [Next]_vars, CommentsAccounted, AlertsAccounted
    PROVE  CommentsAccounted' /\ AlertsAccounted'
<1>1. ASSUME NEW e \in Event
      PROVE  /\ comments'[e] <= PostTries * Paid(e, Paying)'
             /\ alerts'[e] <= PostTries * Paid(e, {"finish"})'
  <2> DEFINE p == Paid(e, Paying)
             q == Paid(e, {"finish"})
  <2>1. /\ comments[e] \in Nat /\ comments'[e] \in Nat /\ p \in Nat /\ p' \in Nat
        /\ alerts[e] \in Nat /\ alerts'[e] \in Nat /\ q \in Nat /\ q' \in Nat
    <3>1. ASSUME NEW stages \in {Paying, {"finish"}}
          PROVE  Paid(e, stages) \in Nat /\ Paid(e, stages)' \in Nat
      BY PaidParts
    <3>2. QED
      BY <3>1, PaidParts
  <2>2. comments[e] <= PostTries * p /\ alerts[e] <= PostTries * q
    BY DEF CommentsAccounted, AlertsAccounted, Paid, Paying
  <2>3. Balanced(e)
    BY BalanceStep
  <2>4. comments'[e] <= PostTries * p'
    BY <2>1, <2>2, <2>3, Spent DEF Balanced
  <2>5. alerts'[e] <= PostTries * q'
    BY <2>1, <2>2, <2>3, Spent DEF Balanced
  <2>6. QED
    BY <2>4, <2>5
<1>2. QED
  BY <1>1 DEF CommentsAccounted, AlertsAccounted, Paid, Paying

LEMMA AccountInit == Init => Blank /\ Redelivered /\ CommentsAccounted /\ AlertsAccounted
<1> SUFFICES ASSUME Init PROVE Blank /\ Redelivered /\ CommentsAccounted /\ AlertsAccounted
  OBVIOUS
<1>1. Blank /\ Redelivered
  BY DEF Init, Blank, Redelivered
<1>2. ASSUME NEW e \in Event, NEW stages \in {Paying, {"finish"}} PROVE Paid(e, stages) \in Nat
  <2>1. stages \in SUBSET Stage
    BY DEF Stage, Active, Paying
  <2>2. QED
    BY <2>1, FailuresFinite, AtFinite DEF Paid, Counted
<1>3. ASSUME NEW e \in Event
      PROVE  /\ comments[e] <= PostTries * Paid(e, Paying)
             /\ alerts[e] <= PostTries * Paid(e, {"finish"})
  <2>1. Paid(e, Paying) \in Nat /\ Paid(e, {"finish"}) \in Nat
    BY <1>2
  <2>2. PostTries * Paid(e, Paying) \in Nat /\ PostTries * Paid(e, {"finish"}) \in Nat
    BY <2>1, Times
  <2>3. QED
    BY <2>1, <2>2 DEF Init
<1>4. QED
  BY <1>1, <1>3 DEF CommentsAccounted, AlertsAccounted, Paid, Paying

LEMMA Accounting == Spec => [](CommentsAccounted /\ AlertsAccounted)
<1> DEFINE J == Blank /\ Redelivered /\ CommentsAccounted /\ AlertsAccounted
<1>1. TypeOK /\ TypeOK' /\ J /\ [Next]_vars => J'
  BY BlankStep, RedeliveredStep, AccountStep
<1>2. QED
  BY <1>1, AccountInit, TypeCorrect, PTL DEF Spec

\* Whatever is retried, dies, rolls back or meets the unique key: the comments of
\* an event are paid for by attempts that failed, still run, or were counted, and so
\* are its messages in a chat, up to PostTries of each for an attempt
THEOREM EffectsAreAccounted == Spec => []EffectsAccounted
BY Accounting, PTL DEF EffectsAccounted
=============================================================================
