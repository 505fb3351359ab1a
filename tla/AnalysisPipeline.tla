--------------------------- MODULE AnalysisPipeline ---------------------------
(***************************************************************************)
(* The life of a CI failure in exlogare, from the moment a poll cycle, an  *)
(* inbound webhook, the manual /analyze call or an external ingest request *)
(* sees it, to the committed analysis:                                     *)
(*                                                                         *)
(*   - persist_ingestion_event deduplicates a failure on its ci_run_id;    *)
(*   - analyze_failure.delay puts a Celery message on the broker, AFTER    *)
(*     the commit in the HTTP handlers and BEFORE it in the poller;        *)
(*   - run_analysis_pipeline / run_external_ingest runs in one database    *)
(*     transaction: resolve the analysis (LLM call or cost-saver reuse),   *)
(*     upsert the cluster, publish CI feedback, notify, count the run;     *)
(*   - any exception rolls the transaction back and Celery retries the     *)
(*     message (max_retries), while comments and chat messages stay sent.  *)
(*                                                                         *)
(* PostgreSQL is modelled by what READ COMMITTED gives the code: a         *)
(* transaction's writes are visible at commit only, and an INSERT or       *)
(* UPDATE of a row another open transaction wrote waits for its end.       *)
(* One tenant is modelled: every key of the tables contains tenant_id.     *)
(* A cluster is one row per lookup fingerprint, that is, the severity the  *)
(* LLM gives to one excerpt is taken to be stable.                         *)
(***************************************************************************)
EXTENDS Naturals, FiniteSets

CONSTANTS
    Event,          \* failures, each with its own (ci_run_id, ci_job_id)
    Ingest,         \* those that an external CI posts to /api/ingest/*
    Run,            \* ci_run_id values
    RunOf,          \* the ci_run_id of an event
    Lookup,         \* log fingerprints
    LookupOf,       \* the fingerprint of an event's log excerpt
    Task,           \* Celery messages and ingest requests (bounds the model)
    Poller,         \* poll cycles that may overlap: beat takes no lock
    None,           \* SQL NULL
    MaxRetries,     \* max_retries of analyze_failure
    MaxDeaths,      \* bound on worker deaths that redeliver a message
    MaxRollbacks,   \* bound on poll cycles that roll back
    MaxExpiries,    \* bound on retention runs
    PostTries       \* attempts of one POST of feedback or to a chat (stop_after_attempt)

ASSUME ConstantsOK ==
    /\ Ingest \subseteq Event
    /\ RunOf \in [Event -> Run]
    /\ LookupOf \in [Event -> Lookup]
    /\ None \notin Event \cup Lookup
    /\ MaxRetries \in Nat /\ MaxDeaths \in Nat
    /\ MaxRollbacks \in Nat /\ MaxExpiries \in Nat
    /\ PostTries \in Nat \ {0}
    /\ IsFiniteSet(Task)

VARIABLES
    \* committed tables
    ingested,       \* runs with an ingestion_events row
    analyses,       \* events with an analysis_results row
    ref,            \* feedback_ref of a row: the event whose MR carries the comment
    usage,          \* events with a usage_events row
    cluster,        \* last_analysis_id of the cluster of a lookup
    \* the open transactions of the poll cycles
    polled,         \* runs inserted and not yet committed
    \* messages: where each is, and what its transaction holds
    pc, ev, attempt, redelivered,
    mode,           \* how the analysis is resolved: "fresh", "bare" or "reuse"
    row,            \* analysis_row
    seen,           \* analysis_row.feedback_ref was set when it was read
    wrote,          \* the transaction wrote analysis_row, hence locks it
    posted,         \* the transaction set analysis_row.feedback_ref
    \* the outside world
    comments,       \* comments on the event's MR, commit or issue tracker
    alerts,         \* messages of the event in one chat, or to one subscription
    \* bounds
    rollbacks, expiries, deaths

tables  == <<ingested, analyses, ref, usage, cluster>>
message == <<ev, attempt, redelivered>>
local   == <<mode, row, seen, wrote, posted>>
world   == <<comments, alerts>>
bounds  == <<rollbacks, expiries, deaths>>
vars    == <<tables, polled, pc, message, local, world, bounds>>

CiEvent == Event \ Ingest

\* Stages of the transaction that runs a message
Active == {"persist", "cluster", "publish", "flush", "notify", "finish"}
Stage  == Active \cup {"unused", "accepted", "lost", "queued", "done", "failed"}
Mode   == {"none", "fresh", "bare", "reuse"}

Init ==
    /\ ingested = {} /\ analyses = {} /\ usage = {}
    /\ ref = [e \in Event |-> None]
    /\ cluster = [l \in Lookup |-> None]
    /\ polled = [p \in Poller |-> {}]
    /\ pc = [t \in Task |-> "unused"]
    /\ ev = [t \in Task |-> None]
    /\ attempt = [t \in Task |-> 0]
    /\ redelivered = [t \in Task |-> 0]
    /\ mode = [t \in Task |-> "none"]
    /\ row = [t \in Task |-> None]
    /\ seen = [t \in Task |-> FALSE]
    /\ wrote = [t \in Task |-> FALSE]
    /\ posted = [t \in Task |-> FALSE]
    /\ comments = [e \in Event |-> 0]
    /\ alerts = [e \in Event |-> 0]
    /\ rollbacks = 0 /\ expiries = 0 /\ deaths = 0

-----------------------------------------------------------------------------
(* Ingestion *)

\* Mutant: the conflict on ci_run_id is not looked for
NewRun_NoDedup(r) == \A p \in Poller : r \notin polled[p]

\* persist_ingestion_event returns a row: INSERT .. ON CONFLICT DO NOTHING on
\* ci_run_id alone. An uncommitted row of another transaction would make the
\* statement wait, so a run of an open poll cycle is not new either.
NewRun(r) == r \notin ingested /\ \A p \in Poller : r \notin polled[p]

NewMessage(t, e, stage) ==
    /\ pc[t] = "unused"
    /\ pc' = [pc EXCEPT ![t] = stage]
    /\ ev' = [ev EXCEPT ![t] = e]
    /\ UNCHANGED <<attempt, redelivered>>

\* gitflic_webhook and analyze: persist, audit, commit. The message follows
\* in a later step; a delivery of a known run commits nothing of interest.
AcceptWebhook(t, e) ==
    /\ e \in CiEvent
    /\ NewRun(RunOf[e])
    /\ NewMessage(t, e, "accepted")
    /\ ingested' = ingested \cup {RunOf[e]}
    /\ UNCHANGED <<analyses, ref, usage, cluster, polled, local, world, bounds>>

\* analyze_failure.delay(...) of the handler, after its commit
EnqueueAccepted(t) ==
    /\ pc[t] = "accepted"
    /\ pc' = [pc EXCEPT ![t] = "queued"]
    /\ UNCHANGED <<tables, polled, message, local, world, bounds>>

\* The API process dies, or the broker refuses, between commit and delay
HandlerDies(t) ==
    /\ pc[t] = "accepted"
    /\ pc' = [pc EXCEPT ![t] = "lost"]
    /\ UNCHANGED <<tables, polled, message, local, world, bounds>>

\* One event of a poll cycle: persist, then delay, inside the cycle's transaction.
\* When the broker refuses the message the exception only ends the work on this
\* connection: the row stays in the transaction.
PollEvent(p, t, e) ==
    /\ e \in CiEvent
    /\ NewRun(RunOf[e])
    /\ \E stage \in {"queued", "lost"} : NewMessage(t, e, stage)
    /\ polled' = [polled EXCEPT ![p] = @ \cup {RunOf[e]}]
    /\ UNCHANGED <<tables, local, world, bounds>>

\* worker_session_scope commits at the end of the cycle
PollCommit(p) ==
    /\ polled[p] # {}
    /\ ingested' = ingested \cup polled[p]
    /\ polled' = [polled EXCEPT ![p] = {}]
    /\ UNCHANGED <<analyses, ref, usage, cluster, pc, message, local, world, bounds>>

\* .. or rolls everything back; the messages it sent stay on the broker
PollRollback(p) ==
    /\ polled[p] # {}
    /\ rollbacks < MaxRollbacks
    /\ rollbacks' = rollbacks + 1
    /\ polled' = [polled EXCEPT ![p] = {}]
    /\ UNCHANGED <<tables, pc, message, local, world, expiries, deaths>>

\* POST /api/ingest/*: the request is its own worker, and is sent at will
IngestRequest(t, e) ==
    /\ e \in Ingest
    /\ NewMessage(t, e, "queued")
    /\ UNCHANGED <<tables, polled, local, world, bounds>>

-----------------------------------------------------------------------------
(* The transaction of one message *)

\* The stage after the analysis is resolved: run_external_ingest has no feedback
AfterResolve(t) == IF ev[t] \in Ingest THEN "notify" ELSE "publish"

\* upsert_cluster was executed and its row is locked until the end
LocksCluster(t, l) ==
    /\ pc[t] \in {"publish", "flush", "notify", "finish"}
    /\ mode[t] \in {"fresh", "reuse"}
    /\ LookupOf[ev[t]] = l

LocksRow(t, e) == wrote[t] /\ row[t] = e

\* An ingest request inserts its run itself and locks it until the end
InsertsRun(t, r) ==
    pc[t] \in Active /\ ev[t] \in Ingest /\ RunOf[ev[t]] = r /\ r \notin ingested

Resolve(t, how, at) ==
    /\ mode' = [mode EXCEPT ![t] = how]
    /\ pc' = [pc EXCEPT ![t] = at]

\* evaluate_cost_saver_decision: the analysis a known cluster offers for reuse
Prior(t) == cluster[LookupOf[ev[t]]]

\* Log fetch, excerpt, fingerprint and evaluate_cost_saver_decision. An empty
\* excerpt (the fetch failed) bypasses the clusters. The cost saver may decline
\* a known cluster: disabled for the tenant, or past its TTL. The prior row is
\* read here, without a lock, and not read again.
Begin(t) ==
    /\ pc[t] = "queued"
    /\ \A u \in Task \ {t} : ev[t] \in Ingest => ~InsertsRun(u, RunOf[ev[t]])
    /\ \/ /\ \/ Resolve(t, "fresh", "persist")
             \/ Resolve(t, "bare", "persist")
          /\ UNCHANGED <<row, seen>>
       \/ /\ Prior(t) # None
          /\ Resolve(t, "reuse", "cluster")
          /\ row' = [row EXCEPT ![t] = Prior(t)]
          /\ seen' = [seen EXCEPT ![t] = ref[Prior(t)] # None]
    /\ UNCHANGED <<tables, polled, message, wrote, posted, world, bounds>>

\* The LLM answered; persist_analysis upserts the row of the event and keeps
\* the feedback_ref the row has
Persist(t) ==
    /\ pc[t] = "persist"
    /\ \A u \in Task \ {t} : ~LocksRow(u, ev[t])
    /\ row' = [row EXCEPT ![t] = ev[t]]
    /\ wrote' = [wrote EXCEPT ![t] = TRUE]
    /\ seen' = [seen EXCEPT ![t] = ref[ev[t]] # None]
    /\ pc' = [pc EXCEPT ![t] = IF mode[t] = "fresh" THEN "cluster" ELSE AfterResolve(t)]
    /\ UNCHANGED <<tables, polled, message, mode, posted, world, bounds>>

\* The row exists for this transaction: the foreign key of last_analysis_id holds
RowVisible(t) == row[t] \in analyses \/ wrote[t]

\* Mutant: last_analysis_id without its foreign key
UpsertCluster_NoForeignKey(t) ==
    /\ pc[t] = "cluster"
    /\ \A u \in Task \ {t} : ~LocksCluster(u, LookupOf[ev[t]])
    /\ pc' = [pc EXCEPT ![t] = AfterResolve(t)]
    /\ UNCHANGED <<tables, polled, message, local, world, bounds>>

\* upsert_cluster: INSERT .. ON CONFLICT DO UPDATE, which locks the cluster row
UpsertCluster(t) ==
    /\ pc[t] = "cluster"
    /\ RowVisible(t)
    /\ \A u \in Task \ {t} : ~LocksCluster(u, LookupOf[ev[t]])
    /\ pc' = [pc EXCEPT ![t] = AfterResolve(t)]
    /\ UNCHANGED <<tables, polled, message, local, world, bounds>>

\* The outcomes of one publish call: n comments left behind, a ref or none.
\* Mutant: a skipped publish returns a ref as well
Outcome_AlwaysRef == [n : 0..PostTries, ref : BOOLEAN]

\* A POST whose answer is lost is sent again, so one call leaves up to PostTries
\* comments, and after the last answer is lost the comments have no ref
Outcome == {o \in [n : 0..PostTries, ref : BOOLEAN] : o.ref => o.n > 0}

\* publish_feedback_for_connection, unless the row had a feedback_ref when it was
\* read; a failure to publish is swallowed
Publish(t) ==
    /\ pc[t] = "publish"
    /\ \/ /\ seen[t]
          /\ pc' = [pc EXCEPT ![t] = "notify"]
          /\ UNCHANGED comments
       \/ /\ ~seen[t]
          /\ \E o \in Outcome :
                /\ pc' = [pc EXCEPT ![t] = IF o.ref THEN "flush" ELSE "notify"]
                /\ comments' = [comments EXCEPT ![ev[t]] = @ + o.n]
    /\ UNCHANGED <<tables, polled, message, local, alerts, bounds>>

\* analysis_row.feedback_ref = ..; session.flush()
Flush(t) ==
    /\ pc[t] = "flush"
    /\ \A u \in Task \ {t} : ~LocksRow(u, row[t])
    /\ wrote' = [wrote EXCEPT ![t] = TRUE]
    /\ posted' = [posted EXCEPT ![t] = TRUE]
    /\ pc' = [pc EXCEPT ![t] = "notify"]
    /\ UNCHANGED <<tables, polled, message, mode, row, seen, world, bounds>>

\* SlackNotifier.send, and its like of Telegram and Matrix, repeats the whole call when
\* the answer is lost: so many messages one call may leave in the chat
Sent == 0..PostTries

\* ChannelRouter.dispatch, which swallows what the senders raise, then
\* deliver_webhook.delay for every subscription
Notify(t) ==
    /\ pc[t] = "notify"
    /\ \E n \in Sent : alerts' = [alerts EXCEPT ![ev[t]] = @ + n]
    /\ pc' = [pc EXCEPT ![t] = "finish"]
    /\ UNCHANGED <<tables, polled, message, local, comments, bounds>>

\* Mutant: a session that is not closed after its transaction
Forget_KeepsLock(t) ==
    /\ mode' = [mode EXCEPT ![t] = "none"]
    /\ seen' = [seen EXCEPT ![t] = FALSE]
    /\ posted' = [posted EXCEPT ![t] = FALSE]
    /\ UNCHANGED <<row, wrote>>

Forget(t) ==
    /\ mode' = [mode EXCEPT ![t] = "none"]
    /\ row' = [row EXCEPT ![t] = None]
    /\ seen' = [seen EXCEPT ![t] = FALSE]
    /\ wrote' = [wrote EXCEPT ![t] = FALSE]
    /\ posted' = [posted EXCEPT ![t] = FALSE]

\* Mutant: usage_events without the unique key
RecordRun_NoUniqueKey(t) == usage' = usage \cup {ev[t]}

\* UsageStatsService.record_run: a plain INSERT
RecordRun(t) == ev[t] \notin usage /\ usage' = usage \cup {ev[t]}

\* Mutant: a skipped publish clears the ref of the row
RefAfter_Clears(t) == [ref EXCEPT ![row[t]] = IF posted[t] THEN ev[t] ELSE None]

\* persist_analysis does not touch feedback_ref; the flush does
RefAfter(t) == IF posted[t] THEN [ref EXCEPT ![row[t]] = ev[t]] ELSE ref

\* The run is counted and the transaction commits
Finish(t) ==
    /\ pc[t] = "finish"
    /\ RecordRun(t)
    /\ analyses' = IF mode[t] = "reuse" THEN analyses ELSE analyses \cup {ev[t]}
    /\ ref' = RefAfter(t)
    /\ cluster' = IF mode[t] = "bare" THEN cluster
                  ELSE [cluster EXCEPT ![LookupOf[ev[t]]] = row[t]]
    /\ ingested' = IF ev[t] \in Ingest THEN ingested \cup {RunOf[ev[t]]} ELSE ingested
    /\ pc' = [pc EXCEPT ![t] = "done"]
    /\ Forget(t)
    /\ UNCHANGED <<polled, message, world, bounds>>

-----------------------------------------------------------------------------
(* Failure, retry, death of the worker *)

Requeue(t) == pc' = [pc EXCEPT ![t] = "queued"]

\* Mutants: no max_retries, retries not counted, the exception swallowed
Retry_Unbounded(t) == Requeue(t) /\ attempt' = [attempt EXCEPT ![t] = @ + 1]
Retry_Uncounted(t) == Requeue(t) /\ UNCHANGED attempt
Retry_Swallowed(t) == pc' = [pc EXCEPT ![t] = "done"] /\ UNCHANGED attempt

\* autoretry_for=(Exception,), max_retries; an ingest request answers HTTP 500
Retry(t) ==
    \/ /\ ev[t] \in CiEvent /\ attempt[t] < MaxRetries
       /\ Requeue(t)
       /\ attempt' = [attempt EXCEPT ![t] = @ + 1]
    \/ /\ ev[t] \in Ingest \/ attempt[t] = MaxRetries
       /\ pc' = [pc EXCEPT ![t] = "failed"]
       /\ UNCHANGED attempt

\* The exception leaves worker_session_scope, which rolls back
RollBack(t) ==
    /\ Retry(t)
    /\ Forget(t)
    /\ UNCHANGED <<tables, polled, ev, redelivered, world, bounds>>

\* Any exception that no handler of the pipeline swallows (LLM, database)
Error(t) == pc[t] \in Active /\ RollBack(t)

\* record_run meets the unique key (tenant_id, provider, ci_run_id, ci_job_id)
UsageConflict(t) == pc[t] = "finish" /\ ev[t] \in usage /\ RollBack(t)

\* upsert_cluster refers to an analysis that retention deleted meanwhile
StaleReuse(t) == pc[t] = "cluster" /\ ~RowVisible(t) /\ RollBack(t)

WaitsFor(t, u) ==
    /\ t # u
    /\ \/ pc[t] = "persist" /\ LocksRow(u, ev[t])
       \/ pc[t] = "cluster" /\ LocksCluster(u, LookupOf[ev[t]])
       \/ pc[t] = "flush" /\ LocksRow(u, row[t])

\* PostgreSQL ends a cycle of waits by failing one of its statements
DeadlockVictim(t) ==
    /\ \E u \in Task : WaitsFor(t, u) /\ WaitsFor(u, t)
    /\ RollBack(t)

\* acks_late: a message whose worker dies unacknowledged is delivered again, be it
\* after the commit. When only the pool process dies, Celery acknowledges it as
\* failed; a dying API process takes its ingest request with it.
WorkerDies(t) ==
    /\ \/ /\ pc[t] \in Active \cup {"done"}
          /\ ev[t] \in CiEvent
          /\ deaths < MaxDeaths
          /\ deaths' = deaths + 1
          /\ redelivered' = [redelivered EXCEPT ![t] = @ + 1]
          /\ pc' = [pc EXCEPT ![t] = "queued"]
       \/ /\ pc[t] \in Active
          /\ pc' = [pc EXCEPT ![t] = "failed"]
          /\ UNCHANGED <<redelivered, deaths>>
    /\ Forget(t)
    /\ UNCHANGED <<tables, polled, ev, attempt, world, rollbacks, expiries>>

-----------------------------------------------------------------------------
(* Retention *)

\* A row a transaction relies on cannot be deleted: it wrote it, or it holds the
\* cluster row the ON DELETE SET NULL must update
Pinned(e) ==
    \E t \in Task : \/ LocksRow(t, e)
                    \/ \E l \in Lookup : LocksCluster(t, l) /\ e \in {row[t], cluster[l]}

\* Mutant: last_analysis_id without ON DELETE SET NULL
ClusterAfter_Dangling(A) == cluster

ClusterAfter(A) == [l \in Lookup |-> IF cluster[l] \in A THEN None ELSE cluster[l]]

\* enforce_retention deletes old analyses and old ingestion events, each by its
\* own timestamp; usage_events are kept
EnforceRetention(A, R) ==
    /\ A \cup R # {}
    /\ expiries < MaxExpiries
    /\ expiries' = expiries + 1
    /\ \A e \in A : ~Pinned(e)
    /\ analyses' = analyses \ A
    /\ ref' = [e \in Event |-> IF e \in A THEN None ELSE ref[e]]
    /\ cluster' = ClusterAfter(A)
    /\ ingested' = ingested \ R
    /\ UNCHANGED <<usage, polled, pc, message, local, world, rollbacks, deaths>>

-----------------------------------------------------------------------------

Step(t) ==
    \/ Begin(t) \/ Persist(t) \/ UpsertCluster(t) \/ Publish(t) \/ Flush(t)
    \/ Notify(t) \/ Finish(t)
    \/ UsageConflict(t) \/ StaleReuse(t) \/ DeadlockVictim(t)

Next ==
    \/ \E t \in Task, e \in Event : AcceptWebhook(t, e) \/ IngestRequest(t, e)
    \/ \E p \in Poller, t \in Task, e \in Event : PollEvent(p, t, e)
    \/ \E p \in Poller : PollCommit(p) \/ PollRollback(p)
    \/ \E t \in Task : \/ EnqueueAccepted(t) \/ HandlerDies(t)
                       \/ Step(t) \/ Error(t) \/ WorkerDies(t)
    \/ \E A \in SUBSET analyses, R \in SUBSET ingested : EnforceRetention(A, R)

\* Celery runs every queued message, and a statement or call that can go on does
Fairness == \A t \in Task : WF_vars(EnqueueAccepted(t)) /\ WF_vars(Step(t))

Spec == Init /\ [][Next]_vars /\ Fairness

-----------------------------------------------------------------------------
(* Properties *)

\* Every variable has its type
TypeOK ==
    /\ ingested \in SUBSET Run /\ analyses \in SUBSET Event /\ usage \in SUBSET Event
    /\ ref \in [Event -> Event \cup {None}]
    /\ cluster \in [Lookup -> Event \cup {None}]
    /\ polled \in [Poller -> SUBSET Run]
    /\ pc \in [Task -> Stage]
    /\ ev \in [Task -> Event \cup {None}]
    /\ \A t \in Task : pc[t] # "unused" => ev[t] \in Event
    /\ attempt \in [Task -> 0..MaxRetries]
    /\ redelivered \in [Task -> Nat]
    /\ mode \in [Task -> Mode]
    /\ row \in [Task -> Event \cup {None}]
    /\ seen \in [Task -> BOOLEAN] /\ wrote \in [Task -> BOOLEAN]
    /\ posted \in [Task -> BOOLEAN]
    /\ comments \in [Event -> Nat] /\ alerts \in [Event -> Nat]
    /\ rollbacks \in 0..MaxRollbacks /\ expiries \in 0..MaxExpiries
    /\ deaths \in 0..MaxDeaths

\* A stored feedback_ref is backed by a comment that exists, of an event that
\* was analysed and whose log has the fingerprint of the row it is stored on,
\* although the comment may belong to another run that reused the row
RefBacked ==
    \A e \in Event : ref[e] # None =>
        /\ e \in analyses
        /\ comments[ref[e]] > 0
        /\ ref[e] \in usage
        /\ LookupOf[ref[e]] = LookupOf[e]

\* Once the cluster is locked the reused row stays stored until the transaction
\* ends, so the flush of feedback_ref always finds the row it updates
ReusedRowStays ==
    \A t \in Task :
        mode[t] = "reuse" /\ pc[t] # "cluster" => row[t] \in analyses

\* How often a message was tried again or given up: its attempts that ended without
\* a commit, or were committed and repeated
Failures(t) == attempt[t] + redelivered[t] + (IF pc[t] = "failed" THEN 1 ELSE 0)

\* Those of an event, each the n-th of its message
Attempts == Task \X (1..MaxRetries + MaxDeaths + 1)
RolledBack(e) == Cardinality({a \in Attempts : ev[a[1]] = e /\ a[2] <= Failures(a[1])})

At(e, stages) == Cardinality({t \in Task : ev[t] = e /\ pc[t] \in stages})

Counted(e) == IF e \in usage THEN 1 ELSE 0

\* An event gets one comment for its one counted analysis; every further one is
\* paid for by an attempt that rolled back, was repeated, or still runs, after
\* posting, and one attempt leaves at most PostTries
CommentsAccounted ==
    \A e \in Event : comments[e] <=
        PostTries * (RolledBack(e) + At(e, {"flush", "notify", "finish"}) + Counted(e))

\* The same for the messages in a chat, each attempt of which is sent up to PostTries
\* times as well, but later in the transaction: an attempt that has not got so far has
\* paid for none
AlertsAccounted ==
    \A e \in Event : alerts[e] <=
        PostTries * (RolledBack(e) + At(e, {"finish"}) + Counted(e))

\* What goes out before the commit stays within the attempts that failed
EffectsAccounted == CommentsAccounted /\ AlertsAccounted

\* Messages that webhook, manual call and poller sent for a run
Taken(r) == Cardinality({t \in Task : ev[t] \in CiEvent /\ RunOf[ev[t]] = r})

\* The ways of ingestion together keep what FailureIntake promises: a run is
\* taken up once, and again only after a poll cycle rolled back what it had sent
\* a message for, or retention dropped the ingestion row
Intake == INSTANCE FailureIntake
    WITH claimed <- ingested \cup UNION {polled[p] : p \in Poller},
         taken <- [r \in Run |-> Taken(r)],
         forgotten <- rollbacks + expiries

IntakeRefined == Intake!Spec

\* The transactions are seen as single steps: whatever else runs, fails or is
\* repeated, each counts its failure once, in the instant that stores its
\* analysis or points its cluster to a stored one of the same fingerprint
Ledger == INSTANCE AnalysisLedger
    WITH Key <- Lookup,
         key <- [e \in Event |-> IF e \in analyses THEN LookupOf[e] ELSE None],
         pointer <- cluster,
         counted <- usage

LedgerRefined == Ledger!Spec

\* A committed feedback_ref is not lost while its row is stored: re-analysis
\* keeps it, and only a flush replaces it
RefSurvives ==
    [][\A e \in Event : ref[e] # None /\ e \in analyses' => ref'[e] # None]_vars

\* t cannot go on before u's transaction ends
Blocked(t, u) ==
    \/ WaitsFor(t, u)
    \/ pc[t] = "queued" /\ ev[t] \in Ingest /\ t # u /\ InsertsRun(u, RunOf[ev[t]])

\* Messages that wait for one another hold two that wait for each other, so that
\* a deadlock is always one that DeadlockVictim resolves, and whoever is waited
\* for is at work: no transaction that has ended keeps a lock
DeadlocksArePairs ==
    /\ \A t, u \in Task : Blocked(t, u) => pc[u] \in Active
    /\ \A S \in SUBSET Task :
          S # {} /\ (\A t \in S : \E u \in S : Blocked(t, u)) =>
              \E t, u \in S : WaitsFor(t, u) /\ WaitsFor(u, t)

Settled(t) == pc[t] \in {"done", "failed"}

\* A message on the broker is finished or given up: row locks, retries and
\* deadlocks between transactions never keep it open for ever
MessagesSettle == \A t \in Task : pc[t] = "queued" ~> Settled(t)

\* A failure whose message has reached the broker is not forgotten: whatever retries,
\* deaths, deadlocks and rollbacks lie between, it ends counted, or with a message
\* that ends as failed and says so. One that the handler did not get to the broker
\* (HandlerDies) is: nothing of it is left but the row that makes it a duplicate.
NoSilentLoss ==
    \A e \in Event :
        At(e, {"queued"}) > 0 ~> e \in usage \/ At(e, {"failed"}) > 0

=============================================================================
