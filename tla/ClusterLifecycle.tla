--------------------------- MODULE ClusterLifecycle ---------------------------
(***************************************************************************)
(* The failure_clusters rows of one log fingerprint, one row per severity: *)
(* the cost saver reads the row seen last, the pipeline upserts the row of *)
(* the severity it ends up with, and users acknowledge, resolve and reopen *)
(* rows. What AnalysisPipeline takes as one row per fingerprint is split   *)
(* here; of publishing only the write of the reference is left, for its    *)
(* lock, and notifying is left out.                                        *)
(*                                                                         *)
(* The routes of clusters.py flush and never commit: get_db closes the     *)
(* session, and PostgreSQL rolls back, so a request holds the row's lock   *)
(* while it answers and leaves nothing behind.                             *)
(***************************************************************************)
EXTENDS Naturals, FiniteSets

CONSTANTS
    Task,           \* pipeline transactions
    Event, EventOf, \* the failure a transaction analyses
    User,           \* requests of dashboard users
    Severity,
    TTL,            \* COST_SAVER_TTL_HOURS
    MaxTime,        \* bounds the clock
    None

Status == {"active", "acknowledged", "resolved"}
Rows   == [count : Nat, last : 0..MaxTime, analysis : Event, status : Status]

ASSUME ConstantsOK ==
    /\ EventOf \in [Task -> Event]
    /\ TTL \in Nat /\ MaxTime \in Nat
    /\ None \notin Event \cup Severity \cup Rows

VARIABLES
    now,
    \* committed tables
    cluster,        \* the row of each severity, or None
    severity,       \* severity of the event's analysis_results row, or None
    usage,          \* events with a usage_events row
    \* pipeline transactions
    pc, row, outcome, seenAt,
    wrote,          \* those that have written the analysis row they use, and lock it
    \* requests: the row loaded and the status answered
    target, answer

tables  == <<cluster, severity, usage>>
local   == <<row, outcome, seenAt, wrote>>
request == <<target, answer>>
vars    == <<now, tables, pc, local, request>>

Init ==
    /\ now = 0
    /\ cluster = [s \in Severity |-> None]
    /\ severity = [e \in Event |-> None]
    /\ usage = {}
    /\ pc = [t \in Task |-> "idle"]
    /\ row = [t \in Task |-> None]
    /\ outcome = [t \in Task |-> None]
    /\ seenAt = [t \in Task |-> 0]
    /\ wrote = {}
    /\ target = [u \in User |-> None]
    /\ answer = [u \in User |-> None]

Known == {s \in Severity : cluster[s] # None}

Tick ==
    /\ now < MaxTime
    /\ now' = now + 1
    /\ UNCHANGED <<tables, pc, local, request>>

-----------------------------------------------------------------------------
(* The pipeline *)

\* _load_cluster_by_lookup: the row seen last
Newest == {s \in Known : \A z \in Known : cluster[z].last <= cluster[s].last}

\* evaluate_cost_saver_decision reuses an analysis within the TTL of the last
\* sighting, unless the tenant has switched the cost saver off
Reusable(s) == s \in Newest /\ now - cluster[s].last <= TTL

\* Mutant: the severity is asked for again
Reuse_Graded(t) ==
    /\ pc[t] = "idle"
    /\ \E s, z \in Severity :
          /\ Reusable(s)
          /\ row' = [row EXCEPT ![t] = cluster[s].analysis]
          /\ outcome' = [outcome EXCEPT ![t] = z]
    /\ pc' = [pc EXCEPT ![t] = "resolved"]
    /\ UNCHANGED <<now, tables, seenAt, wrote, request>>

\* The reused row brings its own severity (output_from_analysis_row)
Reuse(t) ==
    /\ pc[t] = "idle"
    /\ \E s \in Severity :
          /\ Reusable(s)
          /\ row' = [row EXCEPT ![t] = cluster[s].analysis]
          /\ outcome' = [outcome EXCEPT ![t] = severity[cluster[s].analysis]]
    /\ pc' = [pc EXCEPT ![t] = "resolved"]
    /\ UNCHANGED <<now, tables, seenAt, wrote, request>>

\* The transaction holds the lock of the analysis row of e
Wrote(t, e) == t \in wrote /\ row[t] = e

\* The LLM answers with a severity, and persist_analysis upserts the row
Analyze(t, s) ==
    /\ pc[t] = "idle"
    /\ \A u \in Task \ {t} : ~Wrote(u, EventOf[t])
    /\ row' = [row EXCEPT ![t] = EventOf[t]]
    /\ outcome' = [outcome EXCEPT ![t] = s]
    /\ wrote' = wrote \cup {t}
    /\ pc' = [pc EXCEPT ![t] = "resolved"]
    /\ UNCHANGED <<now, tables, seenAt, request>>

\* seen_at = datetime.now(), before the statement that uses it
Stamp(t) ==
    /\ pc[t] = "resolved"
    /\ seenAt' = [seenAt EXCEPT ![t] = now]
    /\ pc' = [pc EXCEPT ![t] = "stamped"]
    /\ UNCHANGED <<now, tables, row, outcome, wrote, request>>

\* The transaction holds the lock of the row of severity s
Upserted(t, s) == pc[t] \in {"upserted", "published", "flushed"} /\ outcome[t] = s

\* Someone else holds the row of severity s
Locked(t, s) ==
    \/ \E u \in Task \ {t} : Upserted(u, s)
    \/ \E u \in User : target[u] = s /\ answer[u] # None

\* upsert_cluster executes and locks the row
Upsert(t) ==
    /\ pc[t] = "stamped"
    /\ ~Locked(t, outcome[t])
    /\ pc' = [pc EXCEPT ![t] = "upserted"]
    /\ UNCHANGED <<now, tables, local, request>>

\* Feedback was published, and its reference has to be stored on the analysis row
Publish(t) ==
    /\ pc[t] = "upserted"
    /\ pc' = [pc EXCEPT ![t] = "published"]
    /\ UNCHANGED <<now, tables, local, request>>

\* The flush of feedback_ref locks the analysis row, after the row of the cluster
Flush(t) ==
    /\ pc[t] = "published"
    /\ \A u \in Task \ {t} : ~Wrote(u, row[t])
    /\ wrote' = wrote \cup {t}
    /\ pc' = [pc EXCEPT ![t] = "flushed"]
    /\ UNCHANGED <<now, tables, row, outcome, seenAt, request>>

\* Mutant: a repeated sighting is not counted
Merged_NoCount(old, t) ==
    [count |-> IF old = None THEN 1 ELSE old.count, last |-> seenAt[t], analysis |-> row[t],
     status |-> IF old = None \/ old.status = "resolved" THEN "active" ELSE old.status]

\* Mutant: the inserted row gets no status
Merged_NoStatus(old, t) ==
    [count |-> IF old = None THEN 1 ELSE old.count + 1, last |-> seenAt[t],
     analysis |-> row[t], status |-> IF old = None THEN None ELSE old.status]

\* The row the upsert makes of the old one: a regression makes it active again
Merged(old, t) ==
    [count |-> IF old = None THEN 1 ELSE old.count + 1, last |-> seenAt[t],
     analysis |-> row[t],
     status |-> IF old = None \/ old.status = "resolved" THEN "active" ELSE old.status]

\* record_run inserts the usage row of the event
Counts(t) == EventOf[t] \notin usage

\* A transaction ends and lets go of its locks
End(t) ==
    /\ pc' = [pc EXCEPT ![t] = "done"]
    /\ wrote' = wrote \ {t}
    /\ UNCHANGED <<now, row, outcome, seenAt, request>>

\* record_run and the commit; there was nothing to publish, or the reference is stored
Commit(t) ==
    /\ pc[t] \in {"upserted", "flushed"}
    /\ Counts(t)
    /\ usage' = usage \cup {EventOf[t]}
    /\ severity' = IF row[t] = EventOf[t]
                   THEN [severity EXCEPT ![row[t]] = outcome[t]] ELSE severity
    /\ cluster' = [cluster EXCEPT ![outcome[t]] = Merged(@, t)]
    /\ End(t)

\* The usage row exists: everything is rolled back
Conflict(t) ==
    /\ pc[t] \in {"upserted", "flushed"}
    /\ ~Counts(t)
    /\ End(t)
    /\ UNCHANGED tables

\* Any other exception. A retry is another transaction of the same event.
Fault(t) ==
    /\ pc[t] \in {"resolved", "stamped", "upserted", "published", "flushed"}
    /\ End(t)
    /\ UNCHANGED tables

\* A fresh analysis has its row and waits for the cluster's, a reuse has the
\* cluster's and waits for the analysis row
Waits(t, u) ==
    /\ t # u
    /\ \/ pc[t] = "stamped" /\ Upserted(u, outcome[t])
       \/ pc[t] = "published" /\ Wrote(u, row[t])

\* Those that wait in a circle
Circle(S) ==
    \A t \in S : (\E u \in S : Waits(t, u)) /\ (\E u \in S : Waits(u, t))

\* PostgreSQL ends the wait by failing one of them
Victim(t) ==
    /\ \E S \in SUBSET Task : t \in S /\ Circle(S)
    /\ End(t)
    /\ UNCHANGED tables

-----------------------------------------------------------------------------
(* Users *)

\* _load_cluster of acknowledge, resolve and reopen
Load(u, s) ==
    /\ target[u] = None
    /\ s \in Known
    /\ target' = [target EXCEPT ![u] = s]
    /\ UNCHANGED <<now, tables, pc, local, answer>>

\* The status is set and flushed, which waits for and takes the row's lock, and
\* the new status is answered
Answer(u, st) ==
    /\ target[u] # None /\ answer[u] = None
    /\ cluster[target[u]].status # st
    /\ \A t \in Task : ~Upserted(t, target[u])
    /\ \A v \in User \ {u} : ~(target[v] = target[u] /\ answer[v] # None)
    /\ answer' = [answer EXCEPT ![u] = st]
    /\ UNCHANGED <<now, tables, pc, local, target>>

\* Mutant: a session that has flushed is never closed
Close_Leaks(u) ==
    /\ target[u] # None /\ answer[u] = None
    /\ target' = [target EXCEPT ![u] = None]
    /\ UNCHANGED <<now, tables, pc, local, answer>>

\* get_db closes the session: no commit
Close(u) ==
    /\ target[u] # None
    /\ target' = [target EXCEPT ![u] = None]
    /\ answer' = [answer EXCEPT ![u] = None]
    /\ UNCHANGED <<now, tables, pc, local>>

-----------------------------------------------------------------------------

Work(t) ==
    \/ Reuse(t) \/ (\E s \in Severity : Analyze(t, s)) \/ Stamp(t) \/ Upsert(t)
    \/ Publish(t) \/ Flush(t) \/ Commit(t) \/ Conflict(t) \/ Victim(t)

Next ==
    \/ Tick
    \/ \E t \in Task : Work(t) \/ Fault(t)
    \/ \E u \in User : \/ \E s \in Severity : Load(u, s)
                       \/ \E st \in Status : Answer(u, st)
                       \/ Close(u)

\* Messages are worked on, requests end, and PostgreSQL grants a row lock in the
\* order of the waiters, so no stream of requests keeps an upsert out
Fairness ==
    /\ \A t \in Task : WF_vars(Work(t)) /\ SF_vars(Upsert(t))
    /\ \A u \in User : WF_vars(Close(u))

Spec == Init /\ [][Next]_vars /\ Fairness

-----------------------------------------------------------------------------
(* Properties *)

\* Every variable has its type
TypeOK ==
    /\ now \in 0..MaxTime /\ usage \in SUBSET Event
    /\ cluster \in [Severity -> Rows \cup {None}]
    /\ severity \in [Event -> Severity \cup {None}]
    /\ pc \in [Task -> {"idle", "resolved", "stamped", "upserted", "published", "flushed",
                       "done"}]
    /\ wrote \in SUBSET Task
    /\ row \in [Task -> Event \cup {None}]
    /\ outcome \in [Task -> Severity \cup {None}]
    /\ seenAt \in [Task -> 0..MaxTime]
    /\ target \in [User -> Severity \cup {None}]
    /\ answer \in [User -> Status \cup {None}]

\* What the counters of a fingerprint stand for: the first, second, .. sighting of
\* each row
Sightings == UNION {{s} \X (1..cluster[s].count) : s \in Known}

\* The counters of a fingerprint add up to the runs that were counted: no
\* concurrent sighting is lost and no rolled back one stays
SightingsCounted == Cardinality(usage) = Cardinality(Sightings)

\* The transactions on several rows are seen as single steps: each counts its
\* failure once and leaves a row that points to an analysis of its severity, so
\* that a reuse updates the row it was found by, even when a second message of the
\* same failure gets another severity from the LLM
Ledger == INSTANCE AnalysisLedger
    WITH Key <- Severity,
         key <- severity,
         pointer <- [s \in Severity |-> IF s \in Known THEN cluster[s].analysis ELSE None],
         counted <- usage

LedgerRefined == Ledger!Spec

\* "Mark a cluster as acknowledged", "Mark a cluster as resolved" (clusters.py):
\* the status a request has answered with is the row's status when it ends
AnswerSticks ==
    [][\A u \in User : answer[u] # None /\ answer'[u] = None =>
          cluster'[target[u]].status = answer[u]]_vars

\* Every message's transaction ends: requests and messages that lock its rows let go
\* of them, and where a fresh analysis and a reuse of the same row wait for each other,
\* having locked the analysis and the cluster in opposite orders, one of them is failed
\* and the other goes on
AnalysesEnd == \A t \in Task : <>(pc[t] = "done")
=============================================================================
