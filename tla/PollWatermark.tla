---------------------------- MODULE PollWatermark ----------------------------
(***************************************************************************)
(* Polling one repository for failed runs (_poll_all and the list calls of *)
(* the four CI clients). A connection is primed with the newest run; each  *)
(* later cycle lists one page of failed runs beyond the watermark, newest  *)
(* first, ingests each and moves the watermark to the newest one, all in   *)
(* the database transaction of the cycle. Beat starts cycles by the clock  *)
(* and nothing keeps two of them from overlapping. Runs finish in any      *)
(* order, and a page has an end.                                           *)
(*                                                                         *)
(* A run is an id: a GitLab job, a GitHub workflow run, a GitFlic pipeline *)
(* number, or the creation order of a Bitbucket pipeline, whose uuid is    *)
(* the watermark. Several GitLab jobs belong to one pipeline, which is     *)
(* what ingestion_events knows them by.                                    *)
(***************************************************************************)
EXTENDS Naturals, FiniteSets

CONSTANTS
    Providers,      \* the CI providers a connection may be of
    Last,           \* runs of the repository (bounds the model)
    Run,            \* ci_run_id values
    RunsOf,         \* for each provider, the ci_run_id of its runs
    PageSize,       \* for each provider, POLL_BATCH_SIZE or what its client caps it to
    Cycle,          \* poll cycles that may overlap
    None,           \* SQL NULL
    MaxRollbacks, MaxFaults, MaxExpiries  \* bounds on what may go wrong

ASSUME ConstantsOK ==
    /\ Providers \subseteq {"gitlab", "github", "gitflic", "bitbucket"}
    /\ Last \in Nat /\ PageSize \in [Providers -> Nat \ {0}]
    /\ RunsOf \in [Providers -> [1..Last -> Run]]
    /\ None \notin Nat
    /\ MaxRollbacks \in Nat /\ MaxFaults \in Nat /\ MaxExpiries \in Nat

VARIABLES
    provider,       \* of the connection: it never changes
    state,          \* the runs at the provider
    \* committed: the connection's watermark and the ingestion_events rows
    mark, ingested,
    \* the poll cycles
    at, base,       \* base: the watermark the cycle has read
    todo,           \* listed events it has not handled
    newest,         \* max_job_seen, max_run
    open,           \* rows it has inserted and not yet committed
    \* what was put on the broker
    taken,
    \* history
    primed, old,    \* runs that had failed when the connection was first primed
    skipped,        \* failed runs no listing showed: older than a priming, failed
                    \* after a newer run was listed, or beyond the end of a page
    expired,        \* rows that retention deleted
    \* bounds
    rollbacks, faults, expiries

local   == <<at, base, todo, newest, open>>
history == <<primed, old, skipped, expired>>
bounds  == <<rollbacks, faults, expiries>>
vars    == <<provider, state, mark, ingested, local, taken, history, bounds>>

Id == 1..Last
RunOf == RunsOf[provider]
Existing == {j \in Id : state[j] # "absent"}
Failed   == {j \in Id : state[j] = "failed"}

Init ==
    /\ provider \in Providers
    /\ state = [j \in Id |-> "absent"]
    /\ mark = None /\ ingested = {}
    /\ at = [c \in Cycle |-> "idle"]
    /\ base = [c \in Cycle |-> None]
    /\ todo = [c \in Cycle |-> {}]
    /\ newest = [c \in Cycle |-> None]
    /\ open = [c \in Cycle |-> {}]
    /\ taken = [r \in Run |-> 0]
    /\ primed = FALSE
    /\ old = {} /\ skipped = {} /\ expired = {}
    /\ rollbacks = 0 /\ faults = 0 /\ expiries = 0

-----------------------------------------------------------------------------
(* The CI provider *)

\* Runs are created in the order of their ids
Create ==
    /\ \E j \in Id \ Existing :
          /\ \A k \in Id : k < j => k \in Existing
          /\ state' = [state EXCEPT ![j] = "running"]
    /\ UNCHANGED <<mark, ingested, local, taken, history, bounds>>

\* No listing from watermark m shows j. Ids are compared; a uuid hides what is older
\* than its run only where the list meets it, and the list has failed runs only.
Hides(m, j) == m # None /\ j <= m /\ (provider = "bitbucket" => m \in Failed)

\* The watermarks that are committed, that a cycle is about to list from, or that it
\* is about to commit
Marks ==
    {mark} \cup {base[c] : c \in {d \in Cycle : at[d] = "loaded"}}
           \cup {newest[c] : c \in {d \in Cycle : newest[d] # base[d]}}

\* A watermark or a listing has already passed the run
Passed(j) ==
    \/ \E m \in Marks : Hides(m, j)
    \/ \E c \in Cycle : \E k \in todo[c] : j < k

\* The failed runs that no listing shows any more once j has failed: j itself if it
\* has been passed, and when its uuid was the watermark of a priming, and is met from
\* now on, those before it as well
Hidden(j) ==
    {k \in Failed \cup {j} : \/ k = j /\ Passed(j)
                             \/ provider = "bitbucket" /\ j \in Marks /\ k <= j}

\* .. and finish in any order
Settle(j) ==
    /\ state[j] = "running"
    /\ \/ /\ state' = [state EXCEPT ![j] = "passed"]
          /\ UNCHANGED skipped
       \/ /\ state' = [state EXCEPT ![j] = "failed"]
          /\ skipped' = skipped \cup Hidden(j)
    /\ UNCHANGED <<mark, ingested, local, taken, primed, old, expired, bounds>>

-----------------------------------------------------------------------------
(* The clients *)

\* The n newest of a set of runs
Newest(S, n) == {j \in S : Cardinality({k \in S : k > j}) < n}

\* GitLab and GitHub list failed runs only; GitFlic and Bitbucket list all runs
\* and the client drops those that have not failed
Page ==
    IF provider \in {"gitlab", "github"} THEN Newest(Failed, PageSize[provider])
    ELSE Newest(Existing, PageSize[provider]) \cap Failed

\* Mutant: the comparison skips one id
After_SkipsOne(since, j) == j > since + 1 \/ (provider = "bitbucket" /\ since \notin Page)

\* Ids are compared with the watermark. A uuid only stops the list where it is
\* met, and it is not met when its pipeline did not fail or left the page.
After(since, j) == j > since \/ (provider = "bitbucket" /\ since \notin Page)

Beyond(since) == {j \in Page : After(since, j)}

\* Mutants: an empty watermark, the id after the newest
Snapshot_Empty == {0}
Snapshot_Next == {Cardinality(Existing) + 1}

\* The watermark of a priming. get_latest_job_id and its likes take the newest
\* run of any status, "0" when there is none; GitFlic lists a page of one and
\* takes the failed runs on it.
Snapshot ==
    LET seen == IF provider = "gitflic" THEN Newest(Existing, 1) \cap Failed
                ELSE Newest(Existing, 1)
    IN  IF seen = {} THEN {0} ELSE seen

-----------------------------------------------------------------------------
(* A poll cycle *)

\* Beat starts a cycle, which loads the connection
Start(c) ==
    /\ at[c] = "idle"
    /\ at' = [at EXCEPT ![c] = "loaded"]
    /\ base' = [base EXCEPT ![c] = mark]
    /\ newest' = [newest EXCEPT ![c] = mark]
    /\ UNCHANGED <<state, mark, ingested, todo, open, taken, history, bounds>>

\* A connection without a watermark is primed with n: no events
PrimeWith(c, n) ==
    /\ at[c] = "loaded" /\ base[c] = None
    /\ at' = [at EXCEPT ![c] = "ready"]
    /\ newest' = [newest EXCEPT ![c] = n]
    /\ primed' = TRUE
    /\ old' = IF primed THEN old ELSE Failed
    /\ skipped' = skipped \cup {j \in Failed : Hides(n, j)}
    /\ UNCHANGED <<state, mark, ingested, base, todo, open, taken, expired>>

Prime(c) == (\E n \in Snapshot : PrimeWith(c, n)) /\ UNCHANGED bounds

\* GitFlic's client answers a list call that the provider refuses with an empty list,
\* and the connection is primed as if it had no failed run
PrimeRefused(c) ==
    /\ provider = "gitflic"
    /\ faults < MaxFaults
    /\ faults' = faults + 1
    /\ PrimeWith(c, 0)
    /\ UNCHANGED <<rollbacks, expiries>>

\* One page is listed. The failed runs beyond its end are out of reach for good: the
\* watermark moves to the newest run of the page.
List(c) ==
    /\ at[c] = "loaded" /\ base[c] # None
    /\ todo' = [todo EXCEPT ![c] = Beyond(base[c])]
    /\ at' = [at EXCEPT ![c] = IF Beyond(base[c]) = {} THEN "ready" ELSE "working"]
    /\ skipped' = skipped \cup {j \in Failed \ Page : After(base[c], j)}
    /\ UNCHANGED <<state, mark, ingested, base, newest, open, taken, primed, old,
                   expired, bounds>>

\* The provider does not answer, or no token is valid: the connection's turn ends
ListFails(c) ==
    /\ at[c] = "loaded"
    /\ faults < MaxFaults
    /\ faults' = faults + 1
    /\ at' = [at EXCEPT ![c] = "ready"]
    /\ UNCHANGED <<state, mark, ingested, base, todo, newest, open, taken, history,
                   rollbacks, expiries>>

\* Mutant: the conflict is not looked for
NewRun_NoDedup(c, r) == r \notin open[c]

\* persist_ingestion_event creates a row
NewRun(c, r) == r \notin ingested /\ r \notin open[c]

\* The insert does not wait for the row of another open transaction
Free(c, r) == \A d \in Cycle \ {c} : r \notin open[d]

\* The newest event is handled first
Turn(c, j) == at[c] = "working" /\ j \in todo[c] /\ \A k \in todo[c] : k <= j

\* max_job_seen and max_run: the larger of the watermark and the event's id
Larger(c, j) == IF newest[c] < j THEN j ELSE newest[c]

\* Bitbucket: events[0], the first to be handled, whatever the watermark was
FirstEvent(c, j) == IF newest[c] = base[c] THEN j ELSE newest[c]

\* The watermark when j has been handled; it is the connection's after the last event
Moved(c, j) == IF provider = "bitbucket" THEN FirstEvent(c, j) ELSE Larger(c, j)

\* persist, analyze_failure.delay for a new row, then the watermark
Handle(c, j) ==
    /\ Turn(c, j)
    /\ Free(c, RunOf[j])
    /\ \/ /\ NewRun(c, RunOf[j])
          /\ open' = [open EXCEPT ![c] = @ \cup {RunOf[j]}]
          /\ taken' = [taken EXCEPT ![RunOf[j]] = @ + 1]
       \/ ~NewRun(c, RunOf[j]) /\ UNCHANGED <<open, taken>>
    /\ newest' = [newest EXCEPT ![c] = Moved(c, j)]
    /\ todo' = [todo EXCEPT ![c] = @ \ {j}]
    /\ at' = [at EXCEPT ![c] = IF todo[c] = {j} THEN "ready" ELSE "working"]
    /\ UNCHANGED <<state, mark, ingested, base, history, bounds>>

\* Mutant: the watermark is moved when the page is listed
KeptMark_Listed(c) == CHOOSE j \in todo[c] : \A k \in todo[c] : k <= j

\* The watermark of a connection whose turn an exception ended: as it was read
KeptMark(c) == base[c]

\* delay raises: the row stays in the transaction, the exception is caught, and
\* the remaining events wait for the next cycle
Refused(c, j) ==
    /\ Turn(c, j)
    /\ faults < MaxFaults
    /\ faults' = faults + 1
    /\ Free(c, RunOf[j]) /\ NewRun(c, RunOf[j])
    /\ open' = [open EXCEPT ![c] = @ \cup {RunOf[j]}]
    /\ todo' = [todo EXCEPT ![c] = {}]
    /\ newest' = [newest EXCEPT ![c] = KeptMark(c)]
    /\ at' = [at EXCEPT ![c] = "ready"]
    /\ UNCHANGED <<state, mark, ingested, base, taken, history, rollbacks, expiries>>

Rest(c) ==
    /\ at' = [at EXCEPT ![c] = "idle"]
    /\ base' = [base EXCEPT ![c] = None]
    /\ todo' = [todo EXCEPT ![c] = {}]
    /\ newest' = [newest EXCEPT ![c] = None]
    /\ open' = [open EXCEPT ![c] = {}]

\* The cycle's transaction commits. The row of the connection is updated when
\* the watermark differs from the one read, whatever it is by now.
Commit(c) ==
    /\ at[c] = "ready"
    /\ ingested' = ingested \cup open[c]
    /\ mark' = IF newest[c] # base[c] THEN newest[c] ELSE mark
    /\ Rest(c)
    /\ UNCHANGED <<state, taken, history, bounds>>

\* The transaction fails, or the worker dies; sent messages stay sent
Rollback(c) ==
    /\ at[c] # "idle"
    /\ rollbacks < MaxRollbacks
    /\ rollbacks' = rollbacks + 1
    /\ Rest(c)
    /\ UNCHANGED <<state, mark, ingested, taken, history, faults, expiries>>

-----------------------------------------------------------------------------
(* Other users of ingestion_events *)

\* A webhook (hybrid mode) or a manual /analyze call ingests the run
OtherIntake(j) ==
    /\ j \in Failed
    /\ RunOf[j] \notin ingested
    /\ \A c \in Cycle : RunOf[j] \notin open[c]
    /\ ingested' = ingested \cup {RunOf[j]}
    /\ taken' = [taken EXCEPT ![RunOf[j]] = @ + 1]
    /\ UNCHANGED <<state, mark, local, history, bounds>>

Retention(R) ==
    /\ expiries < MaxExpiries
    /\ expiries' = expiries + 1
    /\ ingested' = ingested \ R
    /\ expired' = expired \cup R
    /\ UNCHANGED <<state, mark, local, taken, primed, old, skipped, rollbacks, faults>>

-----------------------------------------------------------------------------

Step(c) ==
    Start(c) \/ Prime(c) \/ List(c) \/ (\E j \in Id : Handle(c, j)) \/ Commit(c)

Next ==
    /\ UNCHANGED provider
    /\ \/ Create
       \/ \E j \in Id : Settle(j) \/ OtherIntake(j)
       \/ \E c \in Cycle : Step(c) \/ PrimeRefused(c) \/ ListFails(c) \/ Rollback(c)
       \/ \E c \in Cycle, j \in Id : Refused(c, j)
       \/ \E R \in SUBSET ingested \ {{}} : Retention(R)

\* Beat keeps starting cycles, and a cycle that can go on does
Fairness == \A c \in Cycle : WF_vars(Step(c) /\ UNCHANGED provider)

Spec == Init /\ [][Next]_vars /\ Fairness

-----------------------------------------------------------------------------
(* Properties *)

\* Every variable has its type
TypeOK ==
    /\ provider \in Providers
    /\ state \in [Id -> {"absent", "running", "passed", "failed"}]
    /\ mark \in {None} \cup 0..Last /\ ingested \in SUBSET Run
    /\ at \in [Cycle -> {"idle", "loaded", "working", "ready"}]
    /\ base \in [Cycle -> {None} \cup 0..Last]
    /\ todo \in [Cycle -> SUBSET Id]
    /\ newest \in [Cycle -> {None} \cup 0..Last]
    /\ open \in [Cycle -> SUBSET Run]
    /\ taken \in [Run -> Nat] /\ primed \in BOOLEAN
    /\ old \in SUBSET Id /\ skipped \in SUBSET Id
    /\ expired \in SUBSET Run
    /\ rollbacks \in 0..MaxRollbacks /\ faults \in 0..MaxFaults
    /\ expiries \in 0..MaxExpiries

\* A failed run is accounted for: its row was committed, or no listing showed it
Accounted(j) == RunOf[j] \in ingested \cup expired \/ j \in skipped

\* The watermark never runs ahead of the rows: what no listing from it shows is
\* stored, even when a broker refuses in the middle of a page, a cycle rolls back, two
\* cycles commit in the wrong order or the first event of a page puts it back
WatermarkBacked == \A j \in Failed : Hides(mark, j) => Accounted(j)

\* "Snapshot the current latest job id without emitting any events"
\* (_prime_connection) and "so we don't replay history" (_prime_bitbucket_
\* connection): a failure from before the priming is never listed
NoReplay == \A c \in Cycle : todo[c] \cap old = {}

\* Where the watermark is an id of a run of any status, that is so
NoReplayById == provider \in {"gitlab", "github"} => NoReplay

\* A failure does not stay unseen: some cycle stores it unless it was skipped:
\* older than a priming, late behind a newer run, or crowded out of a page
FailuresSeen == \A j \in Id : j \in Failed ~> Accounted(j)

\* Cycles, webhooks and retention together keep what the intake promises
Intake == INSTANCE FailureIntake
    WITH claimed <- ingested \cup UNION {open[c] : c \in Cycle},
         forgotten <- rollbacks + expiries

IntakeRefined == Intake!Spec
=============================================================================
