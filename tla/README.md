# A TLA+ model of exlogare

exlogare watches the CI systems of a tenant, takes up failed runs, asks an LLM
for the cause and publishes the answer: a comment on the merge request, chat
messages, outbound webhooks. These modules model the server side, model-check
it with TLC on small instances and prove its main safety properties with TLAPS
for every instance. All paths are those of the repository (`src/...`).

## 1. The system

```
 CI providers --webhook--> API (FastAPI) --+
      ^   ^                                |   ingestion_events (PostgreSQL)
      |   +---poll--- beat -> poll cycle --+-> analyze_failure message (Redis)
      |                                    |        |
 external CI --/api/ingest/*-> API --------|--+     v
                                              +-> analysis pipeline (one transaction)
      ^                                           | LLM, clusters, usage
      +-------------- comment --------------------+-> chat, deliver_webhook message
```

| Component | State it keeps | Operations | Talks to |
|---|---|---|---|
| Intake (`services/pipeline.py` 43-70) | `ingestion_events`, unique on tenant, provider, run | `persist_ingestion_event` | called by webhooks, `/analyze`, poller; followed by `analyze_failure.delay` |
| Analysis pipeline (`services/pipeline.py`, `workers/tasks.py`, `_async.py`) | `analysis_results`, `usage_events`, the open transaction, the Celery message | resolve, persist, publish, notify, count; commit, rollback, retry | LLM, CI clients, notifications, clusters |
| Clusters and cost saver (`services/clustering.py`, `routes/clusters.py`) | `failure_clusters`, one row per fingerprint and severity | look up, decide on reuse, upsert; acknowledge, resolve, reopen | pipeline, users |
| Poller (`workers/polling.py`, `services/ci/*_client.py`) | the watermark of each connection | prime, list, ingest, commit | CI providers, intake, broker |
| CI webhooks (`routes/webhook.py`, `services/ingestion`) | `pipeline_events`, connection status | verify, record, ingest | intake, broker |
| External ingest (`routes/ingest_*.py`) | none of its own | run the pipeline in the request | pipeline |
| Outbound webhooks (`services/notifications/outbound_webhook.py`, its routes) | subscription row, delivery messages | fan out, deliver, count failures, disable; PATCH, rotate, delete | receivers, broker |
| Notifications (`services/notifications`) | channel rows | dispatch | chat services |
| Retention (`workers/retention.py`) | none | daily DELETE | analyses, ingestion rows |
| OAuth (`services/oauth`, the OAuth routes of `integrations_*.py`) | placeholder rows, tokens of connections, states in Redis | authorize, call back, refresh, propagate | CI providers; the poller and requests refresh |
| Connections (`routes/integrations_{gitlab,github,bitbucket,gitflic}.py`) | `ci_connections`, hooks at the provider | watch a project, register hooks, change the mode, disable, purge | OAuth, CI clients, CI webhooks |
| Messengers (`routes/integrations_messengers.py`) | `notification_connections`, link codes in Redis | add Slack, Matrix or a bot, link a chat, set the bot's webhook again, delete | Telegram, notifications |
| Accounts (`core/deps.py`, `routes/auth*.py`, `tenants.py`, `tokens.py`, `core/init_db.py`) | users, memberships, API tokens | log in, invite, remove, bootstrap | - |
| Rate limits (`core/rate_limit.py`) | Redis counters | check | routes |
| Log processing (`services/processing`) | none, pure | clean, deduplicate, trim | pipeline |

What makes each correct, and what is hard about it:

- **Intake**: a failing run is taken up once whoever sees it first. Hard: the
  poller sends its message *before* its commit, the handlers *after* theirs.
- **Pipeline**: a stored analysis is counted, a stored comment reference is
  real, side effects stay within the number of attempts, every message ends.
  Hard: comments and chat messages cannot be rolled back with the transaction;
  duplicates, retries, redelivery, deadlocks and retention come in between.
- **Clusters**: no sighting is lost or double; a reused analysis belongs to its
  cluster. Hard: the lookup ignores the severity that the upsert uses.
- **Poller**: the watermark never passes a failure that has no row, and history
  is not replayed. Hard: overlapping cycles, pages with an end, uuid watermarks.
- **Outbound webhooks**: switched off stays off, a failure counts once. Hard:
  the row is read before the POST and written after it without a lock.
- **OAuth**: a group keeps a usable refresh token. Hard: one-time tokens, several
  refreshers, lost answers.
- **Connections**: an active connection has a hook that signs with its secret, and
  the provider has no hook that no row knows. Hard: calls to the provider before
  the commit, rows that are read without a lock, five providers that each do it
  in another way.
- **Messengers**: a chat that was told it is linked stays linked. Hard: a JSON
  column is written whole after a slow call.
- **Accounts**: a tenant keeps an admin, the first admin exists once, who was
  removed stays out. Hard: checks and writes of concurrent requests.

`PROJECT.json` lists each of these hazards at its line with the properties that
answer it, or why none does.

## 2. Modules

| Module | Models |
|---|---|
| `FailureIntake` | Abstract specification of the intake: runs are claimed, taken up with a message, forgotten. |
| `AnalysisLedger` | Abstract specification of the analysis tables: a failure is counted once, in one step with its analysis and its cluster's pointer. |
| `AnalysisPipeline` | The life of a failure from any way of intake to the committed analysis. |
| `AnalysisPipelineProofs` | Its invariants, its accounting of comments and alerts, its deadlocks, and that it implements `FailureIntake` and `AnalysisLedger`. |
| `PollWatermark` | Poll cycles on one connection of one of the four providers. |
| `PollWatermarkProofs` | Polling implements `FailureIntake`; the watermark is backed by rows. |
| `ClusterLifecycle` | The cluster rows of one log fingerprint, split by severity, with the users' routes. |
| `OutboundWebhook` | One subscription, its deliveries and its admins. |
| `OutboundWebhookProofs` | Its types, that off stays off, that no failure counts twice, that a delivery switches off only for enough failures. |
| `ClusterLifecycleProofs` | A reused analysis has its cluster's severity; counts are the sightings; the rows implement `AnalysisLedger`. |
| `CIConnection` | The rows of one project at one of five providers and the hooks registered there. |
| `CIConnectionProofs` | Its types; off stays off; GitLab gets one hook; hooks and secrets agree; active rows have hooks, and GitLab's hooks rows. |
| `OAuthFlow` | Authorization flows of one provider: placeholder rows, states, callbacks, tokens. |
| `TokenGroup` | The tokens of a GitLab credential group and those who refresh it. |
| `OAuthProofs` | Of `OAuthFlow`: what a browser is told, and whose tokens a row holds. Of `TokenGroup`: the group keeps a usable token, agrees, and is marked only when it is exhausted. |
| `Accounts` | The people of a tenant: bootstrap, logins, invitations, removals. |
| `Messengers` | Channels, Telegram bots and their link codes. |
| `TenantProofs` | Of `Accounts`: who is removed stays out, one bootstrap, an admin stays. Of `Messengers`: a linked bot keeps its target. Of `Integrations`: its components keep all that is proved of them. |
| `Integrations` | `OAuthFlow`, `TokenGroup`, `Accounts` and `Messengers` side by side. They share no state, and a behaviour runs one of them, chosen by its initial state. |
| `MC*` | Small instances: which job belongs to which run, symmetry. |

How they compose: `AnalysisPipeline` and `PollWatermark` each contain
`Intake == INSTANCE FailureIntake WITH ...`, and `IntakeRefined` states that
every behaviour is one of `FailureIntake`. `AnalysisPipeline` and `ClusterLifecycle`
each contain `Ledger == INSTANCE AnalysisLedger WITH ...`: a cluster is a log
fingerprint in the one and a severity in the other, the pointer is
`last_analysis_id`, and `LedgerRefined` states that retries, rollbacks, duplicates
and deadlocks leave in the tables what single atomic steps would. It contains three
invariants that the proof modules state by themselves: an analysis that is stored was
counted (`AnalysesCounted`), and what a cluster points to is stored and of the
cluster's kind (`ClusterSound`, `SeverityAgrees`), because an analysis enters its
cluster with the count, once, and leaves both with `Delete`. `AnalysisPipeline` keeps one poll
cycle action per event and leaves watermarks to `PollWatermark`, which in turn
keeps only the number of messages sent per run. `ClusterLifecycle` refines what
`AnalysisPipeline` takes as one row per fingerprint. `CIConnection` gives the life
of the row whose watermark `PollWatermark` follows, and `TokenGroup` the refresh
that a GitLab poll cycle begins with. They are not composed: each writes columns of
its own, but for the status, which an exhausted group also sets to ERROR
(`TokenGroup`'s `error`, left out of `CIConnection`). At GitLab
`OAuthFlow.CommitCallback` is `TokenGroup.Reconnect`.

### AnalysisPipeline

A *message* (constant `Task`) is a Celery message or an ingest request with its
transaction. Its stage `pc` follows the code:

| Stage or action | Code |
|---|---|
| `AcceptWebhook`, `EnqueueAccepted`, `HandlerDies` | `gitflic_webhook`, `/analyze`: persist, commit, then `delay`; the handler may die in between |
| `PollEvent`, `PollCommit`, `PollRollback` | `_poll_all`: persist and `delay` for each event, one commit for the cycle |
| `IngestRequest` | the synchronous ingest routes; a refused duplicate fails at its own insert |
| `Begin` | excerpt, lookup, reuse decision; the LLM answers, or raises |
| `Persist` | `persist_analysis`: `INSERT .. ON CONFLICT DO UPDATE`, locks the row |
| `UpsertCluster` | `upsert_cluster`, locks the cluster row; fails on a missing analysis |
| `Publish`, `Flush` | the feedback POST, then writing `feedback_ref` |
| `Notify` | `ChannelRouter.dispatch` and the webhook fan-out: like a comment, a chat message is sent up to `PostTries` times when answers are lost, so both leave a number of copies in `Sent` |
| `Finish` | `record_run` and commit |
| `UsageConflict`, `StaleReuse`, `DeadlockVictim`, `Error` | exceptions: roll back, retry or give up |
| `WorkerDies` | the message is delivered again (`acks_late`), also after its commit |
| `EnforceRetention` | the daily DELETE, of any rows no transaction has locked |

PostgreSQL is modelled by what READ COMMITTED gives: writes become visible at
commit, a statement that meets a row another open transaction wrote waits, and
a cycle of waiting is broken by ending one transaction. `Blocked` is who waits for
whom, a pair of an ingest request with another's run included.

### PollWatermark

A run is an id in creation order. `Snapshot`, `Page` and `Beyond` are the
clients' calls, and `provider`, chosen by `Init` among `Providers` and never changed,
selects one; `Start`, `Prime`, `List`,
`Handle`, `Refused`, `Commit` and `Rollback` are a cycle. `Moved` is how a provider's
branch moves the watermark: GitLab, GitHub and GitFlic keep the larger of watermark and
event (`Larger`); Bitbucket takes its first event whatever the watermark was
(`FirstEvent`), which may move the mark back when a priming took the uuid of a run that
did not fail. `PrimeRefused` is GitFlic's client, which answers a refused list with an
empty one, so that the connection is primed with 0. `Hides(m, j)` says that no listing
from `m` shows `j`: ids are compared, a uuid hides only where the list can meet it.
`old`, `skipped` and `expired` are history variables: which failures were there before
the priming, which ones no listing could show, and which rows retention deleted.
`PageSize` is a constant per provider, because a page is of failed runs at GitLab and
GitHub and of all runs at the other two.

### ClusterLifecycle

A pipeline transaction decides (`Reuse` or `Analyze`), stamps `seen_at`,
upserts and commits; a request loads a row, sets and flushes the status, and is
closed by `get_db` without a commit. `wrote` holds the transactions that have locked
their analysis row: a fresh analysis before the cluster's row, a reuse only when it
flushes `feedback_ref` (`Publish`, `Flush`), after it. The opposite orders make circles
of waiting transactions, and `Victim` is PostgreSQL, which fails one of a circle. What is
published, and notifying, are left out.

### OutboundWebhook

A delivery reads the row (`Read`), posts (`Post`) and writes (`Commit`); a PATCH
reads and commits. `Written` is SQLAlchemy's UPDATE: the columns whose value
differs from the one read, and nothing when the row is gone. A worker may die before
its commit or after it, and the message is delivered again. Two history variables:
`streak`, the failures committed since the last success or switching on, and
`failures`, the attempts that ended counted as failed, written or not.

### CIConnection

A request (constant `Req`) passes `Read` (the row is loaded), `Flush` (a watch or
an init writes it, and holds its lock), `Call` (the provider is asked) and `Commit`.
The operators that end in `Watch`, `Init`, `Patch`, `Enable`, `ChangeMode` and
`Revoke` are the routes of each provider: sets of what the code may leave in a work
record, one element per answer of the provider. `Posted` and `Deleted` are
the provider: done, refused, or done and the answer lost, after which tenacity
repeats the POST. GitLab is first asked for its hooks, which may fail as well
(`Unlisted`). `Written` is the UPDATE of changed columns, `Refused` an UPDATE of
a deleted row or a second row with the key. `GitLabDelivers` and `GitFlicDelivers`
are webhooks that arrive; `AddByHand` is the admin who follows `init`'s
instructions. Numbers of hooks and secrets that nothing remembers are used again,
which keeps the state space finite without hiding a mix-up of two in use.

### OAuthFlow

A flow is one redirect to the provider. `OAuthInit`, `Save` and `StoreState` are
`oauth/init`: the placeholder is committed before the state is stored. A callback
passes the stages of its provider's `Route`: `GetState` and `DeleteState` are two
calls to Redis, GitLab asks for the tokens before it loads the row and the others
after. `Exchange` is the token endpoint, which takes a code once and may lose an
answer. At GitFlic a POST and a browser share the outcome through `StoreOutcome`,
`Peek` and `Take`, the GET and the DELETE of its key: a browser without the code looks
for it first, one with the code when the state is spent (`Recalls`). `UpdateApp` is the PATCH of the OAuth application,
`DeleteConn` the deletion of the placeholder, `Expire` the end of a key in Redis.
`told`, `done`, `asked`, `crossed` and `late` are history variables.

### TokenGroup

Tokens are numbered as they are issued. `LoadGroup`, `AskGitLab`, `Exhausted` and
`CommitGroup` are `refresh_group_tokens` and the commit of its caller; `DropGroup`
is a caller that does not commit, such as the list of projects. GitLab holds the
refresh tokens that it takes in `valid`. `alone` marks a refresher that nobody
overlapped; `grants`, `lost` and `revoked` record why a group may lose its token.

### Accounts

`CountUsers` and `BootstrapAdmin` are `bootstrap_admin` in each starting process.
An invitation, a removal or an OIDC callback is checked (`InviteMember`,
`RemoveMember`, `OidcCallback` with `ConsumeState`), reads its target (`ReadTarget`)
and commits (`CommitMember`), with what a unique constraint or a row that is gone
makes of it in `Conflict` and `Removes`. An invitation with the role that was read
writes nothing (`Invites`), also where another request has changed or deleted the
membership meanwhile.

### Messengers

`TelegramInit`, `StoreCode` and `CommitChannel` make a bot, whose code is in Redis
before its row is committed. `TelegramWebhook`, `DeleteCode`, `LoadChannel` and
`CommitChannel` link a chat. `RetryWebhook` and `TestNotification` set the webhook
again and write `config` whole (`Saved`).

## 3. What the runs check

| Run | Instance | Shows |
|---|---|---|
| `pipeline_safety` | 2 alike CI failures and an ingested job, 3 messages, 2 poll cycles, a poll rollback, retention once | types; the tables are those of atomic counts: stored analyses are counted, clusters point to stored analyses of their fingerprint; a stored reference is of a real comment and survives; a reused row is not deleted under its user; a run is taken up again only after a rollback or retention; deadlocks are pairs |
| `pipeline_faults` | a failure with 2 messages, a retry, a worker's death, a poll rollback, retention once, POSTs and chat messages sent up to 3 times | comments and chat messages stay within 3 for each attempt that failed or counted |
| `pipeline_liveness` | a failure with 2 messages, a retry, a worker's death, a poll rollback, retention once | every message ends, whatever order locks are taken in, a deadlock's victim that is retried and a message that is delivered again included; a failure whose message reached the broker ends counted or with a message that ended as failed |
| `poll_safety` | each provider, 3 runs, 2 cycles, pages of 2, a rollback, a fault | the watermark is backed by rows; numeric watermarks keep history out; the intake's promise is kept |
| `poll_seen` | GitHub with pages of 1 and Bitbucket with pages of 2, 2 runs, 2 cycles, a rollback, a fault, retention once | a failure a page still shows is stored in the end |
| `poll_replay` | violation | a primed Bitbucket uuid does not stop the replay of history |
| `cluster_safety` | 3 messages, 2 severities, 1 user, a clock past the TTL | counts add up; the rows are those of atomic counts, so that a reused analysis has its cluster's severity; every transaction ends, those included that lock the two rows in opposite orders |
| `cluster_answers` | violation | an answered status is not stored |
| `webhook_races` | 2 deliveries, 2 workers, a PATCH at a time, retry, death | off stays off; no failure counts twice; a delivery switches off only after enough failures; every delivery ends |
| `webhook_disables` | violation | concurrent failures do not disable the subscription |
| `connections` | each of five providers, 2 requests at a time, 4 in all, 2 faults | a known hook has the row's secret; an active connection has a hook; GitLab has no second hook unless a POST was lost or requests overlapped, and none that no row knows unless a call failed or overlapped; a stale commit does not switch a connection on |
| `integrations`, `oauth` | each provider, 2 flows, 2 callbacks, 2 requests at a time, 2 applications, a lost answer or crash, a new application or a deletion | the browser hears what was committed; tokens belong to the application of the row |
| `integrations`, `group` | 2 connections, 2 refreshers, 4 tokens, a fault | a token stays usable; a lone refresh marks no good group and leaves one token |
| `integrations`, `team` | 3 people, 2 processes, 2 requests at a time, 2 invitations | an admin stays; who was removed stays out; one bootstrap |
| `integrations`, `chat` | 2 connections, 2 codes, 2 chats, 2 requests at a time | a linked bot keeps its target, its status agrees |

The violations are disagreements between the code and its own comments; each is
described under `findings` in `PROJECT.json` with the lines on both sides. Other
findings follow from reading the code and need no run: retention keeps usage rows,
a transport error of an outbound webhook is never retried, a second watch at
GitLab leaves the row with a secret that its hook does not have, a missing GitLab
project answers 500, a GitLab failure event raises `NameError`, the hooks of GitHub
and Bitbucket post to routes that do not exist, listing projects throws a rotated
refresh token away, a transient error marks a credential group, and GitHub's
callback reports a connection without a token.

Several properties carry a condition. It names the part that the code does *not*
keep: without the condition TLC finds a counterexample.

- `SecretAgrees` leaves out GitLab (the second watch); for GitHub, failed calls; and
  for Bitbucket Cloud, failed calls of requests that overlap. The last takes two
  faults: a failed lookup leaves the row under its path, so that it can be watched
  again; two such watches each put a new secret in their copy of the row, one
  registers its hook and commits, and the other, whose POST is refused, commits its
  secret over it. A run with one fault does not show it; the search for an inductive
  invariant did, and the run now has two.
- `ActiveHasHook` leaves out Bitbucket, whose PATCH changes the mode
  and makes no hook, and requests that overlap. `OneHook` and `HooksKnown` are
  GitLab's: the other clients do not look for a hook that is there.
- `NoSilentLoss` speaks of failures whose message reached the broker. A handler that dies
  between its commit and `delay`, or a broker that refuses, loses the failure without a
  trace: nothing distinguishes the row that is left from one of an analysed run, and only
  its deletion by retention lets the run in again. The model takes these steps, no
  property excludes them.
- `FailuresSeen` and `WatermarkBacked` leave out what no listing could show (`skipped`).
- `ToldTrue` leaves out GitHub's answer without a token, and at GitFlic outcomes that
  are fetched twice or expire. `AppAgrees` leaves out requests that overlap.
- `GroupUsable` needs one grant, no lost answer and no dropped transaction: with two
  grants and three refreshers, one that overlaps may copy the token it has read over
  the new one.
- `AdminStays` leaves out overlapping requests, because two admins can remove each
  other, and an admin who invites himself with a lower role.
- `ChatStays` keeps the target always, and the status only when no link overlapped: a
  retry puts back the status that it read.

Two hazards have no property, since the code does not avoid them: the lost message
above (`routes/analyze.py` 74), and two admins who remove each other
(`routes/tenants.py` 220).

**Bounds.** Retries, redeliveries, rollbacks, faults, expiries and deaths are
capped by constants named `Max...`, each guarding one action; the real program
allows at least as many. Two is enough for a race of two actors; in the pipeline
a third message comes after a pair that raced, or deadlocks over the row of one
that ended; and one retention (`pipeline_safety`) or death (`pipeline_faults`) can fall at every
point of every interleaving. A page of 2 with 3 runs has a run beyond its end. `MaxTime = 2`
with `TTL = 1` lets a sighting expire. Four requests on a project are one that makes
the row, two that overlap and one that comes after; two requests at work are enough
for every race of a read and a commit; of the two faults one leaves a row under its path,
and one refuses, loses or rolls back a later call. Two flows with two callbacks give a callback
repeated or crossed with another flow's. Four tokens are a group of two grants and
two rotations. `pipeline_safety` has a `VIEW` without the number of chat
messages, which no guard and, their type apart, none of its properties reads. Messages, cycles,
workers and people are interchangeable, so most runs that check no liveness use
symmetry; the others do not.

**Fairness.** `WF` of a message's steps: Celery runs what is queued and every
remote call has a timeout. Faults, deaths, rollbacks and retention are never fair:
they may happen or not. `WF` of a poll cycle's steps: beat starts cycles for ever.
`SF(Upsert)` in `ClusterLifecycle`: PostgreSQL queues the waiters of a row lock,
so a stream of requests cannot keep one out; `WF(Close)`: a request ends. No
property relies on a fair fault.

The connections, flows, groups, accounts and messengers promise nothing that must
happen in the end (a user may always leave), so their specifications have no
fairness.

`CHECK_DEADLOCK FALSE` is set where all messages or requests of the instance may be used up;
`PollWatermark` runs for ever and is checked for deadlock.

## 4. What is proved

All proofs hold for every value of the constants that satisfies the named
assumption of the module (`ConstantsOK`, `OAuthConstantsOK`, `GroupConstantsOK`,
`AccountConstantsOK`, `MessengerConstantsOK`): the types of the bounds, at least two
tokens of a group, finitely many messages in `AnalysisPipeline` and
`OutboundWebhook`, finitely many requests at work in `CIConnection`, and that the value
`None` is no event, fingerprint, severity or user, nor a row or a request
(`NoneIsNone`).

- **AnalysisPipelineProofs.** `AnalysesCounted`, `RefBacked`, `ClusterSound`
  and `ReusedRowStays` are not inductive: what a commit writes was chosen stages
  earlier. `IInv` adds `TxOK`, what a transaction holds at each stage: a fresh
  analysis has written its own row, a reused one is of the same fingerprint, a
  reference is set only after a comment was posted. The proof goes action by
  action; only `Finish` and `EnforceRetention` change the tables that matter.
  `RefsSurvive` is an action property from the same invariant.
  `PipelineImplementsIntake` maps a step that inserts a row to a claim, one that
  gives a message to a run to a taking up, and a deletion to a forgetting. The count
  of a run's messages changes with one `Blank` message at a time, and the rows that
  retention deletes are claimed (`Claimed`). `EffectsAreAccounted`
  counts attempts, for comments and chat messages alike, as a set of pairs, message and number
  of the attempt, each worth `PostTries` messages (`Spent`): `Failures` of a message grow by one pair when it rolls back, whatever
  else happens (`Balanced`), and a redelivery is one of them (`Redelivered`).
  `PipelineImplementsLedger` maps `Finish` to a count of one step: an analysis of its
  own (`fresh`, `bare`) or a stored one of the same fingerprint (`reuse`), which is
  there because nobody can delete it under the lock; retention is `Delete`, all other
  steps are stutters. `OnlyPairsDeadlock` is what `MessagesSettle` rests on, without
  time. Nobody shares a lock (`Exclusive`), and whoever waits has passed fewer
  statements than the one waited for, but for a flush of a reused analysis: so a cycle
  contains a flush, and the row it waits for is held by a fresh analysis of that very
  failure, which in turn waits for the cluster of the flush (`FlushMeetsFresh`).
- **FailureIntake.** `TakenAtMostOnce`: from the abstract specification alone, a
  run is taken up at most once more than it was forgotten. The pipeline and
  the poller inherit it through their refinements: `RunsTakenOnce` in either module.
- **PollWatermarkProofs.** `PollingImplementsIntake`: initial states map to
  initial states, and each step is a claim, a forgetting or a stutter; the step
  that needs the argument is `Handle`, which claims a run nobody else holds.
  `WatermarkIsBacked` needs `Backed`: what a watermark that a cycle carries hides
  (`CycleBacked`) is stored, open in that cycle, still on its list, or skipped. Runs are
  handled newest first, so the proof has to show that a cycle which ends early puts its
  own watermark back. For ids it follows that a watermark only rises while a page is
  handled; for Bitbucket it does not, and the argument is that the mark is either the one
  that was read or the newest run of the page that was listed from it, a failed one. `HistoryStaysOut` adds `History`: whatever failed before the
  priming is at or below every watermark in use, committed or carried by a cycle, and
  is on no list.
- **ClusterLifecycleProofs.** `SeveritiesAgree` holds although the lookup ignores
  the severity: an event's severity is written once, by the transaction that counts
  it (`Counted`), so the severity that a reuse has read is the row's for good
  (`Decided`). `SightingsAreCounted`: the sightings are pairs of a row and a number
  up to its count, so a commit that counts an event adds one pair and one event to
  two finite sets. `ClustersImplementLedger`: a commit moves the pointer of one row, to
  its own analysis (`Analyze`) or to one whose stored severity `Decided` says is the
  row's (`Reuse`); users' requests, flushes and victims are stutters.
- **OutboundWebhookProofs.** `OffStays` rests on `CopiesEnabled`: a delivery's
  copy was enabled when read, so its commit writes that column only to clear
  it. `FailsAreBounded` rests on `CopiesBounded`: no copy in flight is ahead of
  `failures`, a number that only grows and is raised by the attempt that commits
  (`Counting`). `SwitchedOffForCause` follows from the same invariant: a delivery
  that switches the subscription off has found no secret, or writes a counter at the
  threshold, and counters are never ahead.
- **CIConnectionProofs.** The branches of the routes are operators on a work record, so
  most of the proof does not mention the state: `Follows` bounds what any branch does
  to the hooks and the row, `Safe` and `Single` say that a branch keeps hook and secret
  together and makes no second hook, and `HandledIs` collects them for the five
  providers. The step `Call` takes its result from there. `Typed` adds to the types the
  order of a request's stages (`Ordered`), that the numbers remembered are finitely many,
  so that `Unused` is free, and that a row in the making has an id of its own; without
  it an insert could take another row's id. `GitLabHasOneHook` needs `ListIsTrue`: the
  list a lone request works with is still GitLab's. `HooksAndSecretsAgree` needs more
  than the committed rows: a commit writes the columns its request changed over what
  another request has committed, so `Agreed` speaks of every copy of a row, asks that a
  request changes hook and secret together or leaves both (`Paired`), and, for GitHub
  and Bitbucket, which rows have neither (`Regular`). `WhatIsOffStaysOff` follows from
  `Written`: the copy was read enabled, so the column is not written.
  `ActiveRowsHaveHooks` and `GitLabHooksAreKnown` need the properties strengthened and
  moved in time. Strengthened: a row may become active without a call (a verify after a
  delivery, a mode that comes back), so `Demands` names per provider the rows that
  promise a hook already, and `Stands` asks that the hook a row knows exists. Moved:
  after its call a request has changed the hooks and not yet its row, so `Held` asks
  that the rows be `Sound` as the commit will leave them (`Left`). `Settles` is what
  every branch keeps: the row has a hook afterwards, or has lost it and promises none,
  or neither hook nor promise has changed. A webhook may arrive between reading and
  committing and set the row's status, which the commit keeps (`SameRow`).
- **OAuthProofs**, of `OAuthFlow`. `Typed` is the inductive type invariant: finitely many row
  ids are in use, so that `FreshId` exists and is free, flows are numbered without
  gaps, and a copy of the rows has the ids that were read. `AppAlwaysAgrees` follows
  the rows that a request has read: as long as nobody overlaps (`Alone`) they are
  still the committed ones (`StillThere`). `AlwaysToldTrue` has two halves. That
  success means tokens are committed is `Connections`: every outcome "ok" on its
  way to a browser, in a request, in Redis or told, is of a flow that is done.
  That a failure means they are not holds for a flow with one POST and one
  browser, and only in the absence of losses: `History` says what such a flow has come
  to (`Past`) and what its visitor can still find (`Now`), in particular that a
  request with the code, whose state is spent, is the only one that may connect. An outcome that
  a browser has fetched and not yet deleted counts as on its way to it (`PeekMoves`).
- **OAuthProofs**, of `TokenGroup`. `GroupStaysUsable` follows one connection, the *home*, that had
  the newest token at the start. Every refresher at work either `Spares` it (does not
  write there, and writes nothing newer than what it has read there) or `Brings` the
  token that GitLab takes, and there is at most one of the latter. So the token is
  in the home or in the transaction that brings it. With a second grant there is
  no home, and with three refreshers no usable token either. `ErrorsOnlyExhausted` and `GroupsAgree`
  rest on `AloneSees`, a lone refresher has read the committed rows, and `Spent`,
  what it has tried is no longer taken.
- **TenantProofs.** `RemovedStayOut` and `OneBootstrap` rest on the users table, which
  only grows and holds every member, every removed person and every target that was
  found a member. `AnAdminStays` rests on the actor of the one request at work,
  who is an admin until it commits. `ChatsStay`: a target, once there, is only
  replaced by another. The invariant follows what the copies of requests at work know
  of the committed rows, and that a bot in the making is nobody else's.
  `ComponentsAlone`: a behaviour of `Integrations` is one of each component, a step of
  one being a stutter of the others; so the composition has the types
  (`IntegrationsTyped`) and the safety properties (`IntegrationsSafe`) of its parts.

**Only model-checked:** every liveness property (`NoSilentLoss`,
`MessagesSettle`, `FailuresSeen`, `AnalysesEnd`, `DeliveriesEnd`), which with
`ENABLED` is beyond the installed provers. Every invariant and action property that a
passing run checks is proved.

## 5. What is abstracted or not modelled

Abstracted:

- One tenant: all keys contain the tenant. One connection per poll cycle in
  `PollWatermark`; other connections appear as rollbacks of the shared transaction.
- Log excerpts, prompts and answers are values; a fingerprint is a value given by
  the event. Whether the TTL has passed or a tenant has switched the cost saver
  off is a free choice in `AnalysisPipeline` and a clock in `ClusterLifecycle`.
- Publishing the retry and acknowledging the old message is one step. Retention is
  one statement.
- One project in `CIConnection`: a watch of several is several watches, each with the
  others' failures as rollbacks. The credentials a request needs are fresh, or their
  refresh is a rollback; the plan admits the connection.
- A round of alerts and the comments of one publication are one step each in
  `AnalysisPipeline`, which leaves any number of copies up to `PostTries`. One chat stands
  for all: each channel gets its own messages by the same rule.
- The reused row that a flush locks in `ClusterLifecycle` is not deleted under it:
  retention is part of `AnalysisPipeline`.

Not modelled, and why:

- **Inbound CI webhooks**: `_record_pipeline_event` upserts the latest status of a run
  for the statistics; nothing decides by it, and the code promises no order. The
  GitLab route is modelled up to the point where it raises.
- **CI connections**: feedback overrides, plan caps, and the deletion of an instance
  with all its projects, which repeats `Purge` for each of them.
- **Polling**: the job id that is found while a log is fetched, and a GitHub run that
  is re-run under its old id.
- **CI feedback and notifications**: policy resolution, status checks and the filters of
  a channel are functions of one row without state.
- **Accounts**: API tokens (a row each, made and deleted by single statements), the
  tenant's settings, logout.
- **Rate limits**: a refused request has changed nothing, and is for the models a
  request that was not sent.
- **Log processing**: string functions without state; a model of the text would be
  a second copy of the code.
- **LLM client, email, read-only routes, web client, deployment**: no state of their
  own, or pure I/O.

## 6. What would come next

Once the code stores the times of pipeline events, their upserts deserve a module
and the property that an earlier status never replaces a final one. Every safety
property of a single component is proved; what could be added is a refinement: that
`CIConnection` implements a specification of one row and one hook for as long as no
call fails and no requests overlap, of which `Service` is most of the mapping.
