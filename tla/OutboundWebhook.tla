---------------------------- MODULE OutboundWebhook ----------------------------
(***************************************************************************)
(* One outbound webhook subscription: the deliver_webhook messages sent    *)
(* for it, the workers that post them and keep its telemetry, and the      *)
(* admins who switch it on and off, rotate its secret and delete it.       *)
(*                                                                         *)
(* A delivery and a PATCH both read the row, work on the copy and write it *)
(* at commit without having locked it in between. SQLAlchemy writes the    *)
(* columns whose value has changed since they were read.                   *)
(***************************************************************************)
EXTENDS Naturals, FiniteSets

CONSTANTS
    Msg,          \* deliver_webhook messages
    Admin,        \* PATCH requests
    Workers,      \* worker processes
    MaxFailures,  \* MAX_CONSECUTIVE_FAILURES
    MaxRetries,   \* max_retries of deliver_webhook
    MaxCrashes,   \* bounds the deaths of workers
    None

ASSUME ConstantsOK ==
    /\ IsFiniteSet(Msg)
    /\ Workers \in Nat \ {0} /\ MaxFailures \in Nat \ {0}
    /\ MaxRetries \in Nat /\ MaxCrashes \in Nat

VARIABLES
    sub,       \* the committed row, None once it is deleted
    stage,     \* where a message is
    copy,      \* the row as the message's worker has read it
    result,    \* what came of the POST
    retries,   \* retries of a message
    patch,     \* a PATCH between its read and its commit
    crashes,
    failures,  \* committed failures
    streak     \* those since the last success or switching on

message == <<stage, copy, result, retries>>
tally   == <<failures, streak>>
vars    == <<sub, message, patch, crashes, tally>>

\* "readable": decrypt_str gives the secret
Row == [enabled : BOOLEAN, fails : Nat, secret : {"readable", "unreadable"}]

Ended == {"done", "failed"}

Init ==
    /\ sub \in {[enabled |-> e, fails |-> 0, secret |-> "readable"] : e \in BOOLEAN}
    /\ stage = [m \in Msg |-> "unsent"]
    /\ copy = [m \in Msg |-> None]
    /\ result = [m \in Msg |-> None]
    /\ retries = [m \in Msg |-> 0]
    /\ patch = [a \in Admin |-> None]
    /\ crashes = 0
    /\ failures = 0 /\ streak = 0

\* Mutant: every column is written
Written_WholeRow(seen, new) == IF sub = None THEN None ELSE new

\* Mutant: the counter is added to the column
Written_Adds(seen, new) ==
    IF sub = None THEN None
    ELSE [new EXCEPT !.fails = IF @ > 0 THEN @ + sub.fails ELSE @]

\* What a commit leaves in a column that its transaction has read and set
Column(old, seen, new) == IF new # seen THEN new ELSE old

\* The row after a commit: an UPDATE by id of the columns that differ from the
\* ones read, which finds nothing once the row is deleted
Written(seen, new) ==
    IF sub = None THEN None
    ELSE [enabled |-> Column(sub.enabled, seen.enabled, new.enabled),
          fails   |-> Column(sub.fails, seen.fails, new.fails),
          secret  |-> Column(sub.secret, seen.secret, new.secret)]

-----------------------------------------------------------------------------
(* Sending *)

\* schedule_webhook_fanout of an analysis that the pipeline has just made
Fanout(m) ==
    /\ stage[m] = "unsent"
    /\ sub # None /\ sub.enabled
    /\ stage' = [stage EXCEPT ![m] = "queued"]
    /\ UNCHANGED <<sub, copy, result, retries, patch, crashes, tally>>

\* The redeliver route sends whether the subscription is enabled or not
Redeliver(m) ==
    /\ stage[m] = "unsent"
    /\ sub # None
    /\ stage' = [stage EXCEPT ![m] = "queued"]
    /\ UNCHANGED <<sub, copy, result, retries, patch, crashes, tally>>

-----------------------------------------------------------------------------
(* Delivering *)

Busy == {m \in Msg : stage[m] \in {"read", "posted"}}

\* session.get: nothing is posted to a row that is gone or disabled
Skip(m) ==
    /\ stage[m] = "queued" /\ Cardinality(Busy) < Workers
    /\ IF sub = None THEN TRUE ELSE ~sub.enabled
    /\ stage' = [stage EXCEPT ![m] = "done"]
    /\ UNCHANGED <<sub, copy, result, retries, patch, crashes, tally>>

\* session.get: the row is copied, and an unreadable secret needs no POST
Read(m) ==
    /\ stage[m] = "queued" /\ Cardinality(Busy) < Workers
    /\ sub # None /\ sub.enabled
    /\ copy' = [copy EXCEPT ![m] = sub]
    /\ \/ /\ sub.secret = "readable"
          /\ stage' = [stage EXCEPT ![m] = "read"]
          /\ UNCHANGED result
       \/ /\ sub.secret = "unreadable"
          /\ stage' = [stage EXCEPT ![m] = "posted"]
          /\ result' = [result EXCEPT ![m] = "no_secret"]
    /\ UNCHANGED <<sub, retries, patch, crashes, tally>>

\* The POST is answered with 2xx or another status, or the transport fails.
\* deliver_webhook_now catches whatever the POST raises.
Post(m) ==
    /\ stage[m] = "read"
    /\ \E r \in {"ok", "status", "transport"} : result' = [result EXCEPT ![m] = r]
    /\ stage' = [stage EXCEPT ![m] = "posted"]
    /\ UNCHANGED <<sub, copy, retries, patch, crashes, tally>>

Failing(m) == result[m] \in {"status", "transport"}

FailsAfter(m) ==
    IF result[m] = "ok" THEN 0
    ELSE IF Failing(m) THEN copy[m].fails + 1 ELSE copy[m].fails

\* Mutant: a failure too early
EnabledAfter_Early(m) ==
    result[m] = "ok" \/ (Failing(m) /\ FailsAfter(m) + 1 < MaxFailures)

EnabledAfter(m) ==
    result[m] = "ok" \/ (Failing(m) /\ FailsAfter(m) < MaxFailures)

\* The copy with the telemetry of the delivery
Updated(m) == [copy[m] EXCEPT !.fails = FailsAfter(m), !.enabled = EnabledAfter(m)]

\* The commit. A row deleted meanwhile makes the UPDATE match nothing, which is
\* an exception that is not retried.
Commit(m) ==
    /\ stage[m] = "posted"
    /\ sub' = Written(copy[m], Updated(m))
    /\ stage' = [stage EXCEPT ![m] = IF sub = None THEN "failed" ELSE "done"]
    /\ failures' = IF sub # None /\ Failing(m) THEN failures + 1 ELSE failures
    /\ streak' = IF sub = None \/ result[m] = "no_secret" THEN streak
                 ELSE IF Failing(m) THEN streak + 1 ELSE 0
    /\ UNCHANGED <<copy, result, retries, patch, crashes>>

\* Mutant: the retry is not counted
Fault_Uncounted(m) ==
    /\ stage[m] \in {"read", "posted"}
    /\ stage' = [stage EXCEPT ![m] = "queued"]
    /\ copy' = [copy EXCEPT ![m] = None]
    /\ result' = [result EXCEPT ![m] = None]
    /\ UNCHANGED <<sub, retries, patch, crashes, tally>>

\* Mutant: no max_retries
Fault_NoLimit(m) ==
    /\ stage[m] \in {"read", "posted"}
    /\ retries' = [retries EXCEPT ![m] = @ + 1]
    /\ stage' = [stage EXCEPT ![m] = "queued"]
    /\ copy' = [copy EXCEPT ![m] = None]
    /\ result' = [result EXCEPT ![m] = None]
    /\ UNCHANGED <<sub, patch, crashes, tally>>

\* The database connection fails (an OSError) and the session rolls back:
\* autoretry_for sends the message again, up to max_retries times
Fault(m) ==
    /\ stage[m] \in {"read", "posted"}
    /\ \/ /\ retries[m] < MaxRetries
          /\ retries' = [retries EXCEPT ![m] = @ + 1]
          /\ stage' = [stage EXCEPT ![m] = "queued"]
       \/ /\ retries[m] = MaxRetries
          /\ stage' = [stage EXCEPT ![m] = "failed"]
          /\ UNCHANGED retries
    /\ copy' = [copy EXCEPT ![m] = None]
    /\ result' = [result EXCEPT ![m] = None]
    /\ UNCHANGED <<sub, patch, crashes, tally>>

\* A worker dies before the message is acknowledged, be it after the commit: it
\* is delivered again
WorkerDies(m) ==
    /\ stage[m] \in {"read", "posted", "done"}
    /\ crashes < MaxCrashes
    /\ crashes' = crashes + 1
    /\ stage' = [stage EXCEPT ![m] = "queued"]
    /\ copy' = [copy EXCEPT ![m] = None]
    /\ result' = [result EXCEPT ![m] = None]
    /\ UNCHANGED <<sub, retries, patch, tally>>

-----------------------------------------------------------------------------
(* Admins *)

\* _load_owned of a PATCH that asks for enabled = on
PatchRead(a, on) ==
    /\ patch[a] = None
    /\ sub # None
    /\ patch' = [patch EXCEPT ![a] = [on |-> on, seen |-> sub]]
    /\ UNCHANGED <<sub, message, crashes, tally>>

\* Switching on also clears the counter
Patched(p) ==
    IF p.on THEN [p.seen EXCEPT !.enabled = TRUE, !.fails = 0]
            ELSE [p.seen EXCEPT !.enabled = FALSE]

PatchCommit(a) ==
    /\ patch[a] # None
    /\ sub' = Written(patch[a].seen, Patched(patch[a]))
    /\ streak' = IF sub # None /\ patch[a].on THEN 0 ELSE streak
    /\ patch' = [patch EXCEPT ![a] = None]
    /\ UNCHANGED <<message, crashes, failures>>

\* rotate_secret writes the secret's column only
RotateSecret ==
    /\ sub # None
    /\ sub' = [sub EXCEPT !.secret = "readable"]
    /\ UNCHANGED <<message, patch, crashes, tally>>

\* The server's encryption key is replaced
KeyReplaced ==
    /\ sub # None
    /\ sub' = [sub EXCEPT !.secret = "unreadable"]
    /\ UNCHANGED <<message, patch, crashes, tally>>

DeleteSubscription ==
    /\ sub # None
    /\ sub' = None
    /\ UNCHANGED <<message, patch, crashes, tally>>

-----------------------------------------------------------------------------

Work(m) == Skip(m) \/ Read(m) \/ Post(m) \/ Commit(m)

Next ==
    \/ \E m \in Msg : \/ Fanout(m) \/ Redeliver(m)
                      \/ Work(m) \/ Fault(m) \/ WorkerDies(m)
    \/ \E a \in Admin : (\E on \in BOOLEAN : PatchRead(a, on)) \/ PatchCommit(a)
    \/ RotateSecret \/ KeyReplaced \/ DeleteSubscription

\* A worker picks up queued messages and goes on with the one it has
Fairness == \A m \in Msg : WF_vars(Work(m))

Spec == Init /\ [][Next]_vars /\ Fairness

-----------------------------------------------------------------------------
(* Properties *)

\* Every variable has its type
TypeOK ==
    /\ sub \in Row \cup {None}
    /\ stage \in [Msg -> {"unsent", "queued", "read", "posted"} \cup Ended]
    /\ copy \in [Msg -> Row \cup {None}]
    /\ result \in [Msg -> {"ok", "status", "transport", "no_secret", None}]
    /\ retries \in [Msg -> 0..MaxRetries]
    /\ patch \in [Admin -> [on : BOOLEAN, seen : Row] \cup {None}]
    /\ crashes \in 0..MaxCrashes
    /\ failures \in Nat /\ streak \in Nat

\* A delivery that started before the subscription was switched off does not
\* switch it on again when it commits: only an admin does
OffStaysOff ==
    [][sub # None /\ sub' # None =>
          (~sub.enabled /\ sub'.enabled =>
              \E a \in Admin : patch[a] # None /\ patch'[a] = None /\ patch[a].on)]_vars

\* However deliveries race, retry and repeat, no failure is counted twice: the
\* counter is never ahead of the failing POSTs whose deliveries committed
FailsBounded == sub # None => sub.fails <= failures

\* A subscription is not switched off for less: when no admin does it, a delivery
\* could not read its secret, or MAX_CONSECUTIVE_FAILURES failures were
\* committed, whatever was counted, lost or put back in between
DisabledForCause ==
    [][sub # None /\ sub' # None =>
          (sub.enabled /\ ~sub'.enabled =>
              \/ \E a \in Admin : patch[a] # None /\ patch'[a] = None /\ ~patch[a].on
              \/ \E m \in Msg : stage[m] = "posted" /\ stage'[m] = "done" /\ result[m] = "no_secret"
              \/ failures' >= MaxFailures)]_vars

\* "After this many consecutive delivery failures we auto-disable the
\* subscription" (outbound_webhook.py)
AutoDisables == sub # None /\ streak >= MaxFailures => ~sub.enabled

\* Every message sent comes to an end, whatever faults and deaths it meets
DeliveriesEnd == \A m \in Msg : stage[m] = "queued" ~> stage[m] \in Ended
=============================================================================
