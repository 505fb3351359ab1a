-------------------------------- MODULE TokenGroup --------------------------------
(***************************************************************************)
(* The OAuth tokens of one GitLab credential group: the connections of a   *)
(* tenant to one instance, which keep copies of one token. GitLab takes a  *)
(* refresh token once and answers with its successor. The poll worker and  *)
(* the API requests refresh the group, each in a transaction of its own.   *)
(*                                                                         *)
(* Tokens are numbered as they are issued, and expire in that order. An    *)
(* access token, the refresh token that came with it and its expiry are    *)
(* one number, 0 for none.                                                 *)
(***************************************************************************)
EXTENDS Naturals, FiniteSets

CONSTANTS
    Members,    \* connections of the group
    Refreshers, \* the poll worker and the requests, at work at one time
    MaxTokens,  \* bounds the tokens
    MaxFaults   \* bounds failed calls and lost answers

ASSUME GroupConstantsOK == MaxTokens \in Nat /\ MaxTokens >= 2 /\ MaxFaults \in Nat

Tokens == 1..MaxTokens

VARIABLES
    members, \* the committed rows
    issued,  \* the newest token
    valid,   \* refresh tokens that GitLab takes
    stale,   \* tokens up to this one have expired
    work,    \* what the refreshers do
    lost,    \* tokens that were issued and never committed
    faults,
    grants,  \* grants so far: a token of each is taken
    revoked  \* the user has revoked a grant

groupVars == <<members, issued, valid, stale, work, lost, faults, grants, revoked>>

\* The columns of a connection
Member == [token : 0..MaxTokens, error : BOOLEAN]

\* seen is the group as it was read, rows as it will be written; alone: no
\* other refresher worked and no connection was renewed meanwhile. Whether it
\* is the poll worker or a request shows only at the end.
Work == [stage : {"idle", "ask", "commit"}, alone : BOOLEAN,
         seen : [Members -> Member], rows : [Members -> Member], tried : SUBSET Tokens,
         ok : BOOLEAN]

Rest == [stage |-> "idle", alone |-> TRUE,
         seen |-> [m \in Members |-> [token |-> 0, error |-> FALSE]],
         rows |-> [m \in Members |-> [token |-> 0, error |-> FALSE]],
         tried |-> {}, ok |-> FALSE]

\* Two tokens of the same grant or of two
GroupInit ==
    /\ members \in [Members -> [token : 0..2, error : {FALSE}]]
    /\ valid \in {{2}, {1, 2}}
    /\ \E m \in Members : members[m].token = 2
    /\ issued = 2
    /\ stale \in 0..2
    /\ work = [r \in Refreshers |-> Rest]
    /\ lost = {} /\ faults = 0 /\ grants = Cardinality(valid) /\ revoked = FALSE

-----------------------------------------------------------------------------
(* gitlab_group.py *)

Working == {r \in Refreshers : work[r].stage # "idle"}
TokensOf(rows) == {rows[m].token : m \in Members} \ {0}
Newest(set) == CHOOSE t \in set : \A u \in set : u <= t

\* Mutant: the tokens stay with the connection that got them
Propagated_Alone(rows, t) ==
    LET one == CHOOSE m \in Members : TRUE IN [rows EXCEPT ![one].token = t]

\* propagate_tokens: the tokens of one connection in all of the group
Propagated(rows, t) == [m \in Members |-> [rows[m] EXCEPT !.token = t]]

Fresh(rows) == {t \in TokensOf(rows) : t > stale}

\* A refresher reads the group: with a fresh token nothing is asked of GitLab,
\* without any token nothing is done
LoadGroup(r) ==
    /\ work[r].stage = "idle" /\ TokensOf(members) # {}
    /\ LET alone == Working = {}
           found == Fresh(members) # {}
           mine == [Rest EXCEPT
                      !.alone = alone, !.seen = members,
                      !.stage = IF found THEN "commit" ELSE "ask", !.ok = found,
                      !.rows = IF found THEN Propagated(members, Newest(Fresh(members)))
                                        ELSE members]
       IN  work' = [q \in Refreshers |-> IF q = r THEN mine
                                         ELSE [work[q] EXCEPT !.alone = @ /\ work[q].stage = "idle"]]
    /\ UNCHANGED <<members, issued, valid, stale, lost, faults, grants, revoked>>

\* Mutant: the first refusal is the end
Untried_First(q) == IF q.tried = {} THEN TokensOf(q.rows) ELSE {}

\* The refresh tokens that have not been tried
Untried(q) == TokensOf(q.rows) \ q.tried

\* The newest refresh token is sent to GitLab. It is refused when it was
\* replaced or revoked. The call may fail, or only its answer be lost: then it
\* is repeated, and the repeated one refused.
AskGitLab(r) ==
    LET q == work[r]
        t == Newest(Untried(q))
        Refused == [work EXCEPT ![r].tried = @ \cup {t}]
    IN  /\ q.stage = "ask" /\ Untried(q) # {}
        /\ \/ /\ t \in valid /\ issued < MaxTokens
              /\ issued' = issued + 1
              /\ valid' = (valid \ {t}) \cup {issued + 1}
              /\ \/ /\ work' = [work EXCEPT ![r].stage = "commit", ![r].ok = TRUE,
                                            ![r].rows = Propagated(q.rows, issued + 1)]
                    /\ UNCHANGED <<lost, faults>>
                 \/ /\ faults < MaxFaults /\ faults' = faults + 1
                    /\ lost' = lost \cup {issued + 1}
                    /\ work' = Refused
           \/ /\ t \notin valid
              /\ work' = Refused
              /\ UNCHANGED <<issued, valid, lost, faults>>
           \/ /\ faults < MaxFaults /\ faults' = faults + 1
              /\ work' = Refused
              /\ UNCHANGED <<issued, valid, lost>>
        /\ UNCHANGED <<members, stale, grants, revoked>>

\* No refresh token is left: the poller marks the group, a request is answered
\* with an error and its transaction dropped
Exhausted(r) ==
    /\ work[r].stage = "ask" /\ Untried(work[r]) = {}
    /\ \/ work' = [work EXCEPT ![r].stage = "commit",
                       ![r].rows = [m \in Members |-> [@[m] EXCEPT !.error = TRUE]]]
       \/ work' = [work EXCEPT ![r] = Rest]
    /\ UNCHANGED <<members, issued, valid, stale, lost, faults, grants, revoked>>

\* Mutant: every column is written
Written_Whole(row, old, new) == new

\* The columns that a transaction changed
Written(row, old, new) ==
    [token |-> IF new.token = old.token THEN row.token ELSE new.token,
     error |-> IF new.error = old.error THEN row.error ELSE new.error]

CommitGroup(r) ==
    LET q == work[r]
    IN  /\ q.stage = "commit"
        /\ members' = [m \in Members |-> Written(members[m], q.seen[m], q.rows[m])]
        /\ work' = [work EXCEPT ![r] = Rest]
        /\ UNCHANGED <<issued, valid, stale, lost, faults, grants, revoked>>

\* The list of projects is read without a commit, and the other transactions
\* are rolled back when a later step of theirs fails
DropGroup(r) ==
    LET q == work[r]
    IN  /\ q.stage = "commit"
        /\ lost' = lost \cup (TokensOf(q.rows) \ TokensOf(q.seen))
        /\ work' = [work EXCEPT ![r] = Rest]
        /\ UNCHANGED <<members, issued, valid, stale, faults, grants, revoked>>

-----------------------------------------------------------------------------
(* What else happens *)

\* The OAuth callback of one connection: a new grant
Reconnect(m) ==
    /\ issued < MaxTokens
    /\ issued' = issued + 1 /\ grants' = grants + 1
    /\ valid' = valid \cup {issued + 1}
    /\ members' = [members EXCEPT ![m] = [token |-> issued + 1, error |-> FALSE]]
    /\ work' = [r \in Refreshers |-> [work[r] EXCEPT !.alone = @ /\ work[r].stage = "idle"]]
    /\ UNCHANGED <<stale, lost, faults, revoked>>

\* The user revokes a grant at GitLab
Revoke(t) ==
    /\ valid' = valid \ {t} /\ revoked' = TRUE
    /\ UNCHANGED <<members, issued, stale, work, lost, faults, grants>>

Elapse ==
    /\ stale < issued
    /\ stale' = stale + 1
    /\ UNCHANGED <<members, issued, valid, work, lost, faults, grants, revoked>>

GroupNext ==
    \/ \E r \in Refreshers :
         \/ LoadGroup(r) \/ AskGitLab(r) \/ Exhausted(r) \/ CommitGroup(r) \/ DropGroup(r)
    \/ \E m \in Members : Reconnect(m)
    \/ \E t \in valid : Revoke(t)
    \/ Elapse

GroupSpec == GroupInit /\ [][GroupNext]_groupVars

-----------------------------------------------------------------------------
(* Properties *)

GroupTypeOK ==
    /\ members \in [Members -> Member]
    /\ issued \in 0..MaxTokens
    /\ valid \subseteq 1..issued
    /\ stale \in 0..issued
    /\ work \in [Refreshers -> Work]
    /\ lost \subseteq 1..issued
    /\ faults \in 0..MaxFaults /\ grants \in Nat
    /\ revoked \in BOOLEAN

\* As long as there is one grant, which nobody revokes, no call fails and no
\* transaction is dropped with a new token, a row or a transaction at work has
\* the token that GitLab takes, however refreshers overlap
Held == TokensOf(members) \cup UNION {TokensOf(work[r].rows) : r \in Working}
GroupUsable ==
    grants = 1 /\ faults = 0 /\ lost = {} /\ ~revoked => Held \cap valid # {}

\* A refresher that worked alone marks the group only when GitLab takes none of
\* its tokens, calls that failed apart
ErrorOnlyExhausted ==
    [][\A r \in Refreshers :
          work[r].stage = "ask" /\ work[r].alone /\ faults = 0 /\ work'[r].stage = "commit"
            /\ ~work'[r].ok => TokensOf(members) \cap valid = {}]_groupVars

\* A refresh that worked alone leaves one token in all connections
GroupAgrees ==
    [][\A r \in Refreshers :
          work[r].stage = "commit" /\ work[r].ok /\ work[r].alone
            /\ work'[r].stage = "idle" /\ members' # members
            => \A m, n \in Members : members'[m].token = members'[n].token]_groupVars
=============================================================================
