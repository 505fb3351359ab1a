-------------------------------- MODULE OAuthFlow --------------------------------
(***************************************************************************)
(* Connecting a CI provider by OAuth: the placeholder rows of one instance *)
(* of a provider, the states that the application keeps in Redis, and the  *)
(* callbacks. A flow is one redirect to the provider. Callbacks of a flow  *)
(* may be repeated, may overlap with others, and come late.                *)
(*                                                                         *)
(* A row's columns are written one by one: SQLAlchemy's UPDATE has those   *)
(* that differ from what was read. The client's secret is encrypted anew,  *)
(* and differs always. A token is named by the flow whose code it was      *)
(* exchanged for, 0 for none. Every flow brings its client's secret.       *)
(***************************************************************************)
EXTENDS Naturals, FiniteSets

CONSTANTS
    Servers,   \* CI providers
    MaxFlows,  \* bounds the flows
    Calls,     \* requests at work at one time
    Apps,      \* OAuth applications registered at the provider
    MaxVisits, \* bounds the callbacks
    MaxErrors, \* bounds lost calls and crashes
    MaxEdits   \* bounds new applications and deletions

Server == {"gitlab", "github", "bitbucket", "gitflic"}
Flows  == 1..MaxFlows

ASSUME OAuthConstantsOK ==
    /\ Servers \subseteq Server
    /\ MaxFlows \in Nat /\ MaxVisits \in Nat /\ MaxErrors \in Nat /\ MaxEdits \in Nat

VARIABLES
    server,
    conns,    \* the placeholder rows
    flows,    \* the application and the row of every flow
    states,   \* the key of every flow's state in Redis
    codes,    \* what the provider knows of the flow's code
    stash,    \* GitFlic: the outcome of a POST, kept for the browser
    calls,    \* the requests at work
    visits,   \* callbacks so far, POSTs apart
    errors,
    edits,    \* new applications and deletions so far
    told,     \* what the browser was told of a flow
    done,     \* flows whose tokens have been committed
    asked,    \* rows whose application was set after their last tokens
    crossed,  \* two requests were at work at one time
    late      \* an outcome in the stash expired

flowVars == <<server, conns, flows, states, codes, stash, calls, visits, errors, edits,
              told, done, asked, crossed, late>>

ConnRow == [id : Nat, client : Apps, secret : Apps, active : BOOLEAN, token : Nat]

Ops == {"init", "update", "callback", "denied", "post", "refused", "back"}

\* seen is what the request has read, row what it makes of it
FlowCall == [op : Ops, flow : Nat, stage : {"idle", "save", "key", "peek", "get", "recall",
                  "take", "del", "load", "exchange", "commit", "stash"},
             seen : SUBSET ConnRow, rows : SUBSET ConnRow,
             got : {"nothing", "token", "empty", "ok", "failed"}]

Idling == [op |-> "init", flow |-> 0, stage |-> "idle", seen |-> {}, rows |-> {},
           got |-> "nothing"]

FlowInit ==
    /\ server \in Servers
    /\ conns = {}
    /\ flows = [f \in {} |-> 0]
    /\ states = [f \in Flows |-> "absent"]
    /\ codes = [f \in Flows |-> "none"]
    /\ stash = [f \in Flows |-> "none"]
    /\ calls = [c \in Calls |-> Idling]
    /\ visits = [f \in Flows |-> [posts |-> 0, gets |-> 0]]
    /\ errors = 0 /\ edits = 0
    /\ told = [f \in Flows |-> {}]
    /\ done = {} /\ asked = {} /\ crossed = FALSE /\ late = FALSE

-----------------------------------------------------------------------------

AtWork == {c \in Calls : calls[c].stage # "idle"}
Stage(c, s) == calls' = [calls EXCEPT ![c].stage = s]
Done(c) == calls' = [calls EXCEPT ![c] = Idling]

Start(c, call) ==
    /\ calls[c].stage = "idle"
    /\ calls' = [calls EXCEPT ![c] = call]
    /\ crossed' = (crossed \/ AtWork # {})

Ids(set) == {x.id : x \in set}
InUse == Ids(conns) \cup {flows[f].row : f \in DOMAIN flows}
           \cup UNION {Ids(calls[c].rows) : c \in Calls}
FreshId == CHOOSE n \in 1..Cardinality(InUse) + 1 : n \notin InUse

\* The rows of a request, written column by column over the committed ones
Put(q) ==
    LET Of(set, i) == CHOOSE x \in set : x.id = i
        Written(x, old, y) ==
            [id     |-> x.id,
             client |-> IF y.client = old.client THEN x.client ELSE y.client,
             secret |-> IF y.secret = old.secret /\ q.op = "update" THEN x.secret ELSE y.secret,
             active |-> IF y.active = old.active THEN x.active ELSE y.active,
             token  |-> IF y.token = old.token THEN x.token ELSE y.token]
    IN  {x \in conns : x.id \notin Ids(q.rows)} \cup
        {IF q.seen = {} THEN y ELSE Written(Of(conns, y.id), Of(q.seen, y.id), y) : y \in q.rows}

\* An UPDATE matches no row
Gone(q) == q.seen # {} /\ ~(Ids(q.seen) \subseteq Ids(conns))

-----------------------------------------------------------------------------
(* oauth/init: a placeholder is found or made and committed, then the state *)
(* is stored and the browser sent to the provider                           *)

Placeholder(seen, a) ==
    IF seen = {}
    THEN {[id |-> FreshId, client |-> a, secret |-> a, active |-> FALSE, token |-> 0]}
    ELSE {[x EXCEPT !.client = a, !.secret = a] : x \in seen}

OAuthInit(c, a) ==
    LET f == Cardinality(DOMAIN flows) + 1
    IN  /\ f \in Flows
        /\ \E seen \in IF conns = {} THEN {{}} ELSE {{x} : x \in conns} :
              LET rows == Placeholder(seen, a)
              IN  /\ Start(c, [Idling EXCEPT !.op = "init", !.flow = f, !.stage = "save",
                                             !.seen = seen, !.rows = rows])
                  /\ \E y \in rows :
                        flows' = [g \in DOMAIN flows \cup {f} |->
                                    IF g = f THEN [app |-> a, row |-> y.id] ELSE flows[g]]
        /\ UNCHANGED <<server, conns, states, codes, stash, visits, errors, edits, told,
                       done, asked, late>>

\* A new application for all rows of a self-hosted instance, with its secret or
\* without
UpdateApp(c, a) ==
    /\ server \in {"gitlab", "github"} /\ conns # {}
    /\ edits < MaxEdits /\ edits' = edits + 1
    /\ \E withSecret \in BOOLEAN :
          Start(c, [Idling EXCEPT !.op = "update", !.stage = "save", !.seen = conns,
                      !.rows = {[x EXCEPT !.client = a,
                                          !.secret = IF withSecret THEN a ELSE @] : x \in conns}])
    /\ UNCHANGED <<server, conns, flows, states, codes, stash, visits, errors, told,
                   done, asked, late>>

\* The commit of oauth/init or of the new application
Save(c) ==
    LET q == calls[c]
    IN  /\ q.stage = "save"
        /\ IF Gone(q)
           THEN Done(c) /\ UNCHANGED <<conns, asked>>
           ELSE /\ conns' = Put(q) /\ asked' = asked \cup Ids(q.rows)
                /\ IF q.op = "init" THEN Stage(c, "key") ELSE Done(c)
        /\ UNCHANGED <<server, flows, states, codes, stash, visits, errors, edits, told,
                       done, crossed, late>>

StoreState(c) ==
    /\ calls[c].stage = "key"
    /\ states' = [states EXCEPT ![calls[c].flow] = "stored"]
    /\ Done(c)
    /\ UNCHANGED <<server, conns, flows, codes, stash, visits, errors, edits, told,
                   done, asked, crossed, late>>

-----------------------------------------------------------------------------
(* Callbacks: the order of their steps, and of those that were refused or that *)
(* look for an outcome                                                         *)

\* Mutant: the row is not loaded
GitLabRoute_NoLoad == <<"get", "del", "exchange", "commit">>

GitLabRoute    == <<"get", "del", "exchange", "load", "commit">>
GitHubRoute    == <<"get", "del", "load", "exchange", "commit">>
BitbucketRoute == <<"get", "del", "load", "exchange", "commit">>
GitFlicRoute   == <<"peek", "get", "del", "load", "exchange", "commit", "stash">>

Route == CASE server = "gitlab"    -> GitLabRoute
           [] server = "github"    -> GitHubRoute
           [] server = "bitbucket" -> BitbucketRoute
           [] server = "gitflic"   -> GitFlicRoute

StageAfter(s) == LET i == CHOOSE i \in DOMAIN Route : Route[i] = s IN Route[i + 1]

\* Bitbucket's and GitFlic's callbacks are told of a refusal, which makes no
\* code. GitFlic sends a POST of its own and the browser with or without the
\* code.
Visits(f) ==
    {"callback"}
      \cup (IF server = "gitflic" THEN {"post", "back"} ELSE {})
      \cup (IF codes[f] # "none" THEN {}
            ELSE CASE server = "bitbucket" -> {"denied"}
                   [] server = "gitflic"   -> {"denied", "refused"}
                   [] OTHER                -> {})

\* Callbacks so far
Total == Cardinality({t \in Flows \X (1..MaxVisits) : t[2] <= visits[t[1]].posts + visits[t[1]].gets})

Posts == {"post", "refused"}

Visit(c, f) ==
    /\ states[f] # "absent" /\ Total < MaxVisits
    /\ \E op \in Visits(f) :
          /\ Start(c, [Idling EXCEPT !.op = op, !.flow = f,
                                     !.stage = IF op = "back" THEN "peek" ELSE "get"])
          /\ codes' = IF op \in {"callback", "post"} /\ codes[f] = "none"
                      THEN [codes EXCEPT ![f] = "issued"] ELSE codes
          /\ visits' = IF op \in Posts THEN [visits EXCEPT ![f].posts = @ + 1]
                                       ELSE [visits EXCEPT ![f].gets = @ + 1]
    /\ UNCHANGED <<server, conns, flows, states, stash, errors, edits, told, done,
                   asked, late>>

\* A browser hears; a POST leaves its outcome for the browser
Hear(c, what) ==
    LET q == calls[c]
    IN  IF q.op \in Posts
        THEN /\ calls' = [calls EXCEPT ![c] = [q EXCEPT !.stage = "stash", !.got = what]]
             /\ UNCHANGED told
        ELSE /\ Done(c)
             /\ told' = [told EXCEPT ![q.flow] = @ \cup {what}]

\* GET of the outcome. GitFlic's browser without a code looks for it first, the one
\* with a code when its state is spent.
Peek(c) ==
    LET q == calls[c]
    IN  /\ q.stage \in {"peek", "recall"}
        /\ IF stash[q.flow] # "none"
           THEN /\ calls' = [calls EXCEPT ![c] = [q EXCEPT !.stage = "take",
                                                          !.got = stash[q.flow]]]
                /\ UNCHANGED told
           ELSE IF q.stage = "peek" THEN Stage(c, "get") /\ UNCHANGED told
                ELSE Hear(c, "failed")
        /\ UNCHANGED <<server, conns, flows, states, codes, stash, visits, errors, edits,
                       done, asked, crossed, late>>

\* DELETE of the outcome, whichever is there by now; the browser is told of the one read
Take(c) ==
    LET q == calls[c]
    IN  /\ q.stage = "take"
        /\ stash' = [stash EXCEPT ![q.flow] = "none"]
        /\ Hear(c, q.got)
        /\ UNCHANGED <<server, conns, flows, states, codes, visits, errors, edits, done,
                       asked, crossed, late>>

\* Mutant: the browser with a code does not look for the outcome
Recalls_Never(q) == FALSE

\* The browser with a code and a spent state looks for the outcome
Recalls(q) == server = "gitflic" /\ q.op = "callback"

\* GET of the state
GetState(c) ==
    LET q == calls[c]
    IN  /\ q.stage = "get"
        /\ IF states[q.flow] = "stored" THEN Stage(c, "del") /\ UNCHANGED told
           ELSE IF Recalls(q) THEN Stage(c, "recall") /\ UNCHANGED told
           ELSE Hear(c, "failed")
        /\ UNCHANGED <<server, conns, flows, states, codes, stash, visits, errors, edits,
                       done, asked, crossed, late>>

\* DELETE of the state
DeleteState(c) ==
    LET q == calls[c]
    IN  /\ q.stage = "del"
        /\ states' = [states EXCEPT ![q.flow] = "gone"]
        /\ IF q.op \in {"callback", "post"}
           THEN Stage(c, StageAfter("del")) /\ UNCHANGED told
           ELSE Hear(c, "failed")
        /\ UNCHANGED <<server, conns, flows, codes, stash, visits, errors, edits, done,
                       asked, crossed, late>>

\* Mutant: the application of the flow is not written
Connected_KeepsApp(seen, a) ==
    IF seen = {}
    THEN {[id |-> FreshId, client |-> a, secret |-> a, active |-> TRUE, token |-> 0]}
    ELSE {[x EXCEPT !.active = TRUE] : x \in seen}

\* The flow's row as the callback leaves it, tokens apart; a deleted one is
\* made again
Connected(seen, a) ==
    IF seen = {}
    THEN {[id |-> FreshId, client |-> a, secret |-> a, active |-> TRUE, token |-> 0]}
    ELSE {[x EXCEPT !.client = a, !.secret = a, !.active = TRUE] : x \in seen}

LoadRow(c) ==
    LET q == calls[c]
        seen == {x \in conns : x.id = flows[q.flow].row}
    IN  /\ q.stage = "load"
        /\ calls' = [calls EXCEPT ![c] = [q EXCEPT
                        !.stage = StageAfter("load"),
                        !.seen = seen, !.rows = Connected(seen, flows[q.flow].app)]]
        /\ UNCHANGED <<server, conns, flows, states, codes, stash, visits, errors,
                       edits, told, done, asked, crossed, late>>

\* GitHub answers a spent code with 200 and no token in it, the others with an
\* HTTP error. A lost answer is asked for again.
Exchange(c) ==
    LET q == calls[c]
        f == q.flow
        Refuse == IF server = "github" THEN "empty" ELSE "failed"
    IN  /\ q.stage = "exchange"
        /\ \E got \in {"token", "empty", "failed"}, lost \in BOOLEAN :
              /\ lost => errors < MaxErrors
              /\ errors' = IF lost THEN errors + 1 ELSE errors
              /\ \/ ~lost /\ codes[f] = "issued" /\ got = "token"
                 \/ ~lost /\ codes[f] = "spent" /\ got = Refuse
                 \/ lost /\ got \in {Refuse, "failed"}
              /\ \/ codes' = [codes EXCEPT ![f] = "spent"]
                 \/ lost /\ got = "failed" /\ UNCHANGED codes
              /\ IF got = "failed" THEN Hear(c, "failed")
                 ELSE /\ calls' = [calls EXCEPT ![c] = [q EXCEPT !.got = got,
                                      !.stage = StageAfter("exchange")]]
                      /\ UNCHANGED told
        /\ UNCHANGED <<server, conns, flows, states, stash, visits, edits,
                       done, asked, crossed, late>>

GitLabTokens(x, q)    == [x EXCEPT !.token = q.flow]
GitHubTokens(x, q)    == IF q.got = "token" THEN [x EXCEPT !.token = q.flow] ELSE x
BitbucketTokens(x, q) == IF q.got = "token" THEN [x EXCEPT !.token = q.flow] ELSE x
GitFlicTokens(x, q)   == [x EXCEPT !.token = q.flow]

\* The row with the tokens of the answer
WithToken(q) ==
    [q EXCEPT !.rows = {CASE server = "gitlab"    -> GitLabTokens(x, q)
                          [] server = "github"    -> GitHubTokens(x, q)
                          [] server = "bitbucket" -> BitbucketTokens(x, q)
                          [] server = "gitflic"   -> GitFlicTokens(x, q) : x \in @}]

CommitCallback(c) ==
    LET q == WithToken(calls[c])
    IN  /\ q.stage = "commit"
        /\ IF Gone(q) THEN Hear(c, "failed") /\ UNCHANGED <<conns, done, asked>>
           ELSE /\ conns' = Put(q)
                /\ done' = IF q.got = "token" THEN done \cup {q.flow} ELSE done
                /\ asked' = IF q.got = "token" THEN asked \ Ids(q.rows) ELSE asked \cup Ids(q.rows)
                /\ Hear(c, "ok")
        /\ UNCHANGED <<server, flows, states, codes, stash, visits, errors, edits,
                       crossed, late>>

\* The outcome of a POST
StoreOutcome(c) ==
    LET q == calls[c]
    IN  /\ q.stage = "stash"
        /\ stash' = [stash EXCEPT ![q.flow] = q.got]
        /\ Done(c)
        /\ UNCHANGED <<server, conns, flows, states, codes, visits, errors, edits, told,
                       done, asked, crossed, late>>

-----------------------------------------------------------------------------
(* What else happens *)

Expire(f) ==
    /\ \/ /\ states[f] = "stored" /\ states' = [states EXCEPT ![f] = "gone"]
          /\ UNCHANGED <<stash, late>>
       \/ /\ stash[f] # "none" /\ stash' = [stash EXCEPT ![f] = "none"]
          /\ late' = TRUE /\ UNCHANGED states
    /\ UNCHANGED <<server, conns, flows, codes, calls, visits, errors, edits, told,
                   done, asked, crossed>>

\* An admin deletes the placeholder
DeleteConn(x) ==
    /\ edits < MaxEdits /\ edits' = edits + 1
    /\ conns' = conns \ {x}
    /\ UNCHANGED <<server, flows, states, codes, stash, calls, visits, errors, told,
                   done, asked, crossed, late>>

\* The process or the database fails: what is not committed is rolled back
Crash(c) ==
    /\ calls[c].stage # "idle" /\ errors < MaxErrors
    /\ errors' = errors + 1
    /\ Done(c)
    /\ UNCHANGED <<server, conns, flows, states, codes, stash, visits, edits, told, done,
                   asked, crossed, late>>

FlowNext ==
    \/ \E c \in Calls :
         \/ \E a \in Apps : OAuthInit(c, a) \/ UpdateApp(c, a)
         \/ \E f \in Flows : Visit(c, f)
         \/ Save(c) \/ StoreState(c) \/ Peek(c) \/ Take(c) \/ GetState(c) \/ DeleteState(c)
         \/ LoadRow(c) \/ Exchange(c) \/ CommitCallback(c) \/ StoreOutcome(c) \/ Crash(c)
    \/ \E f \in Flows : Expire(f)
    \/ \E x \in conns : DeleteConn(x)

FlowSpec == FlowInit /\ [][FlowNext]_flowVars

-----------------------------------------------------------------------------
(* Properties *)

FlowTypeOK ==
    /\ server \in Servers
    /\ conns \subseteq ConnRow
    /\ \A x, y \in conns : x.id = y.id => x = y
    /\ DOMAIN flows \subseteq Flows
    /\ states \in [Flows -> {"absent", "stored", "gone"}]
    /\ codes \in [Flows -> {"none", "issued", "spent"}]
    /\ stash \in [Flows -> {"none", "ok", "failed"}]
    /\ calls \in [Calls -> FlowCall]
    /\ \A c \in Calls : calls[c].stage = "commit" => Cardinality(calls[c].rows) = 1
    /\ errors \in 0..MaxErrors /\ edits \in 0..MaxEdits
    /\ told \in [Flows -> SUBSET {"ok", "failed"}]
    /\ done \subseteq Flows

\* A browser that is told of a connection has tokens committed for its flow,
\* except at GitHub, whose answer may hold none. GitFlic's browser is told of a
\* failure after the POST has connected only if a call was repeated, lost or
\* overlapped.
ToldTrue ==
    \A f \in Flows :
        /\ "ok" \in told[f] /\ server # "github" => f \in done
        /\ "failed" \in told[f] /\ server = "gitflic" /\ errors = 0 /\ ~crossed /\ ~late
             /\ visits[f].posts <= 1 /\ visits[f].gets <= 1 => f \notin done

\* The tokens of a row were given to the application that the row names, unless
\* another was set afterwards or requests overlapped
AppAgrees ==
    ~crossed => \A x \in conns :
        x.token # 0 /\ x.id \notin asked =>
            x.client = flows[x.token].app /\ x.secret = flows[x.token].app
=============================================================================
