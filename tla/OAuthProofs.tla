----------------------------- MODULE OAuthProofs -----------------------------
(***************************************************************************)
(* What is proved of OAuth credentials, for any number of connections,     *)
(* requests, flows, visits, tokens and errors: of the flows what a browser *)
(* is told (ToldTrue) and which application a row's tokens were given to   *)
(* (AppAgrees), of a group that a refresh that worked alone leaves one     *)
(* token (GroupAgrees) and marks only a group without a usable token       *)
(* (ErrorOnlyExhausted), and that with one grant the usable token is never *)
(* overwritten (GroupUsable).                                              *)
(*                                                                         *)
(* A flow is numbered once and keeps its application. A request's rows     *)
(* have the ids of those that it read. Where no two requests overlap, a    *)
(* request at work finds what it read or finds it deleted, and the past of *)
(* a flow that was visited once by a POST and once by a browser decides    *)
(* what its next visitor can do.                                           *)
(*                                                                         *)
(* GroupUsable rests on a connection that has the newest token of the      *)
(* group from the start: who copies a token that was read does not write   *)
(* to it, and who brings a new one brings the only one that GitLab takes.  *)
(* With two grants there is no such connection, and the property fails     *)
(* when three refreshers overlap.                                          *)
(***************************************************************************)
EXTENDS OAuthFlow, TokenGroup, WellFoundedInduction, FiniteSetTheorems, TLAPS

Started(q)  == q.stage # "idle"
Writing(q)  == Started(q) /\ q.op \in {"init", "update"}
Visiting(q) == Started(q) /\ q.op \notin {"init", "update"}

\* Which operation is at which stage, and with which answer
InOrder(q) ==
    /\ Started(q) /\ q.op # "update" => q.flow \in DOMAIN flows
    /\ q.stage = "save" => q.op \in {"init", "update"}
    /\ q.stage = "key" => q.op = "init"
    /\ q.stage \notin {"idle", "save", "key"} => q.op \notin {"init", "update"}
    /\ q.stage = "peek" => q.op = "back"
    /\ q.stage = "recall" => q.op = "callback"
    /\ q.stage = "take" => q.op \in {"callback", "back"} /\ q.got \in {"ok", "failed"}
    /\ q.stage \in {"load", "exchange", "commit"} => q.op \in {"callback", "post"}
    /\ q.stage = "stash" => q.got \in {"ok", "failed"} /\ q.op \in Posts

\* A row has one id and its token is a flow's
Named(set) == \A x, y \in set : x.id = y.id => x = y
Given(set) == \A x \in set : x.token = 0 \/ x.token \in DOMAIN flows

\* A callback that has loaded its row
HasRow(q) == q.stage = "commit" \/ (q.stage = "exchange" /\ server # "gitlab")

\* What a request has read and written
Copies(q) ==
    /\ Named(q.seen) /\ Named(q.rows) /\ Given(q.seen) /\ Given(q.rows)
    /\ q.seen # {} => Ids(q.rows) = Ids(q.seen)
    /\ HasRow(q) => \E y \in q.rows : /\ q.rows = {y}
                                      /\ y.client = flows[q.flow].app
                                      /\ y.secret = flows[q.flow].app

\* The state of the flows, for any interleaving
Typed ==
    /\ FlowTypeOK
    /\ IsFiniteSet(InUse)
    /\ \E n \in 0..MaxFlows : DOMAIN flows = 1..n
    /\ \A f \in DOMAIN flows : flows[f] \in [app : Apps, row : Nat]
    /\ \A f \in Flows : states[f] # "absent" => f \in DOMAIN flows
    /\ visits \in [Flows -> [posts : Nat, gets : Nat]]
    /\ crossed \in BOOLEAN /\ late \in BOOLEAN
    /\ Given(conns)
    /\ \A c \in Calls : InOrder(calls[c]) /\ Copies(calls[c])

-----------------------------------------------------------------------------

\* GitHub apart, an answer that is committed holds a token, and who is told of
\* a connection, or has read that it was made, has one
Token(q) ==
    /\ q.stage = "commit" \/ (q.stage = "load" /\ server = "gitlab") => q.got = "token"
    /\ q.stage \in {"stash", "take"} /\ q.got = "ok" => q.flow \in done

Connections ==
    server # "github" =>
        /\ \A f \in Flows : /\ "ok" \in told[f] => f \in done
                            /\ stash[f] = "ok" => f \in done
        /\ \A c \in Calls : Token(calls[c])

-----------------------------------------------------------------------------

\* Requests that have not crossed are one at a time
Alone == ~crossed => \A b, c \in Calls : Started(calls[b]) /\ Started(calls[c]) => b = c

\* What a request will write over is there as it was read, or was deleted
StillThere ==
    ~crossed => \A c \in Calls :
        calls[c].stage = "save" \/ HasRow(calls[c]) =>
            \A y \in calls[c].seen : y \in conns \/ y.id \notin Ids(conns)

Calm == server = "gitflic" /\ errors = 0 /\ ~crossed /\ ~late

\* One POST and one browser
Few(f) == visits[f].posts <= 1 /\ visits[f].gets <= 1

Untold(f) == f \notin done /\ told[f] = {} /\ stash[f] = "none"

\* The POST has connected and waits to leave the outcome
Leaving(q, f) == q.flow = f /\ q.stage = "stash" /\ q.got = "ok"

\* What a flow has come to
Past(f) ==
    /\ states[f] # "gone" => Untold(f)
    /\ told[f] # {} => visits[f].gets = 1
    /\ stash[f] # "none" => visits[f].posts = 1
    /\ "failed" \in told[f] => f \notin done
    /\ f \in done => /\ codes[f] # "none"
                     /\ told[f] = {} => \/ stash[f] = "ok"
                                        \/ \E c \in Calls : Leaving(calls[c], f)

\* What a visitor may still find
Now(q) ==
    LET f == q.flow
    IN  /\ states[f] # "absent"
        /\ q.op \in Posts => visits[f].posts = 1 /\ stash[f] = "none"
        /\ q.op \notin Posts => visits[f].gets = 1 /\ told[f] = {}
        /\ q.op \in {"denied", "refused"} => codes[f] = "none"
        /\ q.op \in {"callback", "post"} => codes[f] # "none"
        /\ q.stage \in {"del", "load", "exchange", "commit"} => Untold(f)
        /\ q.stage \in {"load", "exchange", "commit", "stash", "recall", "take"}
             => states[f] = "gone"
        /\ q.op = "back" /\ q.stage \notin {"peek", "take"} => f \notin done
        /\ q.stage = "take" => (f \in done => q.got = "ok")

\* A state is stored once
Unstored(q) == Writing(q) /\ q.op = "init" => states[q.flow] = "absent"

History ==
    Calm =>
        /\ \A f \in Flows : Few(f) => Past(f)
        /\ \A c \in Calls : /\ Unstored(calls[c])
                            /\ Visiting(calls[c]) /\ Few(calls[c].flow) => Now(calls[c])

-----------------------------------------------------------------------------
(* Lemmas about the operators *)

\* There is a number that nothing has for its id
LEMMA IdIsFresh ==
    ASSUME IsFiniteSet(InUse)
    PROVE  FreshId \in Nat /\ FreshId \notin InUse
<1> DEFINE n == Cardinality(InUse)
           I == 1..n + 1
<1>1. n \in Nat
  BY FS_CardinalityType
<1>2. IsFiniteSet(I) /\ Cardinality(I) = n + 1
  <2> HIDE DEF n
  <2>1. 1 \in Int /\ n + 1 \in Int
    BY <1>1
  <2> QED BY <1>1, <2>1, FS_Interval
<1>3. \E i \in I : i \notin InUse
  <2> SUFFICES ASSUME I \subseteq InUse
               PROVE  FALSE
    OBVIOUS
  <2>1. Cardinality(I) <= n
    BY FS_Subset
  <2> HIDE DEF n, I
  <2> QED BY <1>1, <1>2, <2>1
<1>4. FreshId \in I /\ FreshId \notin InUse
  BY <1>3 DEF FreshId
<1>5. I \subseteq Nat
  <2> HIDE DEF n
  <2> QED BY <1>1
<1> QED BY <1>4, <1>5

\* The steps of the four routes
LEMMA NextStages ==
    ASSUME server \in Server
    PROVE  /\ StageAfter("del") = IF server = "gitlab" THEN "exchange" ELSE "load"
           /\ StageAfter("load") = IF server = "gitlab" THEN "commit" ELSE "exchange"
           /\ StageAfter("exchange") = IF server = "gitlab" THEN "load" ELSE "commit"
<1>1. CASE server = "gitlab"
  <2>1. Route = <<"get", "del", "exchange", "load", "commit">>
    BY <1>1 DEF Route, GitLabRoute
  <2>2. DOMAIN Route = 1..5
    BY <2>1
  <2>3. \A i \in 1..5 : /\ Route[i] = "del" <=> i = 2
                        /\ Route[i] = "exchange" <=> i = 3
                        /\ Route[i] = "load" <=> i = 4
    BY <2>1
  <2>4. Route[3] = "exchange" /\ Route[4] = "load" /\ Route[5] = "commit"
    BY <2>1
  <2> QED BY <1>1, <2>2, <2>3, <2>4 DEF StageAfter
<1>2. CASE server \in {"github", "bitbucket"}
  <2>1. Route = <<"get", "del", "load", "exchange", "commit">>
    BY <1>2 DEF Route, GitHubRoute, BitbucketRoute
  <2>2. DOMAIN Route = 1..5
    BY <2>1
  <2>3. \A i \in 1..5 : /\ Route[i] = "del" <=> i = 2
                        /\ Route[i] = "load" <=> i = 3
                        /\ Route[i] = "exchange" <=> i = 4
    BY <2>1
  <2>4. Route[3] = "load" /\ Route[4] = "exchange" /\ Route[5] = "commit"
    BY <2>1
  <2> QED BY <1>2, <2>2, <2>3, <2>4 DEF StageAfter
<1>3. CASE server = "gitflic"
  <2>1. Route = <<"peek", "get", "del", "load", "exchange", "commit", "stash">>
    BY <1>3 DEF Route, GitFlicRoute
  <2>2. DOMAIN Route = 1..7
    BY <2>1
  <2>3. \A i \in 1..7 : /\ Route[i] = "del" <=> i = 3
                        /\ Route[i] = "load" <=> i = 4
                        /\ Route[i] = "exchange" <=> i = 5
    BY <2>1
  <2>4. Route[4] = "load" /\ Route[5] = "exchange" /\ Route[6] = "commit"
    BY <2>1
  <2> QED BY <1>3, <2>2, <2>3, <2>4 DEF StageAfter
<1> QED BY <1>1, <1>2, <1>3 DEF Server

\* A commit keeps the rows' type, their ids and the flows of their tokens
LEMMA PutKeeps ==
    ASSUME conns \subseteq ConnRow, Named(conns), Given(conns),
           NEW q \in FlowCall, ~Gone(q),
           Named(q.rows), Named(q.seen), Given(q.rows), Given(q.seen),
           q.seen # {} => Ids(q.rows) = Ids(q.seen)
    PROVE  /\ Put(q) \subseteq ConnRow /\ Named(Put(q)) /\ Given(Put(q))
           /\ \A x \in Put(q) : \/ x \in conns /\ x.id \notin Ids(q.rows)
                                \/ x.id \in Ids(q.rows)
<1> DEFINE Of(set, i) == CHOOSE x \in set : x.id = i
           Updated(x, old, y) ==
             [id     |-> x.id,
              client |-> IF y.client = old.client THEN x.client ELSE y.client,
              secret |-> IF y.secret = old.secret /\ q.op = "update" THEN x.secret ELSE y.secret,
              active |-> IF y.active = old.active THEN x.active ELSE y.active,
              token  |-> IF y.token = old.token THEN x.token ELSE y.token]
           W(y) == IF q.seen = {} THEN y ELSE Updated(Of(conns, y.id), Of(q.seen, y.id), y)
           Kept == {x \in conns : x.id \notin Ids(q.rows)}
<1>1. Put(q) = Kept \cup {W(y) : y \in q.rows}
  BY DEF Put
<1>2. q.rows \subseteq ConnRow /\ q.seen \subseteq ConnRow
  BY DEF FlowCall
<1>3. ASSUME NEW y \in q.rows
      PROVE  W(y) \in ConnRow /\ W(y).id = y.id
                /\ (W(y).token = 0 \/ W(y).token \in DOMAIN flows)
  <2>1. CASE q.seen = {}
    BY <1>2, <2>1 DEF Given
  <2>2. CASE q.seen # {}
    <3> DEFINE x == Of(conns, y.id)
    <3>1. y.id \in Ids(q.seen) /\ Ids(q.seen) \subseteq Ids(conns)
      BY <2>2 DEF Gone, Ids
    <3>2. x \in conns /\ x.id = y.id
      BY <3>1 DEF Ids
    <3>3. W(y) = Updated(x, Of(q.seen, y.id), y)
      BY <2>2
    <3>4. x \in ConnRow /\ y \in ConnRow /\ (x.token = 0 \/ x.token \in DOMAIN flows)
            /\ (y.token = 0 \/ y.token \in DOMAIN flows)
      BY <1>2, <3>2 DEF Given
    <3> HIDE DEF x, Of, W
    <3> QED BY <3>2, <3>3, <3>4 DEF ConnRow
  <2> QED BY <2>1, <2>2
<1> HIDE DEF W
<1>4. \A x \in Put(q) : \/ x \in Kept
                        \/ \E y \in q.rows : x = W(y)
  BY <1>1
<1>5. Put(q) \subseteq ConnRow /\ Given(Put(q))
  BY <1>3, <1>4 DEF Given
<1>6. ASSUME NEW x \in Put(q)
      PROVE  \/ x \in conns /\ x.id \notin Ids(q.rows)
             \/ x.id \in Ids(q.rows)
  BY <1>3, <1>4 DEF Ids
<1>7. ASSUME NEW x \in Put(q), NEW z \in Put(q), x.id = z.id
      PROVE  x = z
  <2>1. CASE x.id \in Ids(q.rows)
    <3>1. PICK y \in q.rows : x = W(y)
      BY <1>4, <2>1
    <3>2. PICK v \in q.rows : z = W(v)
      BY <1>4, <1>7, <2>1
    <3>3. y = v
      BY <1>3, <1>7, <3>1, <3>2 DEF Named
    <3> QED BY <3>1, <3>2, <3>3
  <2>2. CASE x.id \notin Ids(q.rows)
    BY <1>6, <1>7, <2>2 DEF Named
  <2> QED BY <2>1, <2>2
<1> QED BY <1>5, <1>6, <1>7 DEF Named
-----------------------------------------------------------------------------
(* Types, flows and the requests' copies *)

\* A row that is made or written for a flow has its application
LEMMA RowsMade ==
    ASSUME conns \subseteq ConnRow, NEW seen \in SUBSET ConnRow, Named(seen),
           NEW a \in Apps, NEW fresh \in Nat, fresh = FreshId
    PROVE  /\ Placeholder(seen, a) \subseteq ConnRow /\ Connected(seen, a) \subseteq ConnRow
           /\ Named(Placeholder(seen, a)) /\ Named(Connected(seen, a))
           /\ Given(seen) => Given(Placeholder(seen, a)) /\ Given(Connected(seen, a))
           /\ seen # {} => /\ Ids(Placeholder(seen, a)) = Ids(seen)
                           /\ Ids(Connected(seen, a)) = Ids(seen)
           /\ Ids(Placeholder(seen, a)) \subseteq Ids(seen) \cup {fresh}
           /\ Ids(Connected(seen, a)) \subseteq Ids(seen) \cup {fresh}
           /\ \A x \in Connected(seen, a) : x.client = a /\ x.secret = a
<1>1. CASE seen = {}
  <2>1. /\ Placeholder(seen, a)
             = {[id |-> fresh, client |-> a, secret |-> a, active |-> FALSE, token |-> 0]}
        /\ Connected(seen, a)
             = {[id |-> fresh, client |-> a, secret |-> a, active |-> TRUE, token |-> 0]}
    BY <1>1 DEF Placeholder, Connected
  <2> DEFINE p == [id |-> fresh, client |-> a, secret |-> a, active |-> FALSE, token |-> 0]
             q == [id |-> fresh, client |-> a, secret |-> a, active |-> TRUE, token |-> 0]
  <2>2. p \in ConnRow /\ p.id = fresh /\ p.token = 0
    BY DEF ConnRow
  <2>3. q \in ConnRow /\ q.id = fresh /\ q.token = 0 /\ q.client = a /\ q.secret = a
    BY DEF ConnRow
  <2>4. Placeholder(seen, a) = {p} /\ Connected(seen, a) = {q}
    BY <2>1
  <2> HIDE DEF p, q
  <2>5. Ids({p}) = {fresh} /\ Ids({q}) = {fresh}
    BY <2>2, <2>3 DEF Ids
  <2> QED BY <1>1, <2>2, <2>3, <2>4, <2>5 DEF Named, Given
<1>2. CASE seen # {}
  <2> DEFINE P(x) == [x EXCEPT !.client = a, !.secret = a]
             C(x) == [x EXCEPT !.client = a, !.secret = a, !.active = TRUE]
  <2>1. Placeholder(seen, a) = {P(x) : x \in seen} /\ Connected(seen, a) = {C(x) : x \in seen}
    BY <1>2 DEF Placeholder, Connected
  <2>2. ASSUME NEW x \in seen
        PROVE  /\ P(x) \in ConnRow /\ P(x).id = x.id /\ P(x).token = x.token
               /\ C(x) \in ConnRow /\ C(x).id = x.id /\ C(x).token = x.token
               /\ C(x).client = a /\ C(x).secret = a
    BY DEF ConnRow
  <2> HIDE DEF P, C
  <2>3. Ids(Placeholder(seen, a)) = Ids(seen) /\ Ids(Connected(seen, a)) = Ids(seen)
    <3>1. Ids({P(x) : x \in seen}) = Ids(seen)
      BY <2>2 DEF Ids
    <3>2. Ids({C(x) : x \in seen}) = Ids(seen)
      BY <2>2 DEF Ids
    <3> QED BY <2>1, <3>1, <3>2
  <2>4. Named(Placeholder(seen, a)) /\ Named(Connected(seen, a))
    BY <2>1, <2>2 DEF Named
  <2>5. Given(seen) => Given(Placeholder(seen, a)) /\ Given(Connected(seen, a))
    BY <2>1, <2>2 DEF Given
  <2>6. /\ Placeholder(seen, a) \subseteq ConnRow /\ Connected(seen, a) \subseteq ConnRow
        /\ \A x \in Connected(seen, a) : x.client = a /\ x.secret = a
    BY <2>1, <2>2
  <2> QED BY <2>3, <2>4, <2>5, <2>6
<1> QED BY <1>1, <1>2

\* The ids in use stay finitely many
LEMMA StillFinite ==
    ASSUME IsFiniteSet(InUse), NEW n,
           Ids(conns)' \subseteq InUse \cup {n},
           \A c \in Calls : Ids(calls'[c].rows) \subseteq InUse \cup {n},
           \A f \in DOMAIN flows' : flows'[f].row \in InUse \cup {n}
    PROVE  IsFiniteSet(InUse)'
<1>1. InUse' \subseteq InUse \cup {n}
  <2> SUFFICES ASSUME NEW i \in InUse'
               PROVE  i \in InUse \cup {n}
    OBVIOUS
  <2>1. \/ i \in Ids(conns)'
        \/ \E c \in Calls : i \in Ids(calls'[c].rows)
        \/ \E f \in DOMAIN flows' : i = flows'[f].row
    <3> DEFINE R == {Ids(calls'[c].rows) : c \in Calls}
               F == {flows'[f].row : f \in DOMAIN flows'}
    <3>1. InUse' = Ids(conns)' \cup F \cup UNION R
      BY DEF InUse, Ids
    <3>2. i \in F => \E f \in DOMAIN flows' : i = flows'[f].row
      OBVIOUS
    <3>3. i \in UNION R => \E c \in Calls : i \in Ids(calls'[c].rows)
      OBVIOUS
    <3> HIDE DEF R, F
    <3> QED BY <3>1, <3>2, <3>3
  <2> QED BY <2>1
<1>2. IsFiniteSet(InUse \cup {n})
  BY FS_AddElement
<1> QED BY <1>1, <1>2, FS_Subset

\* What is in use
LEMMA Used ==
    /\ Ids(conns) \subseteq InUse
    /\ \A c \in Calls : Ids(calls[c].rows) \subseteq InUse
    /\ \A f \in DOMAIN flows : flows[f].row \in InUse
<1>1. \A c \in Calls : \A i \in Ids(calls[c].rows) : i \in InUse
  BY DEF InUse
<1>2. \A f \in DOMAIN flows : flows[f].row \in InUse
  BY DEF InUse
<1>3. Ids(conns) \subseteq InUse
  BY DEF InUse
<1> QED BY <1>1, <1>2, <1>3

\* The types of what a step of a request leaves behind
Plain ==
    /\ conns \subseteq ConnRow /\ Named(conns) /\ Given(conns)
    /\ states \in [Flows -> {"absent", "stored", "gone"}]
    /\ \A f \in Flows : states[f] # "absent" => f \in DOMAIN flows
    /\ codes \in [Flows -> {"none", "issued", "spent"}]
    /\ stash \in [Flows -> {"none", "ok", "failed"}]
    /\ errors \in 0..MaxErrors /\ edits \in 0..MaxEdits
    /\ told \in [Flows -> SUBSET {"ok", "failed"}]
    /\ done \subseteq Flows
    /\ visits \in [Flows -> [posts : Nat, gets : Nat]]
    /\ crossed \in BOOLEAN /\ late \in BOOLEAN

LEMMA TypedIsPlain ==
    ASSUME Typed
    PROVE  Plain /\ server \in Server /\ server \in Servers
BY OAuthConstantsOK DEF Typed, Plain, FlowTypeOK, Named

\* A step of a request that makes no flow
LEMMA Moved ==
    ASSUME Typed, server' = server, flows' = flows, Plain',
           NEW c \in Calls, NEW r \in FlowCall, calls' = [calls EXCEPT ![c] = r],
           InOrder(r), Copies(r),
           NEW n, Ids(r.rows) \subseteq InUse \cup {n}, Ids(conns)' \subseteq InUse \cup {n}
    PROVE  Typed'
<1>1. calls' \in [Calls -> FlowCall] /\ calls'[c] = r
        /\ \A d \in Calls : d # c => calls'[d] = calls[d]
  BY DEF Typed, FlowTypeOK
<1>2. \A d \in Calls : InOrder(calls'[d]) /\ Copies(calls'[d])
  BY <1>1 DEF Typed
<1>3. \A q : (InOrder(q) <=> InOrder(q)') /\ (Copies(q) <=> Copies(q)')
  BY DEF InOrder, Copies, HasRow, Given, Named, Started, Posts, Ids
<1>4. (\A d \in Calls : InOrder(calls[d]) /\ Copies(calls[d]))'
  BY <1>2, <1>3
<1>5. IsFiniteSet(InUse)'
  <2>1. \A d \in Calls : Ids(calls'[d].rows) \subseteq InUse \cup {n}
    BY <1>1, Used
  <2> QED BY <2>1, Used, StillFinite DEF Typed
<1>6. ASSUME NEW d \in Calls, calls'[d].stage = "commit"
      PROVE  Cardinality(calls'[d].rows) = 1
  <2>1. PICK y : calls'[d].rows = {y}
    BY <1>2, <1>6 DEF Copies, HasRow
  <2> QED BY <2>1, FS_Singleton
<1>7. FlowTypeOK'
  BY <1>1, <1>6 DEF FlowTypeOK, Typed, Plain, Named
<1> QED BY <1>4, <1>5, <1>7 DEF Typed, Plain

LEMMA IdlingFits ==
    /\ Idling \in FlowCall /\ InOrder(Idling) /\ Copies(Idling)
    /\ Ids(Idling.rows) = {} /\ ~Started(Idling)
<1>1. Idling \in FlowCall
  BY DEF Idling, FlowCall, Ops
<1> QED
  BY <1>1 DEF Idling, InOrder, Copies, HasRow, Named, Given, Started, Ids

StageName == {"idle", "save", "key", "peek", "get", "recall", "take", "del", "load",
              "exchange", "commit", "stash"}
Answer == {"nothing", "token", "empty", "ok", "failed"}
Advanced(q, s, g) == [q EXCEPT !.stage = s, !.got = g]

\* A request that goes to another stage with what it has
LEMMA Advances ==
    ASSUME NEW q \in FlowCall, Copies(q), NEW s \in StageName, NEW g \in Answer,
           NEW r, r = Advanced(q, s, g),
           HasRow(r) => HasRow(q)
    PROVE  /\ r \in FlowCall /\ Copies(r)
           /\ r.op = q.op /\ r.flow = q.flow /\ r.stage = s /\ r.got = g
           /\ r.seen = q.seen /\ r.rows = q.rows
<1>1. /\ r \in FlowCall
      /\ r.op = q.op /\ r.flow = q.flow /\ r.stage = s /\ r.got = g
      /\ r.seen = q.seen /\ r.rows = q.rows
  BY DEF FlowCall, Advanced, StageName, Answer
<1> QED BY <1>1 DEF Copies

\* What one request or the browser is told
LEMMA Hears ==
    ASSUME Typed, NEW c \in Calls, NEW q \in FlowCall, q = calls[c],
           q.stage \notin {"idle", "save", "key"},
           NEW what \in {"ok", "failed"}, Hear(c, what)
    PROVE  /\ told' \in [Flows -> SUBSET {"ok", "failed"}]
           /\ q.flow \in Flows
           /\ \E r \in FlowCall :
                 /\ calls' = [calls EXCEPT ![c] = r]
                 /\ InOrder(r) /\ Copies(r) /\ Ids(r.rows) \subseteq Ids(q.rows)
                 /\ \/ q.op \in Posts /\ r.op = q.op /\ r.flow = q.flow /\ r.stage = "stash"
                         /\ r.got = what /\ told' = told
                    \/ q.op \notin Posts /\ r = Idling
                         /\ told' = [told EXCEPT ![q.flow] = @ \cup {what}]
<1>1. InOrder(q) /\ Copies(q)
  BY DEF Typed
<1>2. q.flow \in DOMAIN flows /\ q.flow \in Flows
  BY <1>1 DEF InOrder, Started, Typed, FlowTypeOK
<1>3. CASE q.op \in Posts
  <2>1. PICK r : r = Advanced(q, "stash", what)
    OBVIOUS
  <2>2. /\ r \in FlowCall /\ Copies(r)
        /\ r.op = q.op /\ r.flow = q.flow /\ r.stage = "stash" /\ r.got = what
        /\ r.rows = q.rows
    <3>1. ~HasRow(r)
      BY <2>1 DEF HasRow, FlowCall, Advanced
    <3>2. "stash" \in StageName /\ what \in Answer
      BY DEF StageName, Answer
    <3> QED BY <1>1, <2>1, <3>1, <3>2, Advances
  <2>3. InOrder(r)
    BY <1>2, <1>3, <2>2 DEF InOrder, Posts, Started
  <2>4. calls' = [calls EXCEPT ![c] = r] /\ told' = told
    BY <1>3, <2>1 DEF Hear, Advanced
  <2>5. told' \in [Flows -> SUBSET {"ok", "failed"}]
    BY <2>4 DEF Typed, FlowTypeOK
  <2> QED BY <1>2, <1>3, <2>2, <2>3, <2>4, <2>5
<1>4. CASE q.op \notin Posts
  <2>1. /\ calls' = [calls EXCEPT ![c] = Idling]
        /\ told' = [told EXCEPT ![q.flow] = @ \cup {what}]
    BY <1>4 DEF Hear, Done
  <2>2. told' \in [Flows -> SUBSET {"ok", "failed"}]
    BY <1>2, <2>1 DEF Typed, FlowTypeOK
  <2>3. PICK r : r = Idling
    OBVIOUS
  <2> QED BY <1>2, <1>4, <2>1, <2>2, <2>3, IdlingFits
<1> QED BY <1>3, <1>4

\* A step of a request that may have made a row
LEMMA MovedFresh ==
    ASSUME Typed, server' = server, flows' = flows, Plain', conns' = conns,
           NEW c \in Calls, NEW r \in FlowCall, calls' = [calls EXCEPT ![c] = r],
           InOrder(r), Copies(r), Ids(r.rows) \subseteq Ids(conns) \cup {FreshId}
    PROVE  Typed'
<1>1. PICK n : n = FreshId
  OBVIOUS
<1>2. Ids(r.rows) \subseteq InUse \cup {n} /\ Ids(conns)' \subseteq InUse \cup {n}
  BY <1>1, Used DEF Ids
<1> QED BY <1>2, Moved

\* A step of a request that leaves the rows alone
LEMMA MovedOn ==
    ASSUME Typed, server' = server, flows' = flows, Plain', conns' = conns,
           NEW c \in Calls, NEW r \in FlowCall, calls' = [calls EXCEPT ![c] = r],
           InOrder(r), Copies(r), Ids(r.rows) \subseteq Ids(calls[c].rows)
    PROVE  Typed'
<1>1. Ids(r.rows) \subseteq InUse /\ Ids(conns)' \subseteq InUse
  BY Used DEF Ids
<1>2. PICK n : n = 0
  OBVIOUS
<1> QED BY <1>1, <1>2, Moved

LEMMA TypedInit ==
    ASSUME FlowInit
    PROVE  Typed
<1>1. \A c \in Calls : calls[c] = Idling
  BY DEF FlowInit
<1>2. Ids(conns) = {} /\ DOMAIN flows = {}
  BY DEF FlowInit, Ids
<1>3. InUse = {}
  <2> DEFINE R == {Ids(calls[c].rows) : c \in Calls}
             F == {flows[f].row : f \in DOMAIN flows}
  <2>1. F = {}
    BY <1>2
  <2>2. \A i : i \notin UNION R
    BY <1>1, IdlingFits
  <2>3. InUse = Ids(conns) \cup F \cup UNION R
    BY DEF InUse
  <2> HIDE DEF R, F
  <2> QED BY <1>2, <2>1, <2>2, <2>3
<1>4. \A c \in Calls : InOrder(calls[c]) /\ Copies(calls[c])
  BY <1>1, IdlingFits
<1>5. DOMAIN flows = 1..0 /\ 0 \in 0..MaxFlows
  BY <1>2, OAuthConstantsOK
<1>6. FlowTypeOK
  <2>1. calls \in [Calls -> FlowCall]
    BY IdlingFits DEF FlowInit
  <2>2. \A c \in Calls : calls[c].stage # "commit"
    BY <1>1 DEF Idling
  <2>3. 0 \in 0..MaxErrors /\ 0 \in 0..MaxEdits
    BY OAuthConstantsOK
  <2> QED BY <1>2, <2>1, <2>2, <2>3 DEF FlowInit, FlowTypeOK
<1> QED BY <1>2, <1>3, <1>4, <1>5, <1>6, FS_EmptySet DEF FlowInit, Typed, Given

\* A new flow brings its application and the row it was made for
LEMMA InitStep ==
    ASSUME Typed, NEW c \in Calls, NEW a \in Apps, OAuthInit(c, a)
    PROVE  /\ Typed'
           /\ \A g \in DOMAIN flows : g \in DOMAIN flows' /\ flows'[g] = flows[g]
           /\ \E r \in FlowCall :
                 /\ calls' = [calls EXCEPT ![c] = r] /\ r.op = "init" /\ r.stage = "save"
                 /\ r.seen \subseteq conns /\ r.flow \in Flows \ DOMAIN flows
<1>1. PICK f : f = Cardinality(DOMAIN flows) + 1
  OBVIOUS
<1>2. PICK seen \in SUBSET conns : \E rows :
        /\ rows = Placeholder(seen, a)
        /\ Start(c, [Idling EXCEPT !.op = "init", !.flow = f, !.stage = "save",
                                   !.seen = seen, !.rows = rows])
        /\ \E y \in rows : flows' = [g \in DOMAIN flows \cup {f} |->
                                       IF g = f THEN [app |-> a, row |-> y.id] ELSE flows[g]]
  <2> DEFINE Choices == IF conns = {} THEN {{}} ELSE {{x} : x \in conns}
             Begins(seen, rows) ==
               /\ Start(c, [Idling EXCEPT !.op = "init", !.flow = f, !.stage = "save",
                                          !.seen = seen, !.rows = rows])
               /\ \E y \in rows : flows' = [g \in DOMAIN flows \cup {f} |->
                                     IF g = f THEN [app |-> a, row |-> y.id] ELSE flows[g]]
  <2>1. \E seen \in Choices : Begins(seen, Placeholder(seen, a))
    BY <1>1 DEF OAuthInit
  <2>2. \A seen \in Choices : seen \in SUBSET conns
    OBVIOUS
  <2>3. PICK seen \in Choices : Begins(seen, Placeholder(seen, a))
    BY <2>1
  <2>4. \E rows : rows = Placeholder(seen, a) /\ Begins(seen, rows)
    BY <2>3
  <2> HIDE DEF Choices
  <2> QED BY <2>2, <2>4
<1>3. PICK rows :
        /\ rows = Placeholder(seen, a)
        /\ Start(c, [Idling EXCEPT !.op = "init", !.flow = f, !.stage = "save",
                                   !.seen = seen, !.rows = rows])
        /\ \E y \in rows : flows' = [g \in DOMAIN flows \cup {f} |->
                                       IF g = f THEN [app |-> a, row |-> y.id] ELSE flows[g]]
  BY <1>2
<1>4. PICK y \in rows : flows' = [g \in DOMAIN flows \cup {f} |->
                                    IF g = f THEN [app |-> a, row |-> y.id] ELSE flows[g]]
  BY <1>3
<1>5. PICK n \in 0..MaxFlows : DOMAIN flows = 1..n
  BY DEF Typed
<1>6. f = n + 1 /\ f \in Flows /\ f \notin DOMAIN flows /\ DOMAIN flows \cup {f} = 1..f
        /\ f \in 0..MaxFlows
  <2>1. n \in Nat /\ Cardinality(1..n) = n
    BY FS_Interval, OAuthConstantsOK
  <2>2. f = n + 1 /\ f \in Flows
    BY <1>1, <1>5, <2>1 DEF OAuthInit
  <2> QED BY <1>5, <2>1, <2>2, OAuthConstantsOK DEF Flows
<1>7. PICK fresh \in Nat : fresh = FreshId
  BY IdIsFresh DEF Typed
<1>8. conns \subseteq ConnRow /\ Named(conns) /\ Given(conns)
  BY TypedIsPlain DEF Plain
<1>9. seen \in SUBSET ConnRow /\ Named(seen) /\ Given(seen)
  BY <1>8 DEF Named, Given
<1>10. /\ rows \subseteq ConnRow /\ Named(rows) /\ Given(rows)
       /\ seen # {} => Ids(rows) = Ids(seen)
       /\ Ids(rows) \subseteq Ids(seen) \cup {fresh}
  BY <1>3, <1>7, <1>8, <1>9, RowsMade
<1>11. PICK r : r = [Idling EXCEPT !.op = "init", !.flow = f, !.stage = "save",
                                   !.seen = seen, !.rows = rows]
  OBVIOUS
<1>12. /\ r \in FlowCall /\ r.op = "init" /\ r.flow = f /\ r.stage = "save"
       /\ r.seen = seen /\ r.rows = rows /\ r.got = "nothing"
  <2>1. r = [op |-> "init", flow |-> f, stage |-> "save", seen |-> seen, rows |-> rows,
             got |-> "nothing"]
    BY <1>11 DEF Idling
  <2>2. f \in Nat
    BY <1>6 DEF Flows
  <2> QED BY <1>9, <1>10, <2>1, <2>2 DEF FlowCall, Ops
<1>13. calls' = [calls EXCEPT ![c] = r]
  BY <1>3, <1>11 DEF Start
<1>14. calls' \in [Calls -> FlowCall] /\ calls'[c] = r
         /\ \A d \in Calls : d # c => calls'[d] = calls[d]
  BY <1>12, <1>13 DEF Typed, FlowTypeOK
<1>15. /\ DOMAIN flows \subseteq DOMAIN flows' /\ f \in DOMAIN flows'
       /\ \A g \in DOMAIN flows : flows'[g] = flows[g]
       /\ DOMAIN flows' = 1..f /\ DOMAIN flows' \subseteq Flows
       /\ flows'[f] = [app |-> a, row |-> y.id]
       /\ \A g \in DOMAIN flows' : g = f \/ g \in DOMAIN flows
  BY <1>4, <1>6 DEF Typed, FlowTypeOK
<1>16. y.id \in Nat /\ y.id \in Ids(rows)
  BY <1>10 DEF Ids, ConnRow
<1>17. server' = server /\ conns' = conns
  BY DEF OAuthInit
<1>18. ASSUME NEW d \in Calls
       PROVE  InOrder(calls[d])' /\ Copies(calls[d])'
  <2>1. PICK q : q = calls'[d]
    OBVIOUS
  <2>2. InOrder(q)' /\ Copies(q)'
    <3>1. CASE d = c
      <4>1. InOrder(q)'
        BY <1>12, <1>14, <1>15, <2>1, <3>1 DEF InOrder, Started
      <4>2. Copies(q)'
        BY <1>9, <1>10, <1>12, <1>14, <1>15, <2>1, <3>1
        DEF Copies, HasRow, Named, Given, Ids
      <4> QED BY <4>1, <4>2
    <3>2. CASE d # c
      <4>1. InOrder(q) /\ Copies(q)
        BY <1>14, <2>1, <3>2 DEF Typed
      <4>2. InOrder(q)'
        BY <1>15, <4>1 DEF InOrder, Started, Posts
      <4>3. Given(q.seen)' /\ Given(q.rows)' /\ Named(q.seen)' /\ Named(q.rows)'
              /\ (Ids(q.rows)' = Ids(q.rows)) /\ (Ids(q.seen)' = Ids(q.seen))
        BY <1>15, <4>1 DEF Copies, Given, Named, Ids
      <4>4. HasRow(q) => flows'[q.flow] = flows[q.flow]
        BY <1>15, <4>1 DEF HasRow, InOrder, Started
      <4> QED BY <1>17, <4>1, <4>2, <4>3, <4>4 DEF Copies, HasRow
    <3> QED BY <3>1, <3>2
  <2> QED BY <2>1, <2>2
<1>19. IsFiniteSet(InUse)'
  <2>1. Ids(seen) \subseteq Ids(conns)
    BY DEF Ids
  <2>2. Ids(rows) \subseteq InUse \cup {fresh}
    BY <1>10, <2>1, Used
  <2>3. \A d \in Calls : Ids(calls'[d].rows) \subseteq InUse \cup {fresh}
    BY <1>12, <1>14, <2>2, Used
  <2>4. Ids(conns)' \subseteq InUse \cup {fresh}
    BY <1>17, Used DEF Ids
  <2>5. \A g \in DOMAIN flows' : flows'[g].row \in InUse \cup {fresh}
    BY <1>15, <1>16, <2>2, Used
  <2> QED BY <2>3, <2>4, <2>5, StillFinite DEF Typed
<1>20. FlowTypeOK'
  <2>1. \A d \in Calls : calls'[d].stage = "commit" => Cardinality(calls'[d].rows) = 1
    BY <1>12, <1>14 DEF Typed, FlowTypeOK
  <2> QED BY <1>14, <1>15, <2>1 DEF OAuthInit, FlowTypeOK, Typed
<1>21. /\ \A g \in DOMAIN flows' : flows'[g] \in [app : Apps, row : Nat]
       /\ \A g \in Flows : states'[g] # "absent" => g \in DOMAIN flows'
       /\ visits' = visits /\ late' = late
  <2>1. [app |-> a, row |-> y.id] \in [app : Apps, row : Nat]
    BY <1>16
  <2>2. \A g \in DOMAIN flows' : flows'[g] \in [app : Apps, row : Nat]
    BY <1>15, <2>1 DEF Typed
  <2>3. states' = states /\ visits' = visits /\ late' = late
    BY DEF OAuthInit
  <2> QED BY <1>15, <2>2, <2>3 DEF Typed
<1>22. crossed' \in BOOLEAN
  BY <1>3 DEF Start, Typed
<1>23. Given(conns)'
  BY <1>15, <1>17, <1>8 DEF Given
<1> QED
  <2>1. (\A d \in Calls : InOrder(calls[d]) /\ Copies(calls[d]))'
    BY <1>18
  <2>2. \E m \in 0..MaxFlows : DOMAIN flows' = 1..m
    BY <1>6, <1>15
  <2>3. Typed'
    BY <1>19, <1>20, <1>21, <1>22, <1>23, <2>1, <2>2 DEF Typed
  <2> QED BY <1>6, <1>12, <1>13, <1>15, <2>3

LEMMA StageMoves ==
    ASSUME Typed, NEW c \in Calls, NEW q \in FlowCall, q = calls[c], NEW s \in StageName,
           s \notin {"exchange", "commit"} \/ HasRow(q) \/ (server = "gitlab" /\ s = "exchange"),
           Stage(c, s)
    PROVE  \E r \in FlowCall :
              /\ calls' = [calls EXCEPT ![c] = r]
              /\ Copies(r) /\ r.op = q.op /\ r.flow = q.flow /\ r.stage = s
              /\ r.seen = q.seen /\ r.rows = q.rows /\ r.got = q.got
<1>1. PICK g : g = q.got
  OBVIOUS
<1>2. PICK r : r = Advanced(q, s, g)
  OBVIOUS
<1>3. g \in Answer /\ Copies(q)
  BY <1>1 DEF FlowCall, Answer, Typed
<1>4. calls' = [calls EXCEPT ![c] = r]
  <2>1. r = [q EXCEPT !.stage = s]
    BY <1>1, <1>2 DEF Advanced, FlowCall
  <2> QED BY <2>1 DEF Stage
<1>5. HasRow(r) => HasRow(q)
  BY <1>2 DEF HasRow, Advanced, FlowCall
<1>6. /\ r \in FlowCall /\ Copies(r)
      /\ r.op = q.op /\ r.flow = q.flow /\ r.stage = s /\ r.got = g
      /\ r.seen = q.seen /\ r.rows = q.rows
  BY <1>2, <1>3, <1>5, Advances
<1> QED BY <1>1, <1>4, <1>6

\* The rows with the tokens of an answer
LEMMA TokensGiven ==
    ASSUME Typed, NEW c \in Calls, NEW q \in FlowCall, q = calls[c],
           q.flow \in DOMAIN flows, NEW w, w = WithToken(q)
    PROVE  /\ w \in FlowCall /\ w.op = q.op /\ w.flow = q.flow /\ w.stage = q.stage
           /\ w.seen = q.seen /\ w.got = q.got
           /\ Ids(w.rows) = Ids(q.rows) /\ Named(w.rows) /\ Given(w.rows)
           /\ \A x \in w.rows : \E y \in q.rows :
                 /\ x.id = y.id /\ x.client = y.client /\ x.secret = y.secret
                 /\ q.got = "token" => x.token = q.flow
<1> DEFINE T(x) == CASE server = "gitlab"    -> GitLabTokens(x, q)
                     [] server = "github"    -> GitHubTokens(x, q)
                     [] server = "bitbucket" -> BitbucketTokens(x, q)
                     [] server = "gitflic"   -> GitFlicTokens(x, q)
           R == {T(x) : x \in q.rows}
<1>1. w = [q EXCEPT !.rows = R]
  BY DEF WithToken
<1>2. q.flow \in Nat /\ q.rows \subseteq ConnRow /\ Named(q.rows) /\ Given(q.rows)
  BY DEF FlowCall, Typed, Copies
<1>3. ASSUME NEW x \in q.rows
      PROVE  /\ T(x) \in ConnRow
             /\ T(x).id = x.id /\ T(x).client = x.client /\ T(x).secret = x.secret
             /\ T(x).token = 0 \/ T(x).token \in DOMAIN flows
             /\ q.got = "token" => T(x).token = q.flow
  <2>1. x \in ConnRow /\ (x.token = 0 \/ x.token \in DOMAIN flows)
    BY <1>2 DEF Given
  <2>2. PICK u : u = [x EXCEPT !.token = q.flow]
    OBVIOUS
  <2>3. /\ u \in ConnRow /\ u.id = x.id /\ u.client = x.client /\ u.secret = x.secret
        /\ u.token = q.flow
    BY <1>2, <2>1, <2>2 DEF ConnRow
  <2>4. T(x) = u \/ (T(x) = x /\ q.got # "token")
    BY <2>2, TypedIsPlain
    DEF Server, GitLabTokens, GitHubTokens, BitbucketTokens, GitFlicTokens
  <2> HIDE DEF T
  <2> QED BY <2>1, <2>3, <2>4
<1> HIDE DEF T
<1>4. R \subseteq ConnRow /\ Named(R) /\ Given(R) /\ Ids(R) = Ids(q.rows)
  <2>1. R \subseteq ConnRow
    BY <1>3
  <2>2. Named(R)
    BY <1>2, <1>3 DEF Named
  <2>3. Given(R)
    BY <1>3 DEF Given
  <2>4. Ids(R) = Ids(q.rows)
    BY <1>3 DEF Ids
  <2> QED BY <2>1, <2>2, <2>3, <2>4
<1>5. \A x \in R : \E y \in q.rows :
         /\ x.id = y.id /\ x.client = y.client /\ x.secret = y.secret
         /\ q.got = "token" => x.token = q.flow
  BY <1>3
<1> HIDE DEF R
<1>6. /\ w \in FlowCall /\ w.op = q.op /\ w.flow = q.flow /\ w.stage = q.stage
      /\ w.seen = q.seen /\ w.got = q.got /\ w.rows = R
  BY <1>1, <1>4 DEF FlowCall
<1> QED BY <1>4, <1>5, <1>6

\* The visit of a callback; what it says is what the proofs about a flow's past use
LEMMA VisitMoves ==
    ASSUME Typed, NEW c \in Calls, NEW f \in Flows, Visit(c, f)
    PROVE  \E r \in FlowCall :
              /\ calls' = [calls EXCEPT ![c] = r] /\ calls[c].stage = "idle"
              /\ r.flow = f /\ r.got = "nothing" /\ r.op \in Visits(f)
              /\ r.op \in {"callback", "denied", "post", "refused", "back"}
              /\ r.stage = IF r.op = "back" THEN "peek" ELSE "get"
              /\ InOrder(r) /\ Copies(r) /\ Ids(r.rows) = {}
              /\ crossed' = (crossed \/ AtWork # {})
              /\ codes' = IF r.op \in {"callback", "post"} /\ codes[f] = "none"
                          THEN [codes EXCEPT ![f] = "issued"] ELSE codes
              /\ visits' = IF r.op \in Posts THEN [visits EXCEPT ![f].posts = @ + 1]
                                             ELSE [visits EXCEPT ![f].gets = @ + 1]
<1>1. PICK op \in Visits(f) :
        /\ Start(c, [Idling EXCEPT !.op = op, !.flow = f,
                                   !.stage = IF op = "back" THEN "peek" ELSE "get"])
        /\ codes' = IF op \in {"callback", "post"} /\ codes[f] = "none"
                    THEN [codes EXCEPT ![f] = "issued"] ELSE codes
        /\ visits' = IF op \in Posts THEN [visits EXCEPT ![f].posts = @ + 1]
                                     ELSE [visits EXCEPT ![f].gets = @ + 1]
  BY DEF Visit
<1>2. op \in {"callback", "denied", "post", "refused", "back"}
  BY TypedIsPlain DEF Visits, Server
<1>3. PICK r : r = [Idling EXCEPT !.op = op, !.flow = f,
                                  !.stage = IF op = "back" THEN "peek" ELSE "get"]
  OBVIOUS
<1>4. r = [op |-> op, flow |-> f, stage |-> IF op = "back" THEN "peek" ELSE "get",
           seen |-> {}, rows |-> {}, got |-> "nothing"]
  BY <1>3 DEF Idling
<1>5. r \in FlowCall
  <2>1. f \in Nat
    BY DEF Flows
  <2> QED BY <1>2, <1>4, <2>1 DEF FlowCall, Ops
<1>6. f \in DOMAIN flows
  BY DEF Typed, Visit
<1>7. InOrder(r)
  BY <1>2, <1>4, <1>6 DEF InOrder, Started
<1>8. Copies(r) /\ Ids(r.rows) = {}
  BY <1>4 DEF Copies, HasRow, Named, Given, Ids
<1>9. /\ calls' = [calls EXCEPT ![c] = r] /\ calls[c].stage = "idle"
      /\ crossed' = (crossed \/ AtWork # {})
  BY <1>1, <1>3 DEF Start
<1> QED BY <1>1, <1>2, <1>4, <1>5, <1>7, <1>8, <1>9

\* A new application for the rows
LEMMA UpdateMoves ==
    ASSUME Typed, NEW c \in Calls, NEW a \in Apps, UpdateApp(c, a)
    PROVE  \E r \in FlowCall :
              /\ calls' = [calls EXCEPT ![c] = r] /\ calls[c].stage = "idle"
              /\ r.op = "update" /\ r.stage = "save" /\ r.seen = conns
              /\ InOrder(r) /\ Copies(r) /\ Ids(r.rows) \subseteq Ids(conns)
              /\ crossed' = (crossed \/ AtWork # {})
<1> DEFINE N(x, new) == [x EXCEPT !.client = a, !.secret = IF new THEN a ELSE @]
<1>1. PICK new \in BOOLEAN :
        Start(c, [Idling EXCEPT !.op = "update", !.stage = "save", !.seen = conns,
                    !.rows = {N(x, new) : x \in conns}])
  BY DEF UpdateApp
<1>2. conns \subseteq ConnRow /\ Named(conns) /\ Given(conns) /\ conns # {}
  BY TypedIsPlain DEF Plain, UpdateApp
<1>3. PICK rows : rows = {N(x, new) : x \in conns}
  OBVIOUS
<1>4. ASSUME NEW x \in conns
      PROVE  N(x, new) \in ConnRow /\ N(x, new).id = x.id /\ N(x, new).token = x.token
  BY <1>2 DEF ConnRow
<1> HIDE DEF N
<1>5. rows \subseteq ConnRow /\ Named(rows) /\ Given(rows) /\ Ids(rows) = Ids(conns)
  <2>1. rows \subseteq ConnRow
    BY <1>3, <1>4
  <2>2. Named(rows)
    BY <1>2, <1>3, <1>4 DEF Named
  <2>3. Given(rows)
    BY <1>2, <1>3, <1>4 DEF Given
  <2>4. Ids(rows) = Ids(conns)
    BY <1>3, <1>4 DEF Ids
  <2> QED BY <2>1, <2>2, <2>3, <2>4
<1>6. PICK r : r = [Idling EXCEPT !.op = "update", !.stage = "save", !.seen = conns,
                                  !.rows = rows]
  OBVIOUS
<1>7. r = [op |-> "update", flow |-> 0, stage |-> "save", seen |-> conns, rows |-> rows,
           got |-> "nothing"]
  BY <1>6 DEF Idling
<1>8. r \in FlowCall
  BY <1>2, <1>5, <1>7 DEF FlowCall, Ops
<1>9. InOrder(r)
  BY <1>7 DEF InOrder
<1>10. Copies(r)
  BY <1>2, <1>5, <1>7 DEF Copies, HasRow
<1>11. /\ calls' = [calls EXCEPT ![c] = r] /\ calls[c].stage = "idle"
       /\ crossed' = (crossed \/ AtWork # {})
  BY <1>1, <1>3, <1>6 DEF Start
<1> QED BY <1>5, <1>7, <1>8, <1>9, <1>10, <1>11

\* The row of a flow, loaded and with the flow's application
LEMMA LoadMoves ==
    ASSUME Typed, NEW c \in Calls, NEW q \in FlowCall, q = calls[c], LoadRow(c)
    PROVE  \E r \in FlowCall :
              /\ calls' = [calls EXCEPT ![c] = r]
              /\ r.op = q.op /\ r.flow = q.flow /\ r.got = q.got
              /\ r.stage = IF server = "gitlab" THEN "commit" ELSE "exchange"
              /\ r.seen \subseteq conns
              /\ InOrder(r) /\ Copies(r) /\ Ids(r.rows) \subseteq Ids(conns) \cup {FreshId}
<1>1. q.stage = "load" /\ InOrder(q) /\ Copies(q)
  BY DEF LoadRow, Typed
<1>2. PICK a : a = flows[q.flow].app
  OBVIOUS
<1>3. PICK seen : seen = {x \in conns : x.id = flows[q.flow].row}
  OBVIOUS
<1>4. PICK rows : rows = Connected(seen, a)
  OBVIOUS
<1>5. PICK s : s = IF server = "gitlab" THEN "commit" ELSE "exchange"
  OBVIOUS
<1>6. q.flow \in DOMAIN flows /\ a \in Apps
  BY <1>1, <1>2 DEF InOrder, Started, Typed
<1>7. conns \subseteq ConnRow /\ Named(conns) /\ Given(conns)
  BY TypedIsPlain DEF Plain
<1>8. seen \in SUBSET conns /\ seen \in SUBSET ConnRow /\ Named(seen) /\ Given(seen)
        /\ Ids(seen) \subseteq Ids(conns)
  BY <1>3, <1>7 DEF Named, Given, Ids
<1>9. PICK fresh \in Nat : fresh = FreshId
  BY IdIsFresh DEF Typed
<1>10. /\ rows \subseteq ConnRow /\ Named(rows) /\ Given(rows)
       /\ seen # {} => Ids(rows) = Ids(seen)
       /\ Ids(rows) \subseteq Ids(seen) \cup {fresh}
       /\ \A x \in rows : x.client = a /\ x.secret = a
  BY <1>4, <1>6, <1>7, <1>8, <1>9, RowsMade
<1>11. \E y : rows = {y}
  <2>1. CASE seen = {}
    BY <1>4, <2>1 DEF Connected
  <2>2. CASE seen # {}
    <3>1. PICK x \in seen : TRUE
      BY <2>2
    <3>2. seen = {x}
      BY <1>3, <1>7, <3>1 DEF Named
    <3>3. rows = {[z EXCEPT !.client = a, !.secret = a, !.active = TRUE] : z \in {x}}
      BY <1>4, <2>2, <3>2 DEF Connected
    <3> QED BY <3>3
  <2> QED BY <2>1, <2>2
<1>12. PICK r : r = [q EXCEPT !.stage = s, !.seen = seen, !.rows = rows]
  OBVIOUS
<1>13. /\ r \in FlowCall /\ r.op = q.op /\ r.flow = q.flow /\ r.got = q.got
       /\ r.stage = s /\ r.seen = seen /\ r.rows = rows
  BY <1>5, <1>8, <1>10, <1>12 DEF FlowCall
<1>14. calls' = [calls EXCEPT ![c] = r]
  <2>1. s = StageAfter("load")
    BY <1>5, TypedIsPlain, NextStages
  <2> QED BY <1>2, <1>3, <1>4, <1>12, <2>1 DEF LoadRow
<1>15. InOrder(r)
  BY <1>1, <1>5, <1>6, <1>13 DEF InOrder, Started
<1>16. Copies(r)
  BY <1>2, <1>8, <1>10, <1>11, <1>13 DEF Copies
<1> QED BY <1>5, <1>8, <1>9, <1>10, <1>13, <1>14, <1>15, <1>16

\* A browser looks for its flow's outcome
LEMMA PeekMoves ==
    ASSUME Typed, NEW c \in Calls, NEW q \in FlowCall, q = calls[c], Peek(c)
    PROVE  /\ q.stage \in {"peek", "recall"} /\ q.op \in {"callback", "back"}
           /\ q.op \notin Posts /\ q.flow \in Flows
           /\ \/ /\ stash[q.flow] \in {"ok", "failed"} /\ told' = told
                 /\ \E r \in FlowCall :
                       /\ calls' = [calls EXCEPT ![c] = r]
                       /\ r.op = q.op /\ r.flow = q.flow /\ r.stage = "take"
                       /\ r.got = stash[q.flow] /\ r.seen = q.seen /\ r.rows = q.rows
                       /\ InOrder(r) /\ Copies(r)
              \/ /\ stash[q.flow] = "none" /\ q.stage = "peek" /\ q.op = "back"
                 /\ Stage(c, "get") /\ told' = told
              \/ stash[q.flow] = "none" /\ q.stage = "recall" /\ Hear(c, "failed")
<1>1. q.stage \in {"peek", "recall"} /\ InOrder(q) /\ Copies(q)
  BY DEF Peek, Typed
<1>2. /\ q.op \in {"callback", "back"} /\ q.op \notin Posts
      /\ q.stage = "peek" => q.op = "back"
  BY <1>1 DEF InOrder, Posts
<1>3. q.flow \in DOMAIN flows /\ q.flow \in Flows
  BY <1>1, <1>2 DEF InOrder, Started, Typed, FlowTypeOK
<1>4. stash[q.flow] \in {"none", "ok", "failed"}
  BY <1>3 DEF Typed, FlowTypeOK
<1>5. CASE stash[q.flow] # "none"
  <2>1. PICK what \in {"ok", "failed"} : what = stash[q.flow]
    BY <1>4, <1>5
  <2>2. PICK r : r = Advanced(q, "take", what)
    OBVIOUS
  <2>3. PICK s : s = "take"
    OBVIOUS
  <2>4. s \in StageName /\ what \in Answer /\ r = Advanced(q, s, what)
    BY <2>2, <2>3 DEF StageName, Answer
  <2>5. ~HasRow(r)
    BY <2>2 DEF HasRow, Advanced, FlowCall
  <2>6. /\ r \in FlowCall /\ Copies(r)
        /\ r.op = q.op /\ r.flow = q.flow /\ r.stage = s /\ r.got = what
        /\ r.seen = q.seen /\ r.rows = q.rows
    BY <1>1, <2>4, <2>5, Advances
  <2>7. InOrder(r)
    BY <1>2, <1>3, <2>3, <2>6 DEF InOrder, Started
  <2>8. calls' = [calls EXCEPT ![c] = r] /\ told' = told
    BY <1>5, <2>1, <2>2 DEF Peek, Advanced
  <2> QED BY <1>1, <1>2, <1>3, <1>4, <1>5, <2>1, <2>3, <2>6, <2>7, <2>8
<1>6. CASE stash[q.flow] = "none"
  BY <1>1, <1>2, <1>3, <1>6 DEF Peek
<1> QED BY <1>5, <1>6

\* The answer to a code
LEMMA ExchangeMoves ==
    ASSUME Typed, NEW c \in Calls, NEW q \in FlowCall, q = calls[c], Exchange(c)
    PROVE  /\ q.stage = "exchange" /\ q.flow \in Flows
           /\ errors' \in 0..MaxErrors /\ errors' >= errors
           /\ codes' = codes \/ codes' = [codes EXCEPT ![q.flow] = "spent"]
           /\ \/ Hear(c, "failed")
              \/ /\ told' = told
                 /\ \E r \in FlowCall :
                       /\ calls' = [calls EXCEPT ![c] = r]
                       /\ r.op = q.op /\ r.flow = q.flow
                       /\ r.stage = IF server = "gitlab" THEN "load" ELSE "commit"
                       /\ r.seen = q.seen /\ r.rows = q.rows
                       /\ server # "github" => r.got = "token"
                       /\ InOrder(r) /\ Copies(r)
<1>1. q.stage = "exchange" /\ InOrder(q) /\ Copies(q)
  BY DEF Exchange, Typed
<1>2. q.flow \in DOMAIN flows /\ q.flow \in Flows
  BY <1>1 DEF InOrder, Started, Typed, FlowTypeOK
<1>3. PICK refuse : refuse = IF server = "github" THEN "empty" ELSE "failed"
  OBVIOUS
<1>4. PICK got \in {"token", "empty", "failed"}, fail \in BOOLEAN :
        /\ fail => errors < MaxErrors
        /\ errors' = IF fail THEN errors + 1 ELSE errors
        /\ \/ ~fail /\ codes[q.flow] = "issued" /\ got = "token"
           \/ ~fail /\ codes[q.flow] = "spent" /\ got = refuse
           \/ fail /\ got \in {refuse, "failed"}
        /\ \/ codes' = [codes EXCEPT ![q.flow] = "spent"]
           \/ fail /\ got = "failed" /\ UNCHANGED codes
        /\ IF got = "failed" THEN Hear(c, "failed")
           ELSE /\ calls' = [calls EXCEPT ![c] = [q EXCEPT !.got = got,
                                !.stage = StageAfter("exchange")]]
                /\ UNCHANGED told
  BY <1>3 DEF Exchange
<1>5. errors' \in 0..MaxErrors /\ errors' >= errors
  BY <1>4, OAuthConstantsOK DEF Typed, FlowTypeOK
<1>6. CASE got = "failed"
  BY <1>1, <1>2, <1>4, <1>5, <1>6
<1>7. CASE got # "failed"
  <2>1. PICK s : s = IF server = "gitlab" THEN "load" ELSE "commit"
    OBVIOUS
  <2>2. s = StageAfter("exchange") /\ s \in StageName /\ got \in Answer
    BY <1>7, <2>1, TypedIsPlain, NextStages DEF StageName, Answer
  <2>3. PICK r : r = Advanced(q, s, got)
    OBVIOUS
  <2>4. calls' = [calls EXCEPT ![c] = r] /\ told' = told
    BY <1>4, <1>7, <2>2, <2>3 DEF Advanced, FlowCall
  <2>5. HasRow(r) => HasRow(q)
    BY <1>1, <2>1, <2>3 DEF HasRow, Advanced, FlowCall
  <2>6. /\ r \in FlowCall /\ Copies(r)
        /\ r.op = q.op /\ r.flow = q.flow /\ r.stage = s /\ r.got = got
        /\ r.seen = q.seen /\ r.rows = q.rows
    BY <1>1, <2>2, <2>3, <2>5, Advances
  <2>7. InOrder(r)
    BY <1>1, <1>2, <2>1, <2>6 DEF InOrder, Started
  <2>8. server # "github" => got = "token"
    BY <1>3, <1>4, <1>7
  <2> QED BY <1>1, <1>2, <1>4, <1>5, <2>1, <2>4, <2>6, <2>7, <2>8
<1> QED BY <1>6, <1>7

\* A request or a browser hears, and nothing else changes that the types tell
LEMMA HearKeeps ==
    ASSUME Typed, NEW c \in Calls, calls[c].stage \notin {"idle", "save", "key"},
           NEW what \in {"ok", "failed"}, Hear(c, what),
           server' = server, flows' = flows, Plain',
           NEW n, Ids(conns)' \subseteq InUse \cup {n}
    PROVE  Typed'
<1>1. PICK q \in FlowCall : q = calls[c]
  BY DEF Typed, FlowTypeOK
<1>2. PICK r \in FlowCall :
         /\ calls' = [calls EXCEPT ![c] = r]
         /\ InOrder(r) /\ Copies(r) /\ Ids(r.rows) \subseteq Ids(q.rows)
  BY <1>1, Hears
<1>3. Ids(r.rows) \subseteq InUse \cup {n}
  BY <1>1, <1>2, Used
<1> QED BY <1>2, <1>3, Moved

LEMMA TypedStep ==
    ASSUME Typed, [FlowNext]_flowVars
    PROVE  Typed'
<1>1. Plain /\ server \in Server /\ server \in Servers
  BY TypedIsPlain
<1>2. \A c \in Calls : /\ calls[c] \in FlowCall /\ InOrder(calls[c]) /\ Copies(calls[c])
                       /\ calls[c].stage # "idle" /\ calls[c].op # "update"
                            => calls[c].flow \in DOMAIN flows /\ calls[c].flow \in Flows
  BY DEF Typed, FlowTypeOK, InOrder, Started
<1>3. ASSUME NEW c \in Calls, NEW a \in Apps, OAuthInit(c, a)
      PROVE  Typed'
  BY <1>3, InitStep
<1>4. ASSUME NEW c \in Calls, NEW a \in Apps, UpdateApp(c, a)
      PROVE  Typed'
  <2>1. PICK r \in FlowCall :
           /\ calls' = [calls EXCEPT ![c] = r]
           /\ InOrder(r) /\ Copies(r) /\ Ids(r.rows) \subseteq Ids(conns)
           /\ crossed' = (crossed \/ AtWork # {})
    BY <1>4, UpdateMoves
  <2>2. Plain' /\ server' = server /\ flows' = flows /\ conns' = conns
    <3>1. edits' \in 0..MaxEdits
      BY <1>1, <1>4, OAuthConstantsOK DEF UpdateApp, Plain
    <3>2. crossed' \in BOOLEAN
      BY <1>1, <2>1 DEF Plain
    <3> QED BY <1>1, <1>4, <3>1, <3>2 DEF UpdateApp, Plain, Given, Named
  <2>3. Ids(r.rows) \subseteq InUse \cup {0} /\ Ids(conns)' \subseteq InUse \cup {0}
    BY <2>1, <2>2, Used DEF Ids
  <2>4. PICK n : n = 0
    OBVIOUS
  <2> QED BY <2>1, <2>2, <2>3, <2>4, Moved
<1>5. ASSUME NEW c \in Calls, NEW f \in Flows, Visit(c, f)
      PROVE  Typed'
  <2>1. PICK r \in FlowCall :
           /\ calls' = [calls EXCEPT ![c] = r]
           /\ InOrder(r) /\ Copies(r) /\ Ids(r.rows) = {}
           /\ crossed' = (crossed \/ AtWork # {})
           /\ codes' = IF r.op \in {"callback", "post"} /\ codes[f] = "none"
                       THEN [codes EXCEPT ![f] = "issued"] ELSE codes
           /\ visits' = IF r.op \in Posts THEN [visits EXCEPT ![f].posts = @ + 1]
                                          ELSE [visits EXCEPT ![f].gets = @ + 1]
    BY <1>5, VisitMoves
  <2>2. Plain' /\ server' = server /\ flows' = flows /\ conns' = conns
    <3>1. visits' \in [Flows -> [posts : Nat, gets : Nat]]
      <4>1. visits[f] \in [posts : Nat, gets : Nat]
        BY <1>1 DEF Plain
      <4>2. /\ [visits[f] EXCEPT !.posts = @ + 1] \in [posts : Nat, gets : Nat]
            /\ [visits[f] EXCEPT !.gets = @ + 1] \in [posts : Nat, gets : Nat]
        BY <4>1
      <4>3. \/ visits' = [visits EXCEPT ![f] = [visits[f] EXCEPT !.posts = @ + 1]]
            \/ visits' = [visits EXCEPT ![f] = [visits[f] EXCEPT !.gets = @ + 1]]
        BY <2>1
      <4> QED BY <1>1, <4>2, <4>3 DEF Plain
    <3>2. codes' \in [Flows -> {"none", "issued", "spent"}]
      BY <1>1, <2>1 DEF Plain
    <3>3. crossed' \in BOOLEAN
      BY <1>1, <2>1 DEF Plain
    <3>4. /\ server' = server /\ flows' = flows /\ conns' = conns /\ states' = states
          /\ stash' = stash /\ errors' = errors /\ edits' = edits /\ told' = told
          /\ done' = done /\ late' = late
      BY <1>5 DEF Visit
    <3> QED BY <1>1, <3>1, <3>2, <3>3, <3>4 DEF Plain, Given, Named
  <2> QED BY <2>1, <2>2, MovedOn
<1>6. ASSUME NEW c \in Calls, Save(c)
      PROVE  Typed'
  <2>1. PICK q \in FlowCall : q = calls[c]
    BY <1>2
  <2>2. q.stage = "save" /\ InOrder(q) /\ Copies(q)
    BY <1>2, <1>6, <2>1 DEF Save
  <2>3. CASE Gone(q)
    <3>1. calls' = [calls EXCEPT ![c] = Idling] /\ conns' = conns
      BY <1>6, <2>1, <2>3 DEF Save, Done
    <3>2. Plain' /\ server' = server /\ flows' = flows
      BY <1>1, <1>6, <3>1 DEF Save, Plain, Given, Named
    <3> QED BY <2>1, <3>1, <3>2, IdlingFits, MovedOn
  <2>4. CASE ~Gone(q)
    <3>1. /\ Put(q) \subseteq ConnRow /\ Named(Put(q)) /\ Given(Put(q))
          /\ \A x \in Put(q) : \/ x \in conns /\ x.id \notin Ids(q.rows)
                               \/ x.id \in Ids(q.rows)
      BY <1>1, <2>2, <2>4, PutKeeps DEF Plain, Copies
    <3>2. conns' = Put(q) /\ server' = server /\ flows' = flows
      BY <1>6, <2>1, <2>4 DEF Save
    <3>3. Plain'
      <4>1. conns' \subseteq ConnRow /\ Named(conns') /\ Given(conns)'
        BY <3>1, <3>2 DEF Given
      <4>2. Named(conns)'
        BY <4>1 DEF Named
      <4> QED BY <1>1, <1>6, <4>1, <4>2 DEF Save, Plain
    <3>4. Ids(conns)' \subseteq InUse
      <4>1. \A x \in Put(q) : x.id \in InUse
        BY <2>1, <3>1, Used DEF Ids
      <4> QED BY <3>2, <4>1 DEF Ids
    <3>5. PICK r \in FlowCall : /\ calls' = [calls EXCEPT ![c] = r]
                                /\ InOrder(r) /\ Copies(r) /\ Ids(r.rows) \subseteq Ids(q.rows)
      <4>1. CASE q.op = "init"
        <5>1. Stage(c, "key")
          BY <1>6, <2>1, <2>4, <4>1 DEF Save
        <5>2. PICK r \in FlowCall :
                 /\ calls' = [calls EXCEPT ![c] = r]
                 /\ Copies(r) /\ r.op = q.op /\ r.flow = q.flow /\ r.stage = "key"
                 /\ r.rows = q.rows
          <6>1. PICK s : s = "key"
            OBVIOUS
          <6>2. s \in StageName /\ s \notin {"exchange", "commit"} /\ Stage(c, s)
            BY <5>1, <6>1 DEF StageName
          <6> QED BY <2>1, <6>1, <6>2, StageMoves
        <5>3. InOrder(r)
          BY <2>2, <4>1, <5>2 DEF InOrder, Started
        <5> QED BY <5>2, <5>3
      <4>2. CASE q.op # "init"
        <5>1. calls' = [calls EXCEPT ![c] = Idling]
          BY <1>6, <2>1, <2>4, <4>2 DEF Save, Done
        <5> QED BY <5>1, IdlingFits
      <4> QED BY <4>1, <4>2
    <3>6. PICK n : n = 0
      OBVIOUS
    <3>7. Ids(r.rows) \subseteq InUse
      BY <2>1, <3>5, Used
    <3> QED BY <3>2, <3>3, <3>4, <3>5, <3>6, <3>7, Moved
  <2> QED BY <2>3, <2>4
<1>7. ASSUME NEW c \in Calls, StoreState(c)
      PROVE  Typed'
  <2>1. calls[c].flow \in DOMAIN flows /\ calls[c].flow \in Flows
    BY <1>2, <1>7 DEF StoreState, InOrder
  <2>2. calls' = [calls EXCEPT ![c] = Idling] /\ conns' = conns
          /\ states' = [states EXCEPT ![calls[c].flow] = "stored"]
    BY <1>7 DEF StoreState, Done
  <2>3. Plain' /\ server' = server /\ flows' = flows
    BY <1>1, <1>7, <2>1, <2>2 DEF StoreState, Plain, Given, Named
  <2> QED BY <2>2, <2>3, IdlingFits, MovedOn
<1>8. ASSUME NEW c \in Calls, Peek(c)
      PROVE  Typed'
  <2>1. PICK q \in FlowCall : q = calls[c]
    BY <1>2
  <2>2. /\ q.stage \in {"peek", "recall"} /\ q.flow \in Flows /\ InOrder(q)
        /\ server' = server /\ flows' = flows /\ conns' = conns
    BY <1>2, <1>8, <2>1, PeekMoves DEF Peek
  <2>3. CASE Stage(c, "get") /\ told' = told /\ q.op = "back"
    <3>1. PICK s : s = "get"
      OBVIOUS
    <3>2. s \in StageName /\ s \notin {"exchange", "commit"} /\ Stage(c, s)
      BY <2>3, <3>1 DEF StageName
    <3>3. PICK r \in FlowCall :
             /\ calls' = [calls EXCEPT ![c] = r]
             /\ Copies(r) /\ r.op = q.op /\ r.flow = q.flow /\ r.stage = s
             /\ r.rows = q.rows
      BY <2>1, <3>2, StageMoves
    <3>4. InOrder(r)
      BY <2>2, <3>1, <3>3 DEF InOrder, Started
    <3>5. Plain'
      BY <1>1, <1>8, <2>3 DEF Peek, Plain, Given, Named
    <3> QED BY <2>1, <2>2, <3>3, <3>4, <3>5, MovedOn
  <2>4. CASE \E r \in FlowCall : /\ calls' = [calls EXCEPT ![c] = r] /\ r.rows = q.rows
                                /\ InOrder(r) /\ Copies(r) /\ told' = told
    <3>1. PICK r \in FlowCall : /\ calls' = [calls EXCEPT ![c] = r] /\ r.rows = q.rows
                                /\ InOrder(r) /\ Copies(r) /\ told' = told
      BY <2>4
    <3>2. Plain'
      BY <1>1, <1>8, <3>1 DEF Peek, Plain, Given, Named
    <3> QED BY <2>1, <2>2, <3>1, <3>2, MovedOn
  <2>5. CASE Hear(c, "failed")
    <3>1. PICK what \in {"ok", "failed"} : what = "failed"
      OBVIOUS
    <3>2. told' \in [Flows -> SUBSET {"ok", "failed"}]
      BY <2>1, <2>2, <2>5, <3>1, Hears
    <3>3. Plain'
      BY <1>1, <1>8, <3>2 DEF Peek, Plain, Given, Named
    <3>4. PICK n : n = 0
      OBVIOUS
    <3>5. Ids(conns)' \subseteq InUse \cup {n}
      BY <2>2, Used DEF Ids
    <3> QED BY <2>1, <2>2, <2>5, <3>1, <3>3, <3>5, HearKeeps
  <2> QED BY <1>8, <2>1, <2>3, <2>4, <2>5, PeekMoves
<1>9. ASSUME NEW c \in Calls, GetState(c)
      PROVE  Typed'
  <2>1. PICK q \in FlowCall : q = calls[c]
    BY <1>2
  <2>2. q.stage = "get" /\ q.flow \in DOMAIN flows /\ q.flow \in Flows /\ InOrder(q)
    BY <1>2, <1>9, <2>1 DEF GetState, InOrder
  <2>3. CASE states[q.flow] = "stored"
    <3>1. PICK s : s = "del"
      OBVIOUS
    <3>2. s \in StageName /\ s \notin {"exchange", "commit"} /\ Stage(c, s)
      BY <1>9, <2>1, <2>3, <3>1 DEF GetState, StageName
    <3>3. PICK r \in FlowCall :
             /\ calls' = [calls EXCEPT ![c] = r]
             /\ Copies(r) /\ r.op = q.op /\ r.flow = q.flow /\ r.stage = s
             /\ r.rows = q.rows
      BY <2>1, <3>2, StageMoves
    <3>4. InOrder(r)
      BY <2>2, <3>1, <3>3 DEF InOrder, Started
    <3>5. Plain' /\ server' = server /\ flows' = flows /\ conns' = conns
      BY <1>1, <1>9, <2>1, <2>3 DEF GetState, Plain, Given, Named
    <3> QED BY <2>1, <3>3, <3>4, <3>5, MovedOn
  <2>4. CASE states[q.flow] # "stored" /\ Recalls(q)
    <3>1. PICK s : s = "recall"
      OBVIOUS
    <3>2. s \in StageName /\ s \notin {"exchange", "commit"} /\ Stage(c, s)
      BY <1>9, <2>1, <2>4, <3>1 DEF GetState, StageName
    <3>3. PICK r \in FlowCall :
             /\ calls' = [calls EXCEPT ![c] = r]
             /\ Copies(r) /\ r.op = q.op /\ r.flow = q.flow /\ r.stage = s
             /\ r.rows = q.rows
      BY <2>1, <3>2, StageMoves
    <3>4. InOrder(r)
      BY <2>2, <2>4, <3>1, <3>3 DEF InOrder, Started, Recalls
    <3>5. Plain' /\ server' = server /\ flows' = flows /\ conns' = conns
      BY <1>1, <1>9, <2>1, <2>4 DEF GetState, Plain, Given, Named
    <3> QED BY <2>1, <3>3, <3>4, <3>5, MovedOn
  <2>5. CASE states[q.flow] # "stored" /\ ~Recalls(q)
    <3>1. PICK what \in {"ok", "failed"} : what = "failed"
      OBVIOUS
    <3>2. Hear(c, what)
      BY <1>9, <2>1, <2>5, <3>1 DEF GetState
    <3>3. told' \in [Flows -> SUBSET {"ok", "failed"}]
      BY <2>1, <2>2, <3>2, Hears
    <3>4. Plain' /\ server' = server /\ flows' = flows /\ conns' = conns
      BY <1>1, <1>9, <3>3 DEF GetState, Plain, Given, Named
    <3>5. PICK n : n = 0
      OBVIOUS
    <3>6. Ids(conns)' \subseteq InUse \cup {n}
      BY <3>4, Used DEF Ids
    <3> QED BY <2>1, <2>2, <3>2, <3>4, <3>6, HearKeeps
  <2> QED BY <2>3, <2>4, <2>5
<1>10. ASSUME NEW c \in Calls, DeleteState(c)
       PROVE  Typed'
  <2>1. PICK q \in FlowCall : q = calls[c]
    BY <1>2
  <2>2. q.stage = "del" /\ q.flow \in DOMAIN flows /\ q.flow \in Flows /\ InOrder(q)
          /\ states' = [states EXCEPT ![q.flow] = "gone"]
    BY <1>2, <1>10, <2>1 DEF DeleteState, InOrder
  <2>3. CASE q.op \in {"callback", "post"}
    <3>1. PICK s : s = IF server = "gitlab" THEN "exchange" ELSE "load"
      OBVIOUS
    <3>2. /\ s \in StageName
          /\ s \notin {"exchange", "commit"} \/ (server = "gitlab" /\ s = "exchange")
      BY <3>1 DEF StageName
    <3>3. Stage(c, s) /\ told' = told
      BY <1>1, <1>10, <2>1, <2>3, <3>1, NextStages DEF DeleteState
    <3>4. PICK r \in FlowCall :
             /\ calls' = [calls EXCEPT ![c] = r]
             /\ Copies(r) /\ r.op = q.op /\ r.flow = q.flow /\ r.stage = s
             /\ r.rows = q.rows
      BY <2>1, <3>2, <3>3, StageMoves
    <3>5. InOrder(r)
      BY <2>2, <2>3, <3>1, <3>4 DEF InOrder, Started
    <3>6. Plain' /\ server' = server /\ flows' = flows /\ conns' = conns
      BY <1>1, <1>10, <2>2, <3>3 DEF DeleteState, Plain, Given, Named
    <3> QED BY <2>1, <3>4, <3>5, <3>6, MovedOn
  <2>4. CASE q.op \notin {"callback", "post"}
    <3>1. PICK what \in {"ok", "failed"} : what = "failed"
      OBVIOUS
    <3>2. Hear(c, what)
      BY <1>10, <2>1, <2>4, <3>1 DEF DeleteState
    <3>3. told' \in [Flows -> SUBSET {"ok", "failed"}]
      BY <2>1, <2>2, <3>2, Hears
    <3>4. Plain' /\ server' = server /\ flows' = flows /\ conns' = conns
      BY <1>1, <1>10, <2>2, <3>3 DEF DeleteState, Plain, Given, Named
    <3>5. PICK n : n = 0
      OBVIOUS
    <3>6. Ids(conns)' \subseteq InUse \cup {n}
      BY <3>4, Used DEF Ids
    <3> QED BY <2>1, <2>2, <3>2, <3>4, <3>6, HearKeeps
  <2> QED BY <2>3, <2>4
<1>11. ASSUME NEW c \in Calls, LoadRow(c)
       PROVE  Typed'
  <2>1. PICK q \in FlowCall : q = calls[c]
    BY <1>2
  <2>2. PICK r \in FlowCall :
           /\ calls' = [calls EXCEPT ![c] = r]
           /\ InOrder(r) /\ Copies(r) /\ Ids(r.rows) \subseteq Ids(conns) \cup {FreshId}
    BY <1>11, <2>1, LoadMoves
  <2>3. Plain' /\ server' = server /\ flows' = flows /\ conns' = conns
    BY <1>1, <1>11 DEF LoadRow, Plain, Given, Named
  <2> QED BY <2>2, <2>3, MovedFresh
<1>12. ASSUME NEW c \in Calls, Exchange(c)
       PROVE  Typed'
  <2>1. PICK q \in FlowCall : q = calls[c]
    BY <1>2
  <2>2. /\ q.stage = "exchange" /\ q.flow \in Flows
        /\ errors' \in 0..MaxErrors
        /\ codes' = codes \/ codes' = [codes EXCEPT ![q.flow] = "spent"]
    BY <1>12, <2>1, ExchangeMoves
  <2>3. codes' \in [Flows -> {"none", "issued", "spent"}]
    BY <1>1, <2>2 DEF Plain
  <2>4. /\ server' = server /\ flows' = flows /\ conns' = conns /\ states' = states
        /\ stash' = stash /\ visits' = visits /\ edits' = edits /\ done' = done
        /\ crossed' = crossed /\ late' = late
    BY <1>12 DEF Exchange
  <2>5. CASE Hear(c, "failed")
    <3>1. PICK what \in {"ok", "failed"} : what = "failed"
      OBVIOUS
    <3>2. Hear(c, what)
      BY <2>5, <3>1
    <3>3. told' \in [Flows -> SUBSET {"ok", "failed"}]
      BY <2>1, <2>2, <3>2, Hears
    <3>4. Plain'
      BY <1>1, <2>2, <2>3, <2>4, <3>3 DEF Plain, Given, Named
    <3>5. PICK n : n = 0
      OBVIOUS
    <3>6. Ids(conns)' \subseteq InUse \cup {n}
      BY <2>4, Used DEF Ids
    <3> QED BY <2>1, <2>2, <2>4, <3>2, <3>4, <3>6, HearKeeps
  <2>6. CASE ~Hear(c, "failed")
    <3>1. PICK r \in FlowCall : /\ told' = told /\ calls' = [calls EXCEPT ![c] = r]
                                /\ r.rows = q.rows /\ InOrder(r) /\ Copies(r)
      BY <1>12, <2>1, <2>6, ExchangeMoves
    <3>2. Plain'
      BY <1>1, <2>2, <2>3, <2>4, <3>1 DEF Plain, Given, Named
    <3> QED BY <2>1, <2>4, <3>1, <3>2, MovedOn
  <2> QED BY <2>5, <2>6
<1>13. ASSUME NEW c \in Calls, CommitCallback(c)
       PROVE  Typed'
  <2>1. PICK q \in FlowCall : q = calls[c]
    BY <1>2
  <2>2. PICK w : w = WithToken(q)
    OBVIOUS
  <2>3. q.stage # "idle" /\ q.op # "update" => q.flow \in DOMAIN flows /\ q.flow \in Flows
    BY <1>2, <2>1
  <2>4. q.stage = "commit" /\ q.flow \in DOMAIN flows /\ q.flow \in Flows
    <3>1. q.stage = "commit"
      BY <1>13, <2>1 DEF CommitCallback, WithToken
    <3> QED BY <1>2, <2>1, <2>3, <3>1 DEF InOrder
  <2>5. /\ w \in FlowCall /\ w.flow = q.flow /\ w.stage = q.stage /\ w.seen = q.seen
        /\ Ids(w.rows) = Ids(q.rows) /\ Named(w.rows) /\ Given(w.rows)
    BY <2>1, <2>2, <2>4, TokensGiven
  <2>6. /\ server' = server /\ flows' = flows /\ states' = states /\ codes' = codes
        /\ stash' = stash /\ visits' = visits /\ errors' = errors /\ edits' = edits
        /\ crossed' = crossed /\ late' = late
    BY <1>13 DEF CommitCallback
  <2>7. PICK what \in {"ok", "failed"} : Hear(c, what)
    BY <1>13 DEF CommitCallback
  <2>8. told' \in [Flows -> SUBSET {"ok", "failed"}]
    BY <2>1, <2>4, <2>7, Hears
  <2>9. /\ conns' \subseteq ConnRow /\ Named(conns') /\ Given(conns')
        /\ done' \subseteq Flows /\ \A x \in conns' : x.id \in InUse
    <3>1. CASE Gone(w)
      <4>1. conns' = conns /\ done' = done
        BY <1>13, <2>1, <2>2, <3>1 DEF CommitCallback
      <4> QED BY <1>1, <4>1, Used DEF Plain, Ids
    <3>2. CASE ~Gone(w)
      <4>1. conns' = Put(w) /\ (done' = done \/ done' = done \cup {w.flow})
        BY <1>13, <2>1, <2>2, <3>2 DEF CommitCallback
      <4>2. w.seen # {} => Ids(w.rows) = Ids(w.seen)
        BY <1>2, <2>1, <2>5 DEF Copies
      <4>3. /\ Put(w) \subseteq ConnRow /\ Named(Put(w)) /\ Given(Put(w))
            /\ \A x \in Put(w) : \/ x \in conns /\ x.id \notin Ids(w.rows)
                                 \/ x.id \in Ids(w.rows)
        BY <1>1, <1>2, <2>1, <2>5, <3>2, <4>2, PutKeeps DEF Plain, Copies
      <4>4. \A x \in Put(w) : x.id \in InUse
        BY <2>1, <2>5, <4>3, Used DEF Ids
      <4> QED BY <1>1, <2>4, <2>5, <4>1, <4>3, <4>4 DEF Plain
    <3> QED BY <3>1, <3>2
  <2>10. Plain'
    <3>1. Named(conns)' /\ Given(conns)'
      BY <2>6, <2>9 DEF Named, Given
    <3> QED BY <1>1, <2>6, <2>8, <2>9, <3>1 DEF Plain
  <2>11. PICK n : n = 0
    OBVIOUS
  <2>12. Ids(conns)' \subseteq InUse \cup {n}
    BY <2>9 DEF Ids
  <2> QED BY <2>1, <2>4, <2>6, <2>7, <2>10, <2>12, HearKeeps
<1>14. ASSUME NEW c \in Calls, StoreOutcome(c)
       PROVE  Typed'
  <2>1. PICK q \in FlowCall : q = calls[c]
    BY <1>2
  <2>2. q.stage = "stash" /\ q.got \in {"ok", "failed"}
    BY <1>2, <1>14, <2>1 DEF StoreOutcome, InOrder
  <2>3. calls' = [calls EXCEPT ![c] = Idling] /\ conns' = conns
          /\ stash' = [stash EXCEPT ![q.flow] = q.got]
    BY <1>14, <2>1 DEF StoreOutcome, Done
  <2>4. stash' \in [Flows -> {"none", "ok", "failed"}]
    BY <1>1, <2>2, <2>3 DEF Plain
  <2>5. Plain' /\ server' = server /\ flows' = flows
    BY <1>1, <1>14, <2>3, <2>4 DEF StoreOutcome, Plain, Given, Named
  <2> QED BY <2>3, <2>5, IdlingFits, MovedOn
<1>15. ASSUME NEW c \in Calls, Crash(c)
       PROVE  Typed'
  <2>1. calls' = [calls EXCEPT ![c] = Idling] /\ conns' = conns
    BY <1>15 DEF Crash, Done
  <2>2. errors' \in 0..MaxErrors
    BY <1>1, <1>15, OAuthConstantsOK DEF Crash, Plain
  <2>3. Plain' /\ server' = server /\ flows' = flows
    BY <1>1, <1>15, <2>1, <2>2 DEF Crash, Plain, Given, Named
  <2> QED BY <2>1, <2>3, IdlingFits, MovedOn
<1>16. ASSUME NEW f \in Flows, Expire(f)
       PROVE  Typed'
  <2>1. /\ server' = server /\ conns' = conns /\ flows' = flows /\ codes' = codes
        /\ calls' = calls /\ visits' = visits /\ errors' = errors /\ edits' = edits
        /\ told' = told /\ done' = done /\ crossed' = crossed
    BY <1>16 DEF Expire
  <2>2. /\ states' \in [Flows -> {"absent", "stored", "gone"}]
        /\ \A g \in Flows : states'[g] # "absent" => g \in DOMAIN flows
        /\ stash' \in [Flows -> {"none", "ok", "failed"}] /\ late' \in BOOLEAN
    BY <1>1, <1>16 DEF Expire, Plain
  <2>3. FlowTypeOK'
    BY <2>1, <2>2 DEF Typed, FlowTypeOK
  <2>4. InUse' = InUse
    BY <2>1 DEF InUse, Ids
  <2>5. \A c \in Calls : InOrder(calls[c])' /\ Copies(calls[c])'
    <3>1. \A c \in Calls : InOrder(calls[c])'
      BY <1>2, <2>1 DEF InOrder, Started, Posts
    <3>2. \A c \in Calls : Copies(calls[c])'
      BY <1>2, <2>1 DEF Copies, HasRow, Given, Named, Ids
    <3> QED BY <3>1, <3>2
  <2> QED BY <2>1, <2>2, <2>3, <2>4, <2>5 DEF Typed, Given
<1>17. ASSUME NEW x \in conns, DeleteConn(x)
       PROVE  Typed'
  <2>1. /\ server' = server /\ conns' = conns \ {x} /\ flows' = flows /\ states' = states
        /\ codes' = codes /\ stash' = stash
        /\ calls' = calls /\ visits' = visits /\ errors' = errors
        /\ told' = told /\ done' = done /\ crossed' = crossed /\ late' = late
    BY <1>17 DEF DeleteConn
  <2>2. edits' \in 0..MaxEdits
    BY <1>1, <1>17, OAuthConstantsOK DEF DeleteConn, Plain
  <2>3. FlowTypeOK'
    BY <2>1, <2>2 DEF Typed, FlowTypeOK
  <2>4. IsFiniteSet(InUse)'
    <3>1. PICK n : n = 0
      OBVIOUS
    <3>2. Ids(conns)' \subseteq Ids(conns)
      BY <2>1 DEF Ids
    <3>3. /\ \A c \in Calls : Ids(calls'[c].rows) \subseteq InUse \cup {n}
          /\ \A f \in DOMAIN flows' : flows'[f].row \in InUse \cup {n}
      BY <2>1, Used
    <3>4. Ids(conns)' \subseteq InUse \cup {n}
      BY <3>2, Used
    <3> QED BY <3>3, <3>4, StillFinite DEF Typed
  <2>5. \A c \in Calls : InOrder(calls[c])' /\ Copies(calls[c])'
    <3>1. \A c \in Calls : InOrder(calls[c])'
      BY <1>2, <2>1 DEF InOrder, Started, Posts
    <3>2. \A c \in Calls : Copies(calls[c])'
      BY <1>2, <2>1 DEF Copies, HasRow, Given, Named, Ids
    <3> QED BY <3>1, <3>2
  <2> QED BY <1>1, <2>1, <2>3, <2>4, <2>5 DEF Typed, Given, Plain
<1>18. ASSUME NEW c \in Calls, Take(c)
       PROVE  Typed'
  <2>1. PICK q \in FlowCall : q = calls[c]
    BY <1>2
  <2>2. /\ q.stage = "take" /\ q.got \in {"ok", "failed"} /\ q.flow \in Flows
        /\ stash' = [stash EXCEPT ![q.flow] = "none"] /\ Hear(c, q.got)
    BY <1>2, <1>18, <2>1 DEF Take, InOrder
  <2>3. PICK what \in {"ok", "failed"} : what = q.got
    BY <2>2
  <2>4. told' \in [Flows -> SUBSET {"ok", "failed"}]
    BY <2>1, <2>2, <2>3, Hears
  <2>5. Plain' /\ server' = server /\ flows' = flows /\ conns' = conns
    <3>1. stash' \in [Flows -> {"none", "ok", "failed"}]
      BY <1>1, <2>2 DEF Plain
    <3> QED BY <1>1, <1>18, <2>4, <3>1 DEF Take, Plain, Given, Named
  <2>6. PICK n : n = 0
    OBVIOUS
  <2>7. Ids(conns)' \subseteq InUse \cup {n}
    BY <2>5, Used DEF Ids
  <2> QED BY <2>1, <2>2, <2>3, <2>5, <2>7, HearKeeps
<1>19. CASE UNCHANGED flowVars
  <2>1. FlowTypeOK'
    BY <1>19 DEF flowVars, Typed, FlowTypeOK
  <2>2. InUse' = InUse
    BY <1>19 DEF flowVars, InUse, Ids
  <2>3. \A c \in Calls : InOrder(calls[c])' /\ Copies(calls[c])'
    <3>1. \A c \in Calls : InOrder(calls[c])'
      BY <1>2, <1>19 DEF flowVars, InOrder, Started, Posts
    <3>2. \A c \in Calls : Copies(calls[c])'
      BY <1>2, <1>19 DEF flowVars, Copies, HasRow, Given, Named, Ids
    <3> QED BY <3>1, <3>2
  <2> QED BY <1>19, <2>1, <2>2, <2>3 DEF flowVars, Typed, Given
<1> QED
  BY <1>3, <1>4, <1>5, <1>6, <1>7, <1>8, <1>9, <1>10, <1>11, <1>12, <1>13, <1>14, <1>15,
     <1>16, <1>17, <1>18, <1>19
  DEF FlowNext

\* The state of the flows has its type
THEOREM FlowTypeCorrect == FlowSpec => []FlowTypeOK
<1>1. FlowInit => Typed
  BY TypedInit
<1>2. Typed /\ [FlowNext]_flowVars => Typed'
  BY TypedStep
<1>3. Typed => FlowTypeOK
  BY DEF Typed
<1> QED BY <1>1, <1>2, <1>3, PTL DEF FlowSpec

-----------------------------------------------------------------------------
(* Requests that do not overlap, and the application of a row's tokens *)

\* A step is one request's, which was at work or starts, or nobody's
LEMMA WhoMoves ==
    ASSUME Typed, [FlowNext]_flowVars
    PROVE  \/ calls' = calls /\ crossed' = crossed
           \/ \E c \in Calls :
                 /\ \A d \in Calls : d # c => calls'[d] = calls[d]
                 /\ \/ Started(calls[c]) /\ crossed' = crossed
                    \/ AtWork = {} \/ crossed'
<1> DEFINE Moves(c) ==
             /\ \A d \in Calls : d # c => calls'[d] = calls[d]
             /\ \/ Started(calls[c]) /\ crossed' = crossed
                \/ AtWork = {} \/ crossed'
<1>1. calls \in [Calls -> FlowCall]
  BY DEF Typed, FlowTypeOK
<1>2. ASSUME NEW c \in Calls, NEW call, Start(c, call)
      PROVE  Moves(c)
  BY <1>1, <1>2 DEF Start
<1>3. ASSUME NEW c \in Calls, NEW what, Hear(c, what), Started(calls[c]), crossed' = crossed
      PROVE  Moves(c)
  BY <1>1, <1>3 DEF Hear, Done
<1>4. ASSUME NEW c \in Calls, NEW s, Stage(c, s), Started(calls[c]), crossed' = crossed
      PROVE  Moves(c)
  BY <1>1, <1>4 DEF Stage
<1>5. ASSUME NEW c \in Calls, Done(c), Started(calls[c]), crossed' = crossed
      PROVE  Moves(c)
  BY <1>1, <1>5 DEF Done
<1>6. ASSUME NEW c \in Calls, NEW a \in Apps, OAuthInit(c, a)
      PROVE  Moves(c)
  <2>1. \E call : Start(c, call)
    BY <1>6 DEF OAuthInit
  <2> QED BY <1>2, <2>1
<1>7. ASSUME NEW c \in Calls, NEW a \in Apps, UpdateApp(c, a)
      PROVE  Moves(c)
  <2>1. \E call : Start(c, call)
    BY <1>7 DEF UpdateApp
  <2> QED BY <1>2, <2>1
<1>8. ASSUME NEW c \in Calls, NEW f \in Flows, Visit(c, f)
      PROVE  Moves(c)
  <2>1. \E call : Start(c, call)
    BY <1>8 DEF Visit
  <2> QED BY <1>2, <2>1
<1>9. ASSUME NEW c \in Calls, Save(c)
      PROVE  Moves(c)
  <2>1. Started(calls[c]) /\ crossed' = crossed /\ (Done(c) \/ Stage(c, "key"))
    BY <1>9 DEF Save, Started
  <2> QED BY <1>4, <1>5, <2>1
<1>10. ASSUME NEW c \in Calls, StoreState(c) \/ StoreOutcome(c) \/ Crash(c)
       PROVE  Moves(c)
  <2>1. Started(calls[c]) /\ crossed' = crossed /\ Done(c)
    BY <1>10 DEF StoreState, StoreOutcome, Crash, Started
  <2> QED BY <1>5, <2>1
<1>11. ASSUME NEW c \in Calls, Peek(c) \/ Take(c) \/ GetState(c) \/ DeleteState(c)
       PROVE  Moves(c)
  <2>1. /\ Started(calls[c]) /\ crossed' = crossed
        /\ \/ \E s : Stage(c, s)
           \/ \E what : Hear(c, what)
           \/ \E r : calls' = [calls EXCEPT ![c] = r]
    BY <1>11 DEF Peek, Take, GetState, DeleteState, Started
  <2>2. CASE \E r : calls' = [calls EXCEPT ![c] = r]
    BY <1>1, <2>1, <2>2
  <2> QED BY <1>3, <1>4, <2>1, <2>2
<1>12. ASSUME NEW c \in Calls, LoadRow(c)
       PROVE  Moves(c)
  <2>1. PICK q \in FlowCall : q = calls[c]
    BY <1>1
  <2>2. \E r : calls' = [calls EXCEPT ![c] = r]
    BY <1>12, <2>1, LoadMoves
  <2>3. Started(calls[c]) /\ crossed' = crossed
    BY <1>12 DEF LoadRow, Started
  <2> QED BY <1>1, <2>2, <2>3
<1>13. ASSUME NEW c \in Calls, Exchange(c)
       PROVE  Moves(c)
  <2>1. PICK q \in FlowCall : q = calls[c]
    BY <1>1
  <2>2. Hear(c, "failed") \/ \E r : calls' = [calls EXCEPT ![c] = r]
    BY <1>13, <2>1, ExchangeMoves
  <2>3. Started(calls[c]) /\ crossed' = crossed
    BY <1>13 DEF Exchange, Started
  <2>4. CASE \E r : calls' = [calls EXCEPT ![c] = r]
    BY <1>1, <2>3, <2>4
  <2> QED BY <1>3, <2>2, <2>3, <2>4
<1>14. ASSUME NEW c \in Calls, CommitCallback(c)
       PROVE  Moves(c)
  <2>1. calls[c].stage = "commit"
    <3>1. WithToken(calls[c]).stage = calls[c].stage
      BY <1>1 DEF WithToken, FlowCall
    <3> QED BY <1>14, <3>1 DEF CommitCallback
  <2>2. Started(calls[c]) /\ crossed' = crossed /\ (\E what : Hear(c, what))
    BY <1>14, <2>1 DEF CommitCallback, Started
  <2> QED BY <1>3, <2>2
<1>15. ASSUME \/ \E f \in Flows : Expire(f)
              \/ \E x \in conns : DeleteConn(x)
              \/ UNCHANGED flowVars
       PROVE  calls' = calls /\ crossed' = crossed
  BY <1>15 DEF Expire, DeleteConn, flowVars
<1> HIDE DEF Moves
<1>16. (\E c \in Calls : Moves(c)) \/ (calls' = calls /\ crossed' = crossed)
  BY <1>6, <1>7, <1>8, <1>9, <1>10, <1>11, <1>12, <1>13, <1>14, <1>15 DEF FlowNext
<1> QED BY <1>16 DEF Moves

LEMMA AloneStep ==
    ASSUME Typed, Alone, [FlowNext]_flowVars
    PROVE  Alone'
<1> SUFFICES ASSUME ~crossed', NEW b \in Calls, NEW d \in Calls,
                    Started(calls'[b]), Started(calls'[d])
             PROVE  b = d
  BY DEF Alone, Started
<1>1. CASE calls' = calls /\ crossed' = crossed
  BY <1>1 DEF Alone
<1>2. CASE ~(calls' = calls /\ crossed' = crossed)
  <2>1. PICK c \in Calls :
           /\ \A e \in Calls : e # c => calls'[e] = calls[e]
           /\ \/ Started(calls[c]) /\ crossed' = crossed
              \/ AtWork = {}
    BY <1>2, WhoMoves
  <2>2. \A e \in Calls : e # c => ~Started(calls'[e])
    BY <2>1 DEF Alone, AtWork, Started
  <2> QED BY <2>2
<1> QED BY <1>1, <1>2

\* While one request works the others rest
LEMMA OthersRest ==
    ASSUME Alone, ~crossed, NEW c \in Calls, Started(calls[c]), NEW d \in Calls, d # c
    PROVE  ~Started(calls[d])
BY DEF Alone

\* Who writes over what it has read writes its own values
LEMMA PutAlone ==
    ASSUME Named(conns), NEW q \in FlowCall, ~Gone(q), q.op # "update", Named(q.seen),
           q.seen # {} => Ids(q.rows) = Ids(q.seen),
           \A y \in q.seen : y \in conns \/ y.id \notin Ids(conns)
    PROVE  \A x \in Put(q) :
              \/ x \in conns /\ x.id \notin Ids(q.rows)
              \/ \E y \in q.rows : /\ x.id = y.id /\ x.client = y.client
                                   /\ x.secret = y.secret /\ x.token = y.token
<1> DEFINE Of(set, i) == CHOOSE x \in set : x.id = i
           Updated(x, old, y) ==
             [id     |-> x.id,
              client |-> IF y.client = old.client THEN x.client ELSE y.client,
              secret |-> IF y.secret = old.secret /\ q.op = "update" THEN x.secret ELSE y.secret,
              active |-> IF y.active = old.active THEN x.active ELSE y.active,
              token  |-> IF y.token = old.token THEN x.token ELSE y.token]
           W(y) == IF q.seen = {} THEN y ELSE Updated(Of(conns, y.id), Of(q.seen, y.id), y)
           Kept == {x \in conns : x.id \notin Ids(q.rows)}
<1>1. Put(q) = Kept \cup {W(y) : y \in q.rows}
  BY DEF Put
<1>2. ASSUME NEW y \in q.rows
      PROVE  /\ W(y).id = y.id /\ W(y).client = y.client
             /\ W(y).secret = y.secret /\ W(y).token = y.token
  <2>1. CASE q.seen = {}
    BY <2>1
  <2>2. CASE q.seen # {}
    <3>1. PICK o : o = Of(q.seen, y.id)
      OBVIOUS
    <3>2. o \in q.seen /\ o.id = y.id
      <4>1. y.id \in Ids(q.seen)
        BY <2>2 DEF Ids
      <4> QED BY <3>1, <4>1 DEF Ids
    <3>3. o \in conns
      BY <2>2, <3>2 DEF Gone, Ids
    <3>4. Of(conns, y.id) = o
      BY <3>2, <3>3 DEF Named
    <3>5. W(y) = Updated(o, o, y)
      BY <2>2, <3>1, <3>4
    <3> HIDE DEF W, Of
    <3> QED BY <3>2, <3>5
  <2> QED BY <2>1, <2>2
<1> HIDE DEF W
<1> QED BY <1>1, <1>2

LEMMA CrossedStays ==
    ASSUME [FlowNext]_flowVars, ~crossed'
    PROVE  ~crossed
<1>1. ASSUME NEW c \in Calls, NEW a \in Apps, OAuthInit(c, a) \/ UpdateApp(c, a)
      PROVE  crossed => crossed'
  BY <1>1 DEF OAuthInit, UpdateApp, Start
<1>2. ASSUME NEW c \in Calls, NEW f \in Flows, Visit(c, f)
      PROVE  crossed => crossed'
  BY <1>2 DEF Visit, Start
<1>3. ASSUME NEW c \in Calls,
             \/ Save(c) \/ StoreState(c) \/ Peek(c) \/ Take(c) \/ GetState(c) \/ DeleteState(c)
             \/ LoadRow(c) \/ Exchange(c) \/ CommitCallback(c) \/ StoreOutcome(c) \/ Crash(c)
      PROVE  crossed' = crossed
  BY <1>3 DEF Save, StoreState, Peek, Take, GetState, DeleteState, LoadRow, Exchange,
              CommitCallback, StoreOutcome, Crash
<1>4. ASSUME \/ \E f \in Flows : Expire(f)
             \/ \E x \in conns : DeleteConn(x)
             \/ UNCHANGED flowVars
      PROVE  crossed' = crossed
  BY <1>4 DEF Expire, DeleteConn, flowVars
<1> QED BY <1>1, <1>2, <1>3, <1>4 DEF FlowNext

\* Where a request's step leads to
LEMMA LeadsTo ==
    ASSUME Typed, NEW c \in Calls
    PROVE  /\ \A s : Stage(c, s) => calls'[c] = [calls[c] EXCEPT !.stage = s]
           /\ \A s : Stage(c, s) => calls'[c].stage = s
           /\ \A what : Hear(c, what) => calls'[c].stage \in {"stash", "idle"}
           /\ Done(c) => calls'[c] = Idling /\ calls'[c].stage = "idle"
           /\ calls[c].stage = WithToken(calls[c]).stage
<1>1. calls \in [Calls -> FlowCall] /\ calls[c] \in FlowCall
  BY DEF Typed, FlowTypeOK
<1>2. ASSUME NEW s, Stage(c, s)
      PROVE  calls'[c] = [calls[c] EXCEPT !.stage = s] /\ calls'[c].stage = s
  BY <1>1, <1>2 DEF Stage, FlowCall
<1>3. Done(c) => calls'[c] = Idling /\ calls'[c].stage = "idle"
  BY <1>1 DEF Done, Idling
<1>4. ASSUME NEW what, Hear(c, what)
      PROVE  calls'[c].stage \in {"stash", "idle"}
  <2>1. CASE calls[c].op \in Posts
    <3>1. calls'[c] = [calls[c] EXCEPT !.stage = "stash", !.got = what]
      BY <1>1, <1>4, <2>1 DEF Hear
    <3> QED BY <1>1, <3>1 DEF FlowCall
  <2>2. CASE calls[c].op \notin Posts
    BY <1>3, <1>4, <2>2 DEF Hear
  <2> QED BY <2>1, <2>2
<1>5. calls[c].stage = WithToken(calls[c]).stage
  BY <1>1 DEF WithToken, FlowCall
<1> QED BY <1>2, <1>3, <1>4, <1>5

LEMMA StillThereStep ==
    ASSUME Typed, Alone, StillThere, [FlowNext]_flowVars
    PROVE  StillThere'
<1> DEFINE Holds(q) == q.stage = "save" \/ HasRow(q)
           Fine(d) == Holds(calls'[d]) =>
                        \A y \in calls'[d].seen : y \in conns' \/ y.id \notin Ids(conns')
<1>1. /\ calls \in [Calls -> FlowCall] /\ Typed' /\ server' = server
      /\ Named(conns) /\ conns \subseteq ConnRow
  <2>1. server' = server
    BY DEF FlowNext, flowVars, OAuthInit, UpdateApp, Visit, Save, StoreState, Peek, Take,
           GetState, DeleteState, LoadRow, Exchange, CommitCallback, StoreOutcome, Crash,
           Expire, DeleteConn
  <2> QED BY <2>1, TypedStep, TypedIsPlain DEF Typed, FlowTypeOK, Plain
<1> SUFFICES ASSUME ~crossed', NEW d \in Calls
             PROVE  Fine(d)
  BY <1>1 DEF StillThere, HasRow, Ids
<1>2. ~crossed
  BY CrossedStays
<1>3. ASSUME calls'[d] = calls[d], conns' = conns
      PROVE  Fine(d)
  BY <1>2, <1>3 DEF StillThere
<1>4. ASSUME calls'[d].stage \in {"idle", "key", "peek", "get", "recall", "take", "del", "load",
                                 "stash"}
      PROVE  Fine(d)
  BY <1>4 DEF HasRow
<1>5. ASSUME calls'[d].stage = "exchange", server = "gitlab"
      PROVE  Fine(d)
  BY <1>5 DEF HasRow
<1>6. ASSUME NEW c \in Calls, c # d, Started(calls[c]), crossed' = crossed,
             calls'[d] = calls[d]
      PROVE  Fine(d)
  <2>1. calls'[d].stage = "idle"
    BY <1>2, <1>6, OthersRest DEF Started
  <2> QED BY <1>4, <2>1
<1>7. ASSUME calls'[d].seen \subseteq conns, conns' = conns
      PROVE  Fine(d)
  BY <1>7
<1> HIDE DEF Fine, Holds
<1>8. ASSUME NEW c \in Calls, NEW a \in Apps, OAuthInit(c, a)
      PROVE  Fine(d)
  <2>1. conns' = conns
    BY <1>8 DEF OAuthInit
  <2>2. PICK r \in FlowCall : calls' = [calls EXCEPT ![c] = r] /\ r.seen \subseteq conns
    BY <1>8, InitStep
  <2> QED BY <1>1, <1>3, <1>7, <2>1, <2>2
<1>9. ASSUME NEW c \in Calls, NEW a \in Apps, UpdateApp(c, a)
      PROVE  Fine(d)
  <2>1. PICK r \in FlowCall : calls' = [calls EXCEPT ![c] = r] /\ r.seen = conns
    BY <1>9, UpdateMoves
  <2>2. conns' = conns
    BY <1>9 DEF UpdateApp
  <2> QED BY <1>1, <1>3, <1>7, <2>1, <2>2
<1>10. ASSUME NEW c \in Calls, NEW f \in Flows, Visit(c, f)
       PROVE  Fine(d)
  <2>1. PICK r \in FlowCall : /\ calls' = [calls EXCEPT ![c] = r]
                              /\ r.stage = IF r.op = "back" THEN "peek" ELSE "get"
    BY <1>10, VisitMoves
  <2>2. conns' = conns
    BY <1>10 DEF Visit
  <2> QED BY <1>1, <1>3, <1>4, <2>1, <2>2
<1>11. ASSUME NEW c \in Calls,
              \/ Save(c) \/ StoreState(c) \/ Take(c) \/ GetState(c) \/ StoreOutcome(c)
              \/ Crash(c) \/ CommitCallback(c)
       PROVE  Fine(d)
  <2>1. Started(calls[c]) /\ crossed' = crossed
    BY <1>11, LeadsTo
    DEF Started, Save, StoreState, Take, GetState, StoreOutcome, Crash, CommitCallback
  <2>2. calls'[c].stage \in {"idle", "key", "recall", "del", "stash"}
    BY <1>11, LeadsTo DEF Save, StoreState, Take, GetState, StoreOutcome, Crash, CommitCallback
  <2>3. d # c => calls'[d] = calls[d]
    BY <1>1, <1>11
    DEF Save, StoreState, Take, GetState, StoreOutcome, Crash, CommitCallback, Stage, Done, Hear
  <2> QED BY <1>4, <1>6, <2>1, <2>2, <2>3
<1>17. ASSUME NEW c \in Calls, Peek(c)
       PROVE  Fine(d)
  <2>1. PICK q \in FlowCall : q = calls[c]
    BY <1>1
  <2>2. Started(calls[c]) /\ crossed' = crossed
    BY <1>17 DEF Started, Peek
  <2>3. \/ Stage(c, "get")
        \/ Hear(c, "failed")
        \/ \E r \in FlowCall : calls' = [calls EXCEPT ![c] = r] /\ r.stage = "take"
    BY <1>17, <2>1, PeekMoves
  <2>4. CASE Stage(c, "get") \/ Hear(c, "failed")
    <3>1. calls'[c].stage \in {"idle", "get", "stash"}
      BY <2>4, LeadsTo
    <3>2. d # c => calls'[d] = calls[d]
      BY <1>1, <2>4 DEF Stage, Done, Hear
    <3> QED BY <1>4, <1>6, <2>2, <3>1, <3>2
  <2>5. CASE \E r \in FlowCall : calls' = [calls EXCEPT ![c] = r] /\ r.stage = "take"
    <3>1. calls'[c].stage = "take" /\ (d # c => calls'[d] = calls[d])
      BY <1>1, <2>5
    <3> QED BY <1>4, <1>6, <2>2, <3>1
  <2> QED BY <2>3, <2>4, <2>5
<1>12. ASSUME NEW c \in Calls, DeleteState(c)
       PROVE  Fine(d)
  <2>1. Started(calls[c]) /\ crossed' = crossed
    BY <1>12 DEF Started, DeleteState
  <2>2. calls'[c].stage \in {"idle", "load", "stash"}
          \/ (calls'[c].stage = "exchange" /\ server = "gitlab")
    <3>1. StageAfter("del") = IF server = "gitlab" THEN "exchange" ELSE "load"
      BY TypedIsPlain, NextStages
    <3> QED BY <1>12, <3>1, LeadsTo DEF DeleteState
  <2>3. d # c => calls'[d] = calls[d]
    BY <1>1, <1>12 DEF DeleteState, Stage, Done, Hear
  <2> QED BY <1>4, <1>5, <1>6, <2>1, <2>2, <2>3
<1>13. ASSUME NEW c \in Calls, LoadRow(c)
       PROVE  Fine(d)
  <2>1. PICK q \in FlowCall : q = calls[c]
    BY <1>1
  <2>2. PICK r \in FlowCall : calls' = [calls EXCEPT ![c] = r] /\ r.seen \subseteq conns
    BY <1>13, <2>1, LoadMoves
  <2>3. conns' = conns
    BY <1>13 DEF LoadRow
  <2> QED BY <1>1, <1>3, <1>7, <2>2, <2>3
<1>14. ASSUME NEW c \in Calls, Exchange(c)
       PROVE  Fine(d)
  <2>1. PICK q \in FlowCall : q = calls[c]
    BY <1>1
  <2>2. /\ q.stage = "exchange"
        /\ \/ Hear(c, "failed")
           \/ \E r \in FlowCall :
                /\ calls' = [calls EXCEPT ![c] = r]
                /\ r.stage = IF server = "gitlab" THEN "load" ELSE "commit"
                /\ r.seen = q.seen
    BY <1>14, <2>1, ExchangeMoves
  <2>3. conns' = conns /\ crossed' = crossed
    BY <1>14 DEF Exchange
  <2>4. CASE Hear(c, "failed")
    <3>1. calls'[c].stage \in {"stash", "idle"}
      BY <2>4, LeadsTo
    <3>2. d # c => calls'[d] = calls[d]
      BY <1>1, <2>4 DEF Hear, Done
    <3> QED BY <1>3, <1>4, <2>3, <3>1, <3>2
  <2>5. CASE ~Hear(c, "failed")
    <3>1. PICK r \in FlowCall : /\ calls' = [calls EXCEPT ![c] = r]
                                /\ r.stage = IF server = "gitlab" THEN "load" ELSE "commit"
                                /\ r.seen = q.seen
      BY <2>2, <2>5
    <3>2. CASE d # c
      BY <1>1, <1>3, <2>3, <3>1, <3>2
    <3>3. CASE d = c /\ server = "gitlab"
      BY <1>1, <1>4, <3>1, <3>3
    <3>4. CASE d = c /\ server # "gitlab"
      <4>1. \A y \in q.seen : y \in conns \/ y.id \notin Ids(conns)
        BY <1>2, <2>1, <2>2, <3>4 DEF StillThere, HasRow
      <4>2. calls'[d].seen = q.seen
        BY <1>1, <3>1, <3>4
      <4> QED BY <2>3, <4>1, <4>2 DEF Fine
    <3> QED BY <3>2, <3>3, <3>4
  <2> QED BY <2>4, <2>5
<1>15. ASSUME (\E f \in Flows : Expire(f)) \/ UNCHANGED flowVars
       PROVE  Fine(d)
  <2>1. calls' = calls /\ conns' = conns
    BY <1>15 DEF Expire, flowVars
  <2> QED BY <1>3, <2>1
<1>16. ASSUME NEW x \in conns, DeleteConn(x)
       PROVE  Fine(d)
  <2>1. calls' = calls /\ conns' = conns \ {x}
    BY <1>16 DEF DeleteConn
  <2>2. \A y : y \in conns \/ y.id \notin Ids(conns)
                 => y \in conns' \/ y.id \notin Ids(conns')
    BY <1>1, <2>1 DEF Named, Ids
  <2> QED BY <1>2, <2>1, <2>2 DEF Fine, Holds, StillThere
<1> QED
  BY <1>8, <1>9, <1>10, <1>11, <1>12, <1>13, <1>14, <1>15, <1>16, <1>17 DEF FlowNext

LEMMA AppAgreesStep ==
    ASSUME Typed, Alone, StillThere, AppAgrees, [FlowNext]_flowVars
    PROVE  AppAgrees'
<1> DEFINE Agrees(x) == x.client = flows[x.token].app /\ x.secret = flows[x.token].app
<1>1. calls \in [Calls -> FlowCall] /\ Named(conns) /\ Given(conns) /\ Named(conns')
  <2>1. Typed'
    BY TypedStep
  <2>2. Plain'
    BY <2>1 DEF Typed, Plain, FlowTypeOK, Named
  <2> QED BY <2>2, TypedIsPlain DEF Typed, FlowTypeOK, Plain, Named
<1> SUFFICES ASSUME ~crossed'
             PROVE  AppAgrees'
  BY DEF AppAgrees
<1>2. ~crossed /\ \A x \in conns : x.token # 0 /\ x.id \notin asked => Agrees(x)
  BY CrossedStays DEF AppAgrees
<1>3. ASSUME flows' = flows, conns' \subseteq conns, asked' = asked
      PROVE  AppAgrees'
  BY <1>2, <1>3 DEF AppAgrees
<1>4. ASSUME NEW c \in Calls, NEW a \in Apps, OAuthInit(c, a)
      PROVE  AppAgrees'
  <2>1. \A g \in DOMAIN flows : flows'[g] = flows[g]
    BY <1>4, InitStep
  <2>2. conns' = conns /\ asked' = asked
    BY <1>4 DEF OAuthInit
  <2> QED BY <1>1, <1>2, <2>1, <2>2 DEF AppAgrees, Given
<1>5. ASSUME NEW c \in Calls, Save(c), ~Gone(calls[c])
      PROVE  AppAgrees'
  <2>1. PICK q \in FlowCall : q = calls[c]
    BY <1>1
  <2>2. conns' = Put(q) /\ asked' = asked \cup Ids(q.rows) /\ flows' = flows
    BY <1>5, <2>1 DEF Save
  <2>3. \A x \in Put(q) : \/ x \in conns /\ x.id \notin Ids(q.rows)
                          \/ x.id \in Ids(q.rows)
    <3>1. Copies(q) /\ conns \subseteq ConnRow
      BY <2>1, TypedIsPlain DEF Typed, Plain
    <3> QED BY <1>1, <1>5, <2>1, <3>1, PutKeeps DEF Copies
  <2> QED BY <1>2, <2>2, <2>3 DEF AppAgrees
<1>6. ASSUME NEW c \in Calls, CommitCallback(c), ~Gone(WithToken(calls[c]))
      PROVE  AppAgrees'
  <2>1. PICK q \in FlowCall : q = calls[c]
    BY <1>1
  <2>2. PICK w : w = WithToken(q)
    OBVIOUS
  <2>3. q.stage = "commit" /\ InOrder(q) /\ Copies(q)
    BY <1>6, <2>1, LeadsTo DEF CommitCallback, Typed
  <2>4. q.flow \in DOMAIN flows /\ q.op # "update"
    BY <2>3 DEF InOrder, Started
  <2>5. /\ w \in FlowCall /\ w.op = q.op /\ w.flow = q.flow /\ w.seen = q.seen
        /\ w.got = q.got /\ Ids(w.rows) = Ids(q.rows)
        /\ \A x \in w.rows : \E y \in q.rows :
              /\ x.id = y.id /\ x.client = y.client /\ x.secret = y.secret
              /\ q.got = "token" => x.token = q.flow
    BY <2>1, <2>2, <2>4, TokensGiven
  <2>6. /\ conns' = Put(w) /\ flows' = flows
        /\ asked' = IF q.got = "token" THEN asked \ Ids(w.rows) ELSE asked \cup Ids(w.rows)
    BY <1>6, <2>1, <2>2, <2>5 DEF CommitCallback
  <2>7. \A x \in Put(w) :
           \/ x \in conns /\ x.id \notin Ids(w.rows)
           \/ \E y \in w.rows : /\ x.id = y.id /\ x.client = y.client
                                /\ x.secret = y.secret /\ x.token = y.token
    <3>1. \A y \in w.seen : y \in conns \/ y.id \notin Ids(conns)
      BY <1>2, <2>1, <2>3, <2>5 DEF StillThere, HasRow
    <3>2. ~Gone(w) /\ w.op # "update" /\ Named(w.seen)
            /\ (w.seen # {} => Ids(w.rows) = Ids(w.seen))
      BY <1>6, <2>1, <2>2, <2>3, <2>4, <2>5 DEF Copies
    <3> QED BY <1>1, <2>5, <3>1, <3>2, PutAlone
  <2>8. \A y \in q.rows : y.client = flows[q.flow].app /\ y.secret = flows[q.flow].app
    BY <2>3 DEF Copies, HasRow
  <2>9. ASSUME NEW x \in conns', x.token # 0, x.id \notin asked'
        PROVE  Agrees(x)
    <3>1. CASE x \in conns /\ x.id \notin Ids(w.rows)
      BY <1>2, <2>6, <2>9, <3>1
    <3>2. CASE \E y \in w.rows : /\ x.id = y.id /\ x.client = y.client
                                 /\ x.secret = y.secret /\ x.token = y.token
      <4>1. PICK y \in w.rows : /\ x.id = y.id /\ x.client = y.client
                                /\ x.secret = y.secret /\ x.token = y.token
        BY <3>2
      <4>2. q.got = "token"
        BY <2>6, <2>9, <4>1 DEF Ids
      <4> QED BY <2>5, <2>8, <4>1, <4>2
    <3> QED BY <2>6, <2>7, <3>1, <3>2
  <2> QED BY <2>6, <2>9 DEF AppAgrees
<1>7. ASSUME NEW c \in Calls, Save(c) /\ Gone(calls[c])
      PROVE  AppAgrees'
  BY <1>3, <1>7 DEF Save
<1>8. ASSUME NEW c \in Calls, CommitCallback(c) /\ Gone(WithToken(calls[c]))
      PROVE  AppAgrees'
  BY <1>3, <1>8 DEF CommitCallback
<1>9. ASSUME NEW c \in Calls,
             \/ StoreState(c) \/ Peek(c) \/ Take(c) \/ GetState(c) \/ DeleteState(c) \/ LoadRow(c)
             \/ Exchange(c) \/ StoreOutcome(c) \/ Crash(c)
      PROVE  AppAgrees'
  <2>1. flows' = flows /\ conns' = conns /\ asked' = asked
    BY <1>9 DEF StoreState, Peek, Take, GetState, DeleteState, LoadRow, Exchange, StoreOutcome,
                Crash
  <2> QED BY <1>3, <2>1
<1>10. ASSUME NEW c \in Calls, NEW a \in Apps, UpdateApp(c, a)
       PROVE  AppAgrees'
  BY <1>3, <1>10 DEF UpdateApp
<1>11. ASSUME NEW c \in Calls, NEW f \in Flows, Visit(c, f)
       PROVE  AppAgrees'
  BY <1>3, <1>11 DEF Visit
<1>12. ASSUME \/ \E f \in Flows : Expire(f)
              \/ \E x \in conns : DeleteConn(x)
              \/ UNCHANGED flowVars
       PROVE  AppAgrees'
  <2>1. flows' = flows /\ conns' \subseteq conns /\ asked' = asked
    BY <1>12 DEF Expire, DeleteConn, flowVars
  <2> QED BY <1>3, <2>1
<1> QED
  BY <1>4, <1>5, <1>6, <1>7, <1>8, <1>9, <1>10, <1>11, <1>12 DEF FlowNext

LEMMA QuietInit ==
    ASSUME FlowInit
    PROVE  Alone /\ StillThere /\ AppAgrees
<1>1. \A c \in Calls : ~Started(calls[c]) /\ calls[c].stage = "idle"
  BY DEF FlowInit, Started, Idling
<1> QED BY <1>1 DEF FlowInit, Alone, StillThere, AppAgrees, HasRow

\* The tokens of a row were given to the application that it names, unless
\* another was set since or requests overlapped (the callbacks' commits)
THEOREM AppAlwaysAgrees == FlowSpec => []AppAgrees
<1> DEFINE I == Typed /\ Alone /\ StillThere /\ AppAgrees
<1>1. FlowInit => I
  BY TypedInit, QuietInit
<1>2. I /\ [FlowNext]_flowVars => I'
  BY TypedStep, AloneStep, StillThereStep, AppAgreesStep
<1> QED BY <1>1, <1>2, PTL DEF FlowSpec

-----------------------------------------------------------------------------
(* What a browser is told *)

LEMMA ServerStays ==
    ASSUME [FlowNext]_flowVars
    PROVE  server' = server
BY DEF FlowNext, flowVars, OAuthInit, UpdateApp, Visit, Save, StoreState, Peek, Take,
       GetState, DeleteState, LoadRow, Exchange, CommitCallback, StoreOutcome, Crash, Expire,
       DeleteConn

\* A step that tells, keeps and answers only what is connected
LEMMA StillConnected ==
    ASSUME Typed, Typed', Connections, server' = server, server # "github", done \subseteq done',
           NEW c \in Calls, \A d \in Calls : d # c => calls'[d] = calls[d],
           \A f \in Flows : "ok" \in told'[f] => "ok" \in told[f] \/ f \in done',
           \A f \in Flows : stash'[f] = "ok" => stash[f] = "ok" \/ f \in done',
           calls'[c].stage = "commit" \/ (calls'[c].stage = "load" /\ server = "gitlab")
             => calls'[c].got = "token",
           calls'[c].stage \in {"stash", "take"} /\ calls'[c].got = "ok"
             => calls'[c].flow \in done'
    PROVE  Connections'
<1>1. \A d \in Calls : Token(calls[d])'
  BY DEF Connections, Token
<1>2. \A f \in Flows : /\ "ok" \in told'[f] => f \in done'
                       /\ stash'[f] = "ok" => f \in done'
  BY DEF Connections
<1> QED BY <1>1, <1>2 DEF Connections

LEMMA ConnectionsStep ==
    ASSUME Typed, Connections, [FlowNext]_flowVars
    PROVE  Connections'
<1>1. Typed' /\ server' = server /\ calls \in [Calls -> FlowCall]
  BY TypedStep, ServerStays DEF Typed, FlowTypeOK
<1> SUFFICES ASSUME server # "github"
             PROVE  Connections'
  BY <1>1 DEF Connections
<1>2. \A d \in Calls : Token(calls[d]) /\ InOrder(calls[d])
  BY DEF Connections, Typed
<1>3. \A f \in Flows : /\ "ok" \in told[f] => f \in done
                       /\ stash[f] = "ok" => f \in done
  BY DEF Connections
\* A request that goes to a stage without an answer
<1>4. ASSUME NEW c \in Calls, \A d \in Calls : d # c => calls'[d] = calls[d],
             done' = done, told' = told,
             \A f \in Flows : stash'[f] = "ok" => stash[f] = "ok" \/ f \in done,
             \/ calls'[c].stage \in {"idle", "save", "key", "peek", "get", "recall", "del",
                                    "exchange"}
             \/ calls'[c].stage = "load" /\ server # "gitlab"
      PROVE  Connections'
  BY <1>1, <1>4, StillConnected
<1>5. ASSUME NEW c \in Calls, NEW what \in {"ok", "failed"}, Hear(c, what),
             calls[c].stage \notin {"idle", "save", "key"},
             what = "ok" => calls[c].flow \in done', done \subseteq done',
             \A f \in Flows : stash'[f] = "ok" => stash[f] = "ok"
      PROVE  Connections'
  <2>1. PICK q \in FlowCall : q = calls[c]
    BY <1>1
  <2>2. PICK r \in FlowCall :
           /\ calls' = [calls EXCEPT ![c] = r]
           /\ \/ r.flow = q.flow /\ r.stage = "stash" /\ r.got = what /\ told' = told
              \/ r = Idling /\ told' = [told EXCEPT ![q.flow] = @ \cup {what}]
    BY <1>5, <2>1, Hears
  <2>3. told \in [Flows -> SUBSET {"ok", "failed"}]
    BY DEF Typed, FlowTypeOK
  <2>4. \A f \in Flows : "ok" \in told'[f] => "ok" \in told[f] \/ f \in done'
    BY <1>5, <2>1, <2>2, <2>3
  <2>5. calls'[c] = r /\ \A d \in Calls : d # c => calls'[d] = calls[d]
    BY <1>1, <2>2
  <2>6. /\ r.stage = "stash" \/ r.stage = "idle"
        /\ r.stage = "stash" /\ r.got = "ok" => r.flow \in done'
    BY <1>5, <2>1, <2>2 DEF Idling
  <2> QED BY <1>1, <1>5, <2>4, <2>5, <2>6, StillConnected
<1>6. ASSUME NEW c \in Calls, NEW a \in Apps, OAuthInit(c, a) \/ UpdateApp(c, a)
      PROVE  Connections'
  <2>1. PICK r \in FlowCall : calls' = [calls EXCEPT ![c] = r] /\ r.stage = "save"
    BY <1>6, InitStep, UpdateMoves
  <2>2. done' = done /\ told' = told /\ stash' = stash
    BY <1>6 DEF OAuthInit, UpdateApp
  <2> QED BY <1>1, <1>4, <2>1, <2>2
<1>7. ASSUME NEW c \in Calls, NEW f \in Flows, Visit(c, f)
      PROVE  Connections'
  <2>1. PICK r \in FlowCall : /\ calls' = [calls EXCEPT ![c] = r]
                              /\ r.stage = IF r.op = "back" THEN "peek" ELSE "get"
    BY <1>7, VisitMoves
  <2>2. done' = done /\ told' = told /\ stash' = stash
    BY <1>7 DEF Visit
  <2> QED BY <1>1, <1>4, <2>1, <2>2
<1>8. ASSUME NEW c \in Calls, Save(c) \/ StoreState(c) \/ Crash(c)
      PROVE  Connections'
  <2>1. done' = done /\ told' = told /\ stash' = stash
    BY <1>8 DEF Save, StoreState, Crash
  <2>2. calls'[c].stage \in {"idle", "key"} /\ \A d \in Calls : d # c => calls'[d] = calls[d]
    <3>1. Stage(c, "key") \/ Done(c)
      BY <1>8 DEF Save, StoreState, Crash
    <3> QED BY <1>1, <3>1, LeadsTo DEF Stage, Done
  <2> QED BY <1>4, <2>1, <2>2
<1>9. ASSUME NEW c \in Calls, Peek(c) \/ GetState(c)
      PROVE  Connections'
  <2>1. PICK q \in FlowCall : q = calls[c]
    BY <1>1
  <2>2. /\ q.stage \in {"peek", "recall", "get"}
        /\ done' = done /\ stash' = stash
    BY <1>9, <2>1 DEF Peek, GetState
  <2>3. \/ \E s \in {"get", "recall", "del"} : Stage(c, s) /\ told' = told
        \/ Hear(c, "failed")
        \/ /\ stash[q.flow] \in {"ok", "failed"} /\ told' = told /\ q.flow \in Flows
           /\ \E r \in FlowCall : /\ calls' = [calls EXCEPT ![c] = r] /\ r.stage = "take"
                                  /\ r.flow = q.flow /\ r.got = stash[q.flow]
    <3>1. CASE Peek(c)
      BY <2>1, <3>1, PeekMoves
    <3>2. CASE GetState(c)
      BY <2>1, <3>2 DEF GetState
    <3> QED BY <1>9, <3>1, <3>2
  <2>4. CASE \E s \in {"get", "recall", "del"} : Stage(c, s) /\ told' = told
    <3>1. /\ calls'[c].stage \in {"get", "recall", "del"}
          /\ \A d \in Calls : d # c => calls'[d] = calls[d]
      BY <1>1, <2>4, LeadsTo DEF Stage
    <3> QED BY <1>4, <2>2, <2>4, <3>1
  <2>5. CASE Hear(c, "failed")
    <3>1. PICK what \in {"ok", "failed"} : what = "failed"
      OBVIOUS
    <3> QED BY <1>5, <2>1, <2>2, <2>5, <3>1
  <2>6. CASE /\ stash[q.flow] \in {"ok", "failed"} /\ told' = told /\ q.flow \in Flows
             /\ \E r \in FlowCall : /\ calls' = [calls EXCEPT ![c] = r] /\ r.stage = "take"
                                    /\ r.flow = q.flow /\ r.got = stash[q.flow]
    <3>1. PICK r \in FlowCall : /\ calls' = [calls EXCEPT ![c] = r] /\ r.stage = "take"
                                /\ r.flow = q.flow /\ r.got = stash[q.flow]
      BY <2>6
    <3>2. calls'[c] = r /\ \A d \in Calls : d # c => calls'[d] = calls[d]
      BY <1>1, <3>1
    <3>3. r.got = "ok" => r.flow \in done'
      BY <1>3, <2>2, <2>6, <3>1
    <3> QED BY <1>1, <2>2, <2>6, <3>1, <3>2, <3>3, StillConnected
  <2> QED BY <2>3, <2>4, <2>5, <2>6
<1>16. ASSUME NEW c \in Calls, Take(c)
       PROVE  Connections'
  <2>1. PICK q \in FlowCall : q = calls[c]
    BY <1>1
  <2>2. /\ q.stage = "take" /\ q.got \in {"ok", "failed"} /\ done' = done
        /\ stash' = [stash EXCEPT ![q.flow] = "none"] /\ Hear(c, q.got)
        /\ q.got = "ok" => q.flow \in done
    BY <1>2, <1>16, <2>1 DEF Take, InOrder, Token
  <2>3. PICK what \in {"ok", "failed"} : what = q.got
    BY <2>2
  <2>4. \A f \in Flows : stash'[f] = "ok" => stash[f] = "ok"
    <3>1. stash \in [Flows -> {"none", "ok", "failed"}]
      BY DEF Typed, FlowTypeOK
    <3> QED BY <2>2, <3>1
  <2> QED BY <1>5, <2>1, <2>2, <2>3, <2>4
<1>10. ASSUME NEW c \in Calls, DeleteState(c)
       PROVE  Connections'
  <2>1. done' = done /\ stash' = stash /\ calls[c].stage = "del"
    BY <1>10 DEF DeleteState
  <2>2. StageAfter("del") = IF server = "gitlab" THEN "exchange" ELSE "load"
    BY TypedIsPlain, NextStages
  <2>3. CASE Hear(c, "failed")
    BY <1>5, <2>1, <2>3
  <2>4. CASE ~Hear(c, "failed")
    <3>1. Stage(c, StageAfter("del")) /\ told' = told
      BY <1>10, <2>4 DEF DeleteState
    <3>2. /\ calls'[c].stage = "exchange" \/ (calls'[c].stage = "load" /\ server # "gitlab")
          /\ \A d \in Calls : d # c => calls'[d] = calls[d]
      BY <1>1, <2>2, <3>1, LeadsTo DEF Stage
    <3> QED BY <1>4, <2>1, <3>1, <3>2
  <2> QED BY <2>3, <2>4
<1>11. ASSUME NEW c \in Calls, LoadRow(c)
       PROVE  Connections'
  <2>1. PICK q \in FlowCall : q = calls[c]
    BY <1>1
  <2>2. PICK r \in FlowCall :
           /\ calls' = [calls EXCEPT ![c] = r] /\ r.got = q.got
           /\ r.stage = IF server = "gitlab" THEN "commit" ELSE "exchange"
    BY <1>11, <2>1, LoadMoves
  <2>3. done' = done /\ told' = told /\ stash' = stash /\ q.stage = "load"
    BY <1>11, <2>1 DEF LoadRow
  <2>4. r.stage = "commit" => r.got = "token"
    BY <1>2, <2>1, <2>2, <2>3 DEF Token
  <2>5. calls'[c] = r /\ \A d \in Calls : d # c => calls'[d] = calls[d]
    BY <1>1, <2>2
  <2> QED BY <1>1, <2>2, <2>3, <2>4, <2>5, StillConnected
<1>12. ASSUME NEW c \in Calls, Exchange(c)
       PROVE  Connections'
  <2>1. PICK q \in FlowCall : q = calls[c]
    BY <1>1
  <2>2. done' = done /\ stash' = stash
    BY <1>12 DEF Exchange
  <2>3. CASE Hear(c, "failed")
    <3>1. q.stage = "exchange"
      BY <1>12, <2>1, ExchangeMoves
    <3> QED BY <1>5, <2>1, <2>2, <2>3, <3>1
  <2>4. CASE ~Hear(c, "failed")
    <3>1. PICK r \in FlowCall :
             /\ told' = told /\ calls' = [calls EXCEPT ![c] = r]
             /\ r.stage = IF server = "gitlab" THEN "load" ELSE "commit"
             /\ r.got = "token"
      BY <1>12, <2>1, <2>4, ExchangeMoves
    <3>2. calls'[c] = r /\ \A d \in Calls : d # c => calls'[d] = calls[d]
      BY <1>1, <3>1
    <3> QED BY <1>1, <2>2, <3>1, <3>2, StillConnected
  <2> QED BY <2>3, <2>4
<1>13. ASSUME NEW c \in Calls, CommitCallback(c)
       PROVE  Connections'
  <2>1. PICK q \in FlowCall : q = calls[c]
    BY <1>1
  <2>2. PICK w : w = WithToken(q)
    OBVIOUS
  <2>3. q.stage = "commit" /\ InOrder(q) /\ q.got = "token"
    BY <1>2, <1>13, <2>1, LeadsTo DEF CommitCallback, Token
  <2>4. w.flow = q.flow /\ w.got = q.got
    BY <2>2 DEF WithToken, FlowCall
  <2>5. stash' = stash
    BY <1>13 DEF CommitCallback
  <2>6. CASE Gone(w)
    <3>1. Hear(c, "failed") /\ done' = done
      BY <1>13, <2>1, <2>2, <2>6 DEF CommitCallback
    <3> QED BY <1>5, <2>1, <2>3, <2>5, <3>1
  <2>7. CASE ~Gone(w)
    <3>1. Hear(c, "ok") /\ done' = done \cup {q.flow}
      BY <1>13, <2>1, <2>2, <2>3, <2>4, <2>7 DEF CommitCallback
    <3> QED BY <1>5, <2>1, <2>3, <2>5, <3>1
  <2> QED BY <2>6, <2>7
<1>14. ASSUME NEW c \in Calls, StoreOutcome(c)
       PROVE  Connections'
  <2>1. PICK q \in FlowCall : q = calls[c]
    BY <1>1
  <2>2. /\ q.stage = "stash" /\ stash' = [stash EXCEPT ![q.flow] = q.got] /\ Done(c)
        /\ done' = done /\ told' = told
    BY <1>14, <2>1 DEF StoreOutcome
  <2>3. q.got = "ok" => q.flow \in done
    BY <1>2, <2>1, <2>2 DEF Token
  <2>4. \A f \in Flows : stash'[f] = "ok" => stash[f] = "ok" \/ f \in done
    BY <2>2, <2>3 DEF Typed, FlowTypeOK
  <2>5. calls'[c].stage = "idle" /\ \A d \in Calls : d # c => calls'[d] = calls[d]
    BY <1>1, <2>2, LeadsTo DEF Done
  <2> QED BY <1>4, <2>2, <2>4, <2>5
<1>15. ASSUME \/ \E f \in Flows : Expire(f)
              \/ \E x \in conns : DeleteConn(x)
              \/ UNCHANGED flowVars
       PROVE  Connections'
  <2>1. calls' = calls /\ told' = told /\ done' = done
    BY <1>15 DEF Expire, DeleteConn, flowVars
  <2>2. \A f \in Flows : stash'[f] = "ok" => stash[f] = "ok"
    BY <1>15 DEF Expire, DeleteConn, flowVars, Typed, FlowTypeOK
  <2>3. \A d \in Calls : Token(calls[d])'
    BY <1>2, <2>1, <1>1 DEF Token
  <2> QED BY <1>1, <1>3, <2>1, <2>2, <2>3 DEF Connections
<1> QED
  BY <1>6, <1>7, <1>8, <1>9, <1>10, <1>11, <1>12, <1>13, <1>14, <1>15, <1>16 DEF FlowNext

LEMMA ConnectionsInit ==
    ASSUME FlowInit
    PROVE  Connections
BY DEF FlowInit, Connections, Token, Idling

-----------------------------------------------------------------------------
(* The past of a flow that was visited once by a POST and once by a browser *)

\* Nothing about a flow changes
Same(f) ==
    /\ states'[f] = states[f] /\ told'[f] = told[f] /\ stash'[f] = stash[f]
    /\ codes'[f] = codes[f] /\ visits'[f] = visits[f] /\ (f \in done' <=> f \in done)

LEMMA CalmBefore ==
    ASSUME Typed, [FlowNext]_flowVars, Calm'
    PROVE  /\ Calm /\ ~crossed /\ server' = server /\ server = "gitflic"
           /\ \A f \in Flows : Few(f)' => Few(f)
<1>1. server' = server /\ ~crossed /\ ~crossed'
  BY ServerStays, CrossedStays DEF Calm
<1>2. errors \in Nat /\ errors' = 0 /\ ~late' /\ visits \in [Flows -> [posts : Nat, gets : Nat]]
  BY OAuthConstantsOK DEF Typed, FlowTypeOK, Calm
<1>3. errors = 0
  <2>1. ASSUME NEW c \in Calls, Exchange(c)
        PROVE  errors = 0
    <3>1. PICK q \in FlowCall : q = calls[c]
      BY DEF Typed, FlowTypeOK
    <3>2. errors' >= errors
      BY <2>1, <3>1, ExchangeMoves
    <3> QED BY <1>2, <3>2
  <2>2. ASSUME NEW c \in Calls, Crash(c)
        PROVE  FALSE
    BY <1>2, <2>2 DEF Crash
  <2>3. errors' = errors \/ \E c \in Calls : Exchange(c) \/ Crash(c)
    BY DEF FlowNext, flowVars, OAuthInit, UpdateApp, Visit, Save, StoreState, Peek, Take,
           GetState, DeleteState, LoadRow, CommitCallback, StoreOutcome, Expire, DeleteConn
  <2> QED BY <1>2, <2>1, <2>2, <2>3
<1>4. ~late
  BY <1>2 DEF FlowNext, flowVars, OAuthInit, UpdateApp, Visit, Save, StoreState, Peek, Take,
           GetState, DeleteState, LoadRow, Exchange, CommitCallback, StoreOutcome, Crash, Expire,
           DeleteConn
<1>5. ASSUME NEW c \in Calls, NEW g \in Flows, Visit(c, g), NEW f \in Flows, Few(f)'
      PROVE  Few(f)
  <2>1. \/ visits' = [visits EXCEPT ![g].posts = @ + 1]
        \/ visits' = [visits EXCEPT ![g].gets = @ + 1]
    BY <1>5 DEF Visit
  <2>2. \/ visits'[f] = visits[f]
        \/ visits'[f] = [visits[f] EXCEPT !.posts = @ + 1]
        \/ visits'[f] = [visits[f] EXCEPT !.gets = @ + 1]
    BY <1>2, <2>1
  <2>3. visits[f] \in [posts : Nat, gets : Nat]
    BY <1>2
  <2> QED BY <1>5, <2>2, <2>3 DEF Few
<1>6. visits' = visits \/ \E c \in Calls, f \in Flows : Visit(c, f)
  BY DEF FlowNext, flowVars, OAuthInit, UpdateApp, Save, StoreState, Peek, Take, GetState,
         DeleteState, LoadRow, Exchange, CommitCallback, StoreOutcome, Crash, Expire, DeleteConn
<1>7. \A f \in Flows : Few(f)' => Few(f)
  BY <1>5, <1>6 DEF Few
<1> QED BY <1>1, <1>2, <1>3, <1>4, <1>7 DEF Calm

\* The past of a flow that nothing happens to, and whose outcome nobody holds
LEMMA PastKept ==
    ASSUME NEW f \in Flows, Past(f), Same(f), \A d \in Calls : ~Leaving(calls[d], f)
    PROVE  Past(f)'
BY DEF Past, Same, Untold

\* A step of the only request at work
LEMMA Onward ==
    ASSUME Typed, Alone, History, Calm, Calm', \A f \in Flows : Few(f)' => Few(f),
           NEW c \in Calls, \A d \in Calls : d # c => calls'[d] = calls[d],
           Started(calls[c]) \/ AtWork = {},
           NEW g, Started(calls[c]) => calls[c].flow = g,
           \A f \in Flows : f # g => Same(f),
           g \in Flows => (Few(g)' => Past(g)'),
           NEW r, r = calls'[c], Unstored(r)',
           Visiting(r) => (Few(r.flow)' => Now(r)')
    PROVE  History'
<1>1. \A d \in Calls : d # c => ~Started(calls[d])
  BY DEF Alone, Calm, AtWork, Started
<1>2. ASSUME NEW f \in Flows, Few(f)'
      PROVE  Past(f)'
  <2>1. CASE f = g
    BY <1>2, <2>1
  <2>2. CASE f # g
    <3>1. Past(f)
      BY <1>2 DEF History
    <3>2. \A d \in Calls : ~Leaving(calls[d], f)
      BY <1>1, <2>2 DEF Leaving, Started
    <3> QED BY <2>2, <3>1, <3>2, PastKept
  <2> QED BY <2>1, <2>2
<1>3. ASSUME NEW d \in Calls
      PROVE  /\ Unstored(calls[d])'
             /\ (Visiting(calls[d]) /\ Few(calls[d].flow) => Now(calls[d]))'
  <2>1. CASE d = c
    <3>1. Unstored(calls[d])'
      BY <2>1 DEF Unstored, Writing, Started
    <3>2. (Visiting(calls[d]) /\ Few(calls[d].flow) => Now(calls[d]))'
      BY <2>1 DEF Visiting, Few, Now, Untold, Started
    <3> QED BY <3>1, <3>2
  <2>2. CASE d # c
    BY <1>1, <2>2 DEF Unstored, Writing, Visiting, Started
  <2> QED BY <2>1, <2>2
<1> QED BY <1>2, <1>3 DEF History

\* A step that starts a request or moves one that is no visit
LEMMA WriterOnward ==
    ASSUME Typed, Alone, History, Calm, Calm', \A f \in Flows : Few(f)' => Few(f),
           NEW c \in Calls, \A d \in Calls : d # c => calls'[d] = calls[d],
           Started(calls[c]) \/ AtWork = {},
           ~Started(calls[c]) \/ calls[c].stage # "stash", \A f \in Flows : Same(f),
           NEW r, r = calls'[c], Unstored(r)',
           Visiting(r) => (Few(r.flow)' => Now(r)')
    PROVE  History'
<1>1. PICK g : g = calls[c].flow
  OBVIOUS
<1>2. \A f \in Flows, d \in Calls : ~Leaving(calls[d], f)
  BY DEF Alone, Calm, AtWork, Started, Leaving
<1>3. g \in Flows => (Few(g)' => Past(g)')
  BY <1>2, PastKept DEF History
<1> QED BY <1>1, <1>3, Onward

\* A request of a flow with a spent state hears of a failure
LEMMA FailureOnward ==
    ASSUME Typed, Alone, History, Calm, Calm', \A f \in Flows : Few(f)' => Few(f),
           NEW c \in Calls, NEW q \in FlowCall, q = calls[c],
           q.stage \notin {"idle", "save", "key", "stash"},
           NEW what \in {"ok", "failed"}, Hear(c, what),
           Few(q.flow) => states'[q.flow] = "gone",
           \A f \in Flows : f # q.flow => Same(f),
           visits' = visits,
           done' = done, stash'[q.flow] = "none" \/ stash'[q.flow] = stash[q.flow],
           q.op \in Posts => stash' = stash,
           Few(q.flow) => (codes'[q.flow] = "none" <=> codes[q.flow] = "none"),
           Few(q.flow) => q.flow \notin done \/ q.op \in Posts \/ what = "ok",
           Few(q.flow) => Past(q.flow) /\ Now(q)
    PROVE  History'
<1>1. PICK g : g = q.flow
  OBVIOUS
<1>2. g \in Flows /\ told \in [Flows -> SUBSET {"ok", "failed"}] /\ calls \in [Calls -> FlowCall]
  BY <1>1, Hears DEF Typed, FlowTypeOK
<1>3. PICK r \in FlowCall :
         /\ calls' = [calls EXCEPT ![c] = r]
         /\ \/ q.op \in Posts /\ r.op = q.op /\ r.flow = q.flow /\ r.stage = "stash"
                 /\ r.got = what /\ told' = told
            \/ q.op \notin Posts /\ r = Idling
                 /\ told' = [told EXCEPT ![q.flow] = @ \cup {what}]
  BY Hears
<1>4. calls'[c] = r /\ \A d \in Calls : d # c => calls'[d] = calls[d]
  BY <1>2, <1>3
<1>5. \A f \in Flows : f # g => Same(f)
  BY <1>1
<1>6. ASSUME Few(g)'
      PROVE  Past(g)'
  <2>1. /\ Few(g) /\ Past(g) /\ Now(q) /\ states'[g] = "gone"
        /\ codes'[g] = "none" <=> codes[g] = "none"
        /\ g \notin done \/ q.op \in Posts \/ what = "ok"
    BY <1>1, <1>2, <1>6
  <2>2. CASE q.op \in Posts
    <3>1. told' = told /\ stash' = stash /\ states'[g] = "gone"
      BY <1>1, <1>3, <2>1, <2>2
    <3>2. \A d \in Calls : ~Leaving(calls[d], g)
      BY DEF Alone, Calm, Leaving, Started
    <3>3. g \in done' => codes'[g] # "none"
      BY <1>1, <2>1 DEF Past
    <3> QED BY <2>1, <3>1, <3>2, <3>3 DEF Past
  <2>3. CASE q.op \notin Posts
    <3>1. told'[g] = {what} /\ visits'[g].gets = 1
      BY <1>1, <1>2, <1>3, <2>1, <2>3 DEF Now
    <3>2. stash'[g] # "none" => visits'[g].posts = 1
      BY <1>1, <2>1 DEF Past
    <3>3. "failed" \in told'[g] => g \notin done'
      BY <2>1, <2>3, <3>1
    <3>4. g \in done' => codes'[g] # "none"
      BY <1>1, <2>1 DEF Past
    <3> QED BY <2>1, <3>1, <3>2, <3>3, <3>4 DEF Past
  <2> QED BY <2>2, <2>3
<1>7. Unstored(r)' /\ (Visiting(r) => (Few(r.flow)' => Now(r)'))
  <2>1. CASE r = Idling
    BY <2>1 DEF Unstored, Writing, Visiting, Started, Idling
  <2>2. CASE r # Idling
    <3>1. q.op \in Posts /\ r.op = q.op /\ r.flow = q.flow /\ r.stage = "stash"
            /\ told' = told /\ stash' = stash
      BY <1>3, <2>2
    <3>2. r.op \in {"post", "refused"}
      BY <3>1 DEF Posts
    <3>3. Unstored(r)'
      BY <3>2 DEF Unstored, Writing
    <3>4. ASSUME Few(r.flow)'
          PROVE  Now(r)'
      <4>1. /\ Now(q) /\ states'[q.flow] = "gone"
            /\ codes'[q.flow] = "none" <=> codes[q.flow] = "none"
        BY <1>1, <1>2, <3>1, <3>4
      <4>2. q.op \in Posts => stash'[r.flow] = "none" /\ visits'[r.flow].posts = 1
        BY <3>1, <4>1 DEF Now
      <4>3. r.op = "refused" => codes'[r.flow] = "none"
        BY <3>1, <4>1 DEF Now
      <4>4. r.op = "post" => codes'[r.flow] # "none"
        BY <3>1, <4>1 DEF Now
      <4> QED BY <3>1, <3>2, <4>1, <4>2, <4>3, <4>4 DEF Now
    <3> QED BY <3>3, <3>4
  <2> QED BY <2>1, <2>2
<1>8. Started(calls[c]) /\ calls[c].flow = g
  BY <1>1 DEF Started
<1> QED BY <1>4, <1>5, <1>6, <1>7, <1>8, Onward

LEMMA HistoryStep ==
    ASSUME Typed, Alone, History, [FlowNext]_flowVars
    PROVE  History'
<1> SUFFICES ASSUME Calm'
             PROVE  History'
  BY DEF History
<1>1. /\ Calm /\ ~crossed /\ ~crossed' /\ server' = server /\ server = "gitflic"
      /\ \A f \in Flows : Few(f)' => Few(f)
  BY CalmBefore DEF Calm
<1>2. /\ calls \in [Calls -> FlowCall]
      /\ states \in [Flows -> {"absent", "stored", "gone"}]
      /\ codes \in [Flows -> {"none", "issued", "spent"}]
      /\ stash \in [Flows -> {"none", "ok", "failed"}]
      /\ told \in [Flows -> SUBSET {"ok", "failed"}]
      /\ visits \in [Flows -> [posts : Nat, gets : Nat]]
  BY DEF Typed, FlowTypeOK
<1>3. \A f \in Flows : Few(f) => Past(f)
  BY <1>1 DEF History
<1>4. \A c \in Calls : /\ Unstored(calls[c]) /\ InOrder(calls[c])
                       /\ Visiting(calls[c]) /\ Few(calls[c].flow) => Now(calls[c])
  BY <1>1 DEF History, Typed
<1>5. \A c, d \in Calls : Started(calls[c]) /\ d # c => ~Started(calls[d])
  BY <1>1 DEF Alone
<1>6. ASSUME NEW c \in Calls, calls[c].stage \notin {"idle", "save", "key"}
      PROVE  /\ Visiting(calls[c]) /\ Started(calls[c]) /\ calls[c].flow \in Flows
             /\ Few(calls[c].flow) => Past(calls[c].flow) /\ Now(calls[c])
  <2>1. Visiting(calls[c]) /\ Started(calls[c])
    BY <1>4, <1>6 DEF InOrder, Visiting, Started
  <2>2. calls[c].flow \in Flows
    BY <1>4, <1>6, <2>1 DEF InOrder, Started, Typed, FlowTypeOK
  <2> QED BY <1>3, <1>4, <2>1, <2>2
<1>7. ASSUME NEW c \in Calls, NEW a \in Apps, OAuthInit(c, a)
      PROVE  History'
  <2>1. PICK r \in FlowCall :
           /\ calls' = [calls EXCEPT ![c] = r] /\ r.op = "init" /\ r.stage = "save"
           /\ r.flow \in Flows \ DOMAIN flows
    BY <1>7, InitStep
  <2>2. \A f \in Flows : Same(f)
    BY <1>7 DEF OAuthInit, Same
  <2>3. AtWork = {}
    BY <1>1, <1>7 DEF OAuthInit, Start
  <2>4. states[r.flow] = "absent"
    BY <2>1 DEF Typed
  <2>5. Unstored(r)' /\ ~Visiting(r) /\ ~Started(calls[c])
    BY <2>1, <2>2, <2>3, <2>4 DEF Unstored, Visiting, Same, AtWork, Started
  <2>6. r = calls'[c] /\ \A d \in Calls : d # c => calls'[d] = calls[d]
    BY <1>2, <2>1
  <2> QED BY <1>1, <2>2, <2>3, <2>5, <2>6, WriterOnward
<1>8. ASSUME NEW c \in Calls, NEW a \in Apps, UpdateApp(c, a)
      PROVE  History'
  <2>1. PICK r \in FlowCall :
           calls' = [calls EXCEPT ![c] = r] /\ r.op = "update" /\ r.stage = "save"
    BY <1>8, UpdateMoves
  <2>2. \A f \in Flows : Same(f)
    BY <1>8 DEF UpdateApp, Same
  <2>3. AtWork = {}
    BY <1>1, <1>8 DEF UpdateApp, Start
  <2>4. Unstored(r)' /\ ~Visiting(r) /\ ~Started(calls[c])
    BY <2>1, <2>3 DEF Unstored, Visiting, AtWork, Started
  <2>5. r = calls'[c] /\ \A d \in Calls : d # c => calls'[d] = calls[d]
    BY <1>2, <2>1
  <2> QED BY <1>1, <2>2, <2>3, <2>4, <2>5, WriterOnward
<1>9. ASSUME NEW c \in Calls, NEW g \in Flows, Visit(c, g)
      PROVE  History'
  <2>1. PICK r \in FlowCall :
           /\ calls' = [calls EXCEPT ![c] = r]
           /\ r.flow = g /\ r.op \in Visits(g)
           /\ r.op \in {"callback", "denied", "post", "refused", "back"}
           /\ r.stage = IF r.op = "back" THEN "peek" ELSE "get"
           /\ codes' = IF r.op \in {"callback", "post"} /\ codes[g] = "none"
                       THEN [codes EXCEPT ![g] = "issued"] ELSE codes
           /\ visits' = IF r.op \in Posts THEN [visits EXCEPT ![g].posts = @ + 1]
                                          ELSE [visits EXCEPT ![g].gets = @ + 1]
    BY <1>9, VisitMoves
  <2>2. AtWork = {}
    BY <1>1, <1>9 DEF Visit, Start
  <2>3. states' = states /\ told' = told /\ stash' = stash /\ done' = done
          /\ states[g] # "absent"
    BY <1>9 DEF Visit
  <2>4. /\ codes' \in [Flows -> {"none", "issued", "spent"}]
        /\ codes[g] # "none" => codes'[g] # "none"
        /\ r.op \in {"callback", "post"} => codes'[g] # "none"
        /\ r.op \in {"denied", "refused"} => codes'[g] = "none"
        /\ \A f \in Flows : f # g => codes'[f] = codes[f]
    <3>1. r.op \in {"denied", "refused"} => codes[g] = "none"
      BY <1>1, <2>1 DEF Visits
    <3> QED BY <1>2, <2>1, <3>1
  <2>5. /\ r.op \in Posts => /\ visits'[g].posts = visits[g].posts + 1
                             /\ visits'[g].gets = visits[g].gets
        /\ r.op \notin Posts => /\ visits'[g].gets = visits[g].gets + 1
                                /\ visits'[g].posts = visits[g].posts
        /\ \A f \in Flows : f # g => visits'[f] = visits[f]
        /\ visits[g].posts \in Nat /\ visits[g].gets \in Nat
    <3>1. visits[g] \in [posts : Nat, gets : Nat]
      BY <1>2
    <3>2. \/ r.op \in Posts /\ visits' = [visits EXCEPT ![g].posts = @ + 1]
          \/ r.op \notin Posts /\ visits' = [visits EXCEPT ![g].gets = @ + 1]
      BY <2>1
    <3> QED BY <1>2, <3>1, <3>2
  <2>6. \A f \in Flows : f # g => Same(f)
    BY <2>3, <2>4, <2>5 DEF Same
  <2>7. ASSUME Few(g)'
        PROVE  /\ Past(g) /\ Past(g)'
               /\ r.op \in Posts => visits'[g].posts = 1 /\ stash'[g] = "none"
               /\ r.op \notin Posts => visits'[g].gets = 1 /\ told'[g] = {}
    <3>1. Past(g)
      BY <1>1, <1>3, <2>7
    <3>2. \A d \in Calls : ~Leaving(calls[d], g)
      BY <2>2 DEF AtWork, Leaving
    <3>3. r.op \in Posts => visits'[g].posts = 1 /\ visits[g].posts = 0
      BY <2>5, <2>7 DEF Few
    <3>4. r.op \notin Posts => visits'[g].gets = 1 /\ visits[g].gets = 0
      BY <2>5, <2>7 DEF Few
    <3>5. /\ r.op \in Posts => stash'[g] = "none"
          /\ r.op \notin Posts => told'[g] = {}
      BY <2>3, <3>1, <3>3, <3>4 DEF Past
    <3>6. Past(g)'
      <4>1. told'[g] # {} => visits'[g].gets = 1
        BY <2>3, <2>5, <3>1, <3>5 DEF Past
      <4>2. stash'[g] # "none" => visits'[g].posts = 1
        BY <2>3, <2>5, <3>1, <3>5 DEF Past
      <4> QED BY <2>3, <2>4, <3>1, <3>2, <4>1, <4>2 DEF Past, Untold
    <3> QED BY <3>1, <3>3, <3>4, <3>5, <3>6
  <2>8. Few(g)' => Now(r)'
    BY <2>1, <2>3, <2>4, <2>7 DEF Now
  <2>9. r = calls'[c] /\ (\A d \in Calls : d # c => calls'[d] = calls[d]) /\ ~Started(calls[c])
    BY <1>2, <2>1, <2>2 DEF AtWork, Started
  <2>10. Unstored(r)'
    BY <2>1 DEF Unstored, Writing
  <2>11. Visiting(r) => (Few(r.flow)' => Now(r)')
    BY <2>1, <2>8
  <2> QED BY <1>1, <2>2, <2>6, <2>7, <2>9, <2>10, <2>11, Onward
<1>10. ASSUME NEW c \in Calls, Save(c)
       PROVE  History'
  <2>1. PICK q \in FlowCall : q = calls[c]
    BY <1>2
  <2>2. q.stage = "save" /\ Started(q) /\ Unstored(q) /\ q.op \in {"init", "update"}
    BY <1>4, <1>10, <2>1 DEF Save, Started, InOrder
  <2>3. \A f \in Flows : Same(f)
    BY <1>10 DEF Save, Same
  <2>4. states' = states
    BY <1>10 DEF Save
  <2>5. PICK r : r = calls'[c]
    OBVIOUS
  <2>6. r = Idling \/ (r = [q EXCEPT !.stage = "key"] /\ q.op = "init")
    BY <1>10, <2>1, <2>5, LeadsTo DEF Save
  <2>7. Unstored(r)' /\ ~Visiting(r)
    <3>1. CASE r = Idling
      BY <3>1 DEF Idling, Unstored, Writing, Visiting, Started
    <3>2. CASE r # Idling
      <4>1. r.op = "init" /\ r.flow = q.flow
        BY <2>6, <3>2 DEF FlowCall
      <4> QED BY <2>2, <2>4, <4>1, <2>6, <3>2 DEF Unstored, Writing, Visiting, Started
    <3> QED BY <3>1, <3>2
  <2>8. \A d \in Calls : d # c => calls'[d] = calls[d]
    BY <1>2, <1>10 DEF Save, Stage, Done
  <2> QED BY <1>1, <2>1, <2>2, <2>3, <2>5, <2>7, <2>8, WriterOnward
<1>11. ASSUME NEW c \in Calls, StoreState(c)
       PROVE  History'
  <2>1. PICK q \in FlowCall : q = calls[c]
    BY <1>2
  <2>2. PICK g : g = q.flow
    OBVIOUS
  <2>3. q.stage = "key" /\ Started(q) /\ q.op = "init" /\ g \in Flows /\ states[g] = "absent"
    <3>1. q.stage = "key" /\ q.op = "init" /\ Started(q)
      BY <1>4, <1>11, <2>1 DEF StoreState, Started, InOrder
    <3>2. g \in Flows /\ states[g] = "absent"
      BY <1>4, <2>1, <2>2, <3>1 DEF InOrder, Unstored, Writing, Typed, FlowTypeOK
    <3> QED BY <3>1, <3>2
  <2>4. /\ states' = [states EXCEPT ![g] = "stored"] /\ calls' = [calls EXCEPT ![c] = Idling]
        /\ told' = told /\ stash' = stash /\ codes' = codes /\ visits' = visits /\ done' = done
    BY <1>11, <2>1, <2>2 DEF StoreState, Done
  <2>5. \A f \in Flows : f # g => Same(f)
    BY <1>2, <2>4 DEF Same
  <2>6. Few(g)' => Past(g)'
    <3> SUFFICES ASSUME Few(g)'
                 PROVE  Past(g)'
      OBVIOUS
    <3>1. Past(g) /\ Untold(g)
      BY <1>1, <1>3, <2>3 DEF Past
    <3>2. states'[g] = "stored"
      BY <1>2, <2>3, <2>4
    <3> QED BY <2>4, <3>1, <3>2 DEF Past, Untold
  <2>7. PICK r : r = calls'[c]
    OBVIOUS
  <2>8. r = Idling /\ \A d \in Calls : d # c => calls'[d] = calls[d]
    BY <1>2, <2>4, <2>7
  <2>9. Unstored(r)' /\ ~Visiting(r)
    BY <2>8 DEF Idling, Unstored, Writing, Visiting, Started
  <2> QED BY <1>1, <2>1, <2>2, <2>3, <2>5, <2>6, <2>7, <2>8, <2>9, Onward
<1>12. ASSUME NEW c \in Calls, Peek(c)
       PROVE  History'
  <2>1. PICK q \in FlowCall : q = calls[c]
    BY <1>2
  <2>2. /\ q.stage \in {"peek", "recall"} /\ q.flow \in Flows /\ Started(q)
        /\ q.op \in {"callback", "back"} /\ q.op \notin Posts
        /\ Few(q.flow) => Past(q.flow) /\ Now(q)
    <3>1. /\ q.stage \in {"peek", "recall"} /\ q.op \in {"callback", "back"}
          /\ q.op \notin Posts
      BY <1>12, <2>1, PeekMoves
    <3> QED BY <1>6, <2>1, <3>1
  <2>3. \A d \in Calls : ~Leaving(calls[d], q.flow)
    BY <1>5, <2>1, <2>2 DEF Leaving, Started
  <2>4. /\ states' = states /\ codes' = codes /\ visits' = visits /\ done' = done
        /\ stash' = stash
    BY <1>12 DEF Peek
  <2>5. Few(q.flow) => (q.flow \in done => stash[q.flow] = "ok")
    BY <2>2, <2>3 DEF Past, Now
  <2>6. CASE stash[q.flow] = "none" /\ q.op = "back" /\ Stage(c, "get") /\ told' = told
    <3>1. PICK r : r = calls'[c]
      OBVIOUS
    <3>2. r = [q EXCEPT !.stage = "get"] /\ \A d \in Calls : d # c => calls'[d] = calls[d]
      BY <1>2, <2>1, <2>6, <3>1, LeadsTo DEF Stage
    <3>3. r.stage = "get" /\ r.op = "back" /\ r.flow = q.flow
      BY <2>6, <3>2 DEF FlowCall
    <3>4. \A f \in Flows : Same(f)
      BY <2>4, <2>6 DEF Same
    <3>5. Few(r.flow)' => Now(r)'
      <4> SUFFICES ASSUME Few(r.flow)'
                   PROVE  Now(r)'
        OBVIOUS
      <4>1. Now(q) /\ q.flow \notin done
        BY <1>1, <2>2, <2>5, <2>6, <3>3
      <4> QED BY <2>4, <2>6, <3>3, <4>1 DEF Now, Posts
    <3>6. Unstored(r)'
      BY <3>3 DEF Unstored, Writing
    <3> QED BY <1>1, <2>1, <2>2, <3>1, <3>2, <3>4, <3>5, <3>6, WriterOnward
  <2>7. CASE /\ stash[q.flow] \in {"ok", "failed"} /\ told' = told
             /\ \E r \in FlowCall : /\ calls' = [calls EXCEPT ![c] = r] /\ r.op = q.op
                                    /\ r.flow = q.flow /\ r.stage = "take"
                                    /\ r.got = stash[q.flow]
    <3>1. PICK r \in FlowCall : /\ calls' = [calls EXCEPT ![c] = r] /\ r.op = q.op
                                /\ r.flow = q.flow /\ r.stage = "take"
                                /\ r.got = stash[q.flow]
      BY <2>7
    <3>2. r = calls'[c] /\ \A d \in Calls : d # c => calls'[d] = calls[d]
      BY <1>2, <3>1
    <3>3. \A f \in Flows : Same(f)
      BY <2>4, <2>7 DEF Same
    <3>4. Few(r.flow)' => Now(r)'
      <4> SUFFICES ASSUME Few(r.flow)'
                   PROVE  Now(r)'
        OBVIOUS
      <4>1. Now(q) /\ Past(q.flow) /\ (q.flow \in done => stash[q.flow] = "ok")
        BY <1>1, <2>2, <2>5, <3>1
      <4>2. states[q.flow] = "gone"
        BY <2>7, <4>1 DEF Past, Untold
      <4> QED BY <2>2, <2>4, <2>7, <3>1, <4>1, <4>2 DEF Now
    <3>5. Unstored(r)'
      BY <2>2, <3>1 DEF Unstored, Writing
    <3> QED BY <1>1, <2>1, <2>2, <3>2, <3>3, <3>4, <3>5, WriterOnward
  <2>8. CASE stash[q.flow] = "none" /\ q.stage = "recall" /\ Hear(c, "failed")
    <3>1. PICK what \in {"ok", "failed"} : what = "failed"
      OBVIOUS
    <3>2. \A f \in Flows : f # q.flow => Same(f)
      <4>1. told' = told \/ told' = [told EXCEPT ![q.flow] = @ \cup {what}]
        BY <2>1, <2>8, <3>1 DEF Hear
      <4> QED BY <1>2, <2>4, <4>1 DEF Same
    <3>3. Few(q.flow) => q.flow \notin done /\ states'[q.flow] = "gone"
      BY <2>2, <2>4, <2>5, <2>8 DEF Now
    <3> QED BY <1>1, <2>1, <2>2, <2>4, <2>8, <3>1, <3>2, <3>3, FailureOnward
  <2> QED BY <1>12, <2>1, <2>6, <2>7, <2>8, PeekMoves
<1>22. ASSUME NEW c \in Calls, Take(c)
       PROVE  History'
  <2>1. PICK q \in FlowCall : q = calls[c]
    BY <1>2
  <2>2. /\ q.stage = "take" /\ q.flow \in Flows /\ q.op \notin Posts
        /\ q.got \in {"ok", "failed"}
        /\ Few(q.flow) => Past(q.flow) /\ Now(q)
    <3>1. q.stage = "take"
      BY <1>22, <2>1 DEF Take
    <3>2. q.op \notin Posts /\ q.got \in {"ok", "failed"}
      BY <1>4, <2>1, <3>1 DEF InOrder, Posts
    <3> QED BY <1>6, <2>1, <3>1, <3>2
  <2>3. /\ states' = states /\ codes' = codes /\ visits' = visits /\ done' = done
        /\ stash' = [stash EXCEPT ![q.flow] = "none"] /\ Hear(c, q.got)
    BY <1>22, <2>1 DEF Take
  <2>4. PICK what \in {"ok", "failed"} : what = q.got
    BY <2>2
  <2>5. \A f \in Flows : f # q.flow => Same(f)
    <3>1. told' = told \/ told' = [told EXCEPT ![q.flow] = @ \cup {what}]
      BY <2>1, <2>3, <2>4 DEF Hear
    <3> QED BY <1>2, <2>3, <3>1 DEF Same
  <2>6. stash'[q.flow] = "none"
    BY <1>2, <2>2, <2>3
  <2>7. Few(q.flow) => states'[q.flow] = "gone" /\ (q.flow \in done => what = "ok")
    BY <2>2, <2>3, <2>4 DEF Now
  <2> QED BY <1>1, <2>1, <2>2, <2>3, <2>4, <2>5, <2>6, <2>7, FailureOnward
<1>13. ASSUME NEW c \in Calls, GetState(c)
       PROVE  History'
  <2>1. PICK q \in FlowCall : q = calls[c]
    BY <1>2
  <2>2. /\ q.stage = "get" /\ q.flow \in Flows /\ Started(q) /\ InOrder(q)
        /\ Few(q.flow) => Past(q.flow) /\ Now(q)
    <3>1. q.stage = "get"
      BY <1>13, <2>1 DEF GetState
    <3> QED BY <1>4, <1>6, <2>1, <3>1
  <2>3. \A d \in Calls : ~Leaving(calls[d], q.flow)
    BY <1>5, <2>1, <2>2 DEF Leaving, Started
  <2>4. /\ states' = states /\ codes' = codes /\ visits' = visits /\ done' = done
    BY <1>13 DEF GetState
  <2>5. CASE states[q.flow] = "stored"
    <3>1. Stage(c, "del") /\ stash' = stash /\ told' = told
      BY <1>13, <2>1, <2>5 DEF GetState
    <3>2. PICK r : r = calls'[c]
      OBVIOUS
    <3>3. r = [q EXCEPT !.stage = "del"] /\ \A d \in Calls : d # c => calls'[d] = calls[d]
      BY <1>2, <2>1, <3>1, <3>2, LeadsTo DEF Stage
    <3>4. r.stage = "del" /\ r.op = q.op /\ r.flow = q.flow
      BY <3>3 DEF FlowCall
    <3>5. \A f \in Flows : Same(f)
      BY <2>4, <3>1 DEF Same
    <3>6. Few(r.flow)' => Now(r)'
      <4> SUFFICES ASSUME Few(r.flow)'
                   PROVE  Now(r)'
        OBVIOUS
      <4>1. Now(q) /\ Untold(q.flow)
        BY <1>1, <2>2, <2>5, <3>4 DEF Past
      <4> QED BY <2>4, <3>1, <3>4, <4>1 DEF Now, Untold
    <3>7. Unstored(r)'
      BY <2>2, <3>4 DEF Unstored, Writing, InOrder
    <3> QED BY <1>1, <2>1, <2>2, <3>2, <3>3, <3>5, <3>6, <3>7, WriterOnward
  <2>6. CASE states[q.flow] # "stored" /\ Recalls(q)
    <3>1. Stage(c, "recall") /\ stash' = stash /\ told' = told
      BY <1>13, <2>1, <2>6 DEF GetState
    <3>2. PICK r : r = calls'[c]
      OBVIOUS
    <3>3. r = [q EXCEPT !.stage = "recall"] /\ \A d \in Calls : d # c => calls'[d] = calls[d]
      BY <1>2, <2>1, <3>1, <3>2, LeadsTo DEF Stage
    <3>4. r.stage = "recall" /\ r.op = "callback" /\ q.op = "callback" /\ r.flow = q.flow
      BY <2>6, <3>3 DEF FlowCall, Recalls
    <3>5. \A f \in Flows : Same(f)
      BY <2>4, <3>1 DEF Same
    <3>6. Few(r.flow)' => Now(r)'
      <4> SUFFICES ASSUME Few(r.flow)'
                   PROVE  Now(r)'
        OBVIOUS
      <4>1. Now(q)
        BY <1>1, <2>2, <3>4
      <4>2. states[q.flow] = "gone"
        BY <1>2, <2>2, <2>6, <4>1 DEF Now
      <4> QED BY <2>4, <3>1, <3>4, <4>1, <4>2 DEF Now
    <3>7. Unstored(r)'
      BY <3>4 DEF Unstored, Writing
    <3> QED BY <1>1, <2>1, <2>2, <3>2, <3>3, <3>5, <3>6, <3>7, WriterOnward
  <2>7. CASE states[q.flow] # "stored" /\ ~Recalls(q)
    <3>1. PICK what \in {"ok", "failed"} : what = "failed"
      OBVIOUS
    <3>2. Hear(c, what) /\ stash' = stash
      BY <1>13, <2>1, <2>7, <3>1 DEF GetState
    <3>3. \A f \in Flows : f # q.flow => Same(f)
      <4>1. told' = told \/ told' = [told EXCEPT ![q.flow] = @ \cup {what}]
        BY <2>1, <3>2 DEF Hear
      <4> QED BY <1>2, <2>4, <3>2, <4>1 DEF Same
    <3>4. ASSUME Few(q.flow)
          PROVE  states'[q.flow] = "gone" /\ (q.flow \notin done \/ q.op \in Posts)
      <4>1. Past(q.flow) /\ Now(q)
        BY <2>2, <3>4
      <4>2. states'[q.flow] = "gone"
        BY <1>2, <2>2, <2>4, <2>7, <4>1 DEF Now
      <4>3. CASE q.op \in {"denied", "refused", "back"}
        BY <2>2, <4>1, <4>2, <4>3 DEF Past, Now
      <4>4. CASE q.op = "post"
        BY <4>2, <4>4 DEF Posts
      <4>5. q.op # "callback"
        BY <1>1, <2>7 DEF Recalls
      <4> QED BY <2>2, <4>3, <4>4, <4>5 DEF InOrder, FlowCall, Ops
    <3> QED BY <1>1, <2>1, <2>2, <2>4, <3>2, <3>3, <3>4, FailureOnward
  <2> QED BY <2>5, <2>6, <2>7
<1>14. ASSUME NEW c \in Calls, DeleteState(c)
       PROVE  History'
  <2>1. PICK q \in FlowCall : q = calls[c]
    BY <1>2
  <2>2. /\ q.stage = "del" /\ q.flow \in Flows /\ Started(q) /\ InOrder(q)
        /\ Few(q.flow) => Past(q.flow) /\ Now(q)
    <3>1. q.stage = "del"
      BY <1>14, <2>1 DEF DeleteState
    <3> QED BY <1>4, <1>6, <2>1, <3>1
  <2>3. /\ states' = [states EXCEPT ![q.flow] = "gone"]
        /\ stash' = stash /\ codes' = codes /\ visits' = visits /\ done' = done
    BY <1>14, <2>1 DEF DeleteState
  <2>4. states'[q.flow] = "gone" /\ \A f \in Flows : f # q.flow => states'[f] = states[f]
    BY <1>2, <2>2, <2>3
  <2>5. Few(q.flow) => Untold(q.flow)
    BY <2>2 DEF Now
  <2>6. CASE Hear(c, "failed")
    <3>1. PICK what \in {"ok", "failed"} : what = "failed"
      OBVIOUS
    <3>2. Hear(c, what)
      BY <2>6, <3>1
    <3>3. \A f \in Flows : f # q.flow => Same(f)
      <4>1. told' = told \/ told' = [told EXCEPT ![q.flow] = @ \cup {what}]
        BY <2>1, <3>2 DEF Hear
      <4> QED BY <1>2, <2>3, <2>4, <4>1 DEF Same
    <3>4. Few(q.flow) => q.flow \notin done
      BY <2>5 DEF Untold
    <3> QED BY <1>1, <2>1, <2>2, <2>3, <2>4, <3>2, <3>3, <3>4, FailureOnward
  <2>7. CASE ~Hear(c, "failed")
    <3>1. PICK s : s = StageAfter("del")
      OBVIOUS
    <3>2. Stage(c, s) /\ told' = told /\ s = "load"
      BY <1>1, <1>14, <2>1, <2>7, <3>1, TypedIsPlain, NextStages DEF DeleteState
    <3>3. PICK r : r = calls'[c]
      OBVIOUS
    <3>4. r = [q EXCEPT !.stage = s] /\ \A d \in Calls : d # c => calls'[d] = calls[d]
      BY <1>2, <2>1, <3>2, <3>3, LeadsTo DEF Stage
    <3>5. r.stage = "load" /\ r.op = q.op /\ r.flow = q.flow
      BY <3>2, <3>4 DEF FlowCall
    <3>6. PICK g : g = q.flow
      OBVIOUS
    <3>7. \A f \in Flows : f # g => Same(f)
      BY <2>3, <2>4, <3>2, <3>6 DEF Same
    <3>8. ASSUME Few(g)'
          PROVE  Past(g)' /\ Now(r)'
      <4>1. Past(g) /\ Now(q) /\ Untold(g)
        BY <1>1, <2>2, <2>5, <3>6, <3>8
      <4>2. Past(g)'
        BY <2>3, <2>4, <3>2, <3>6, <4>1 DEF Past, Untold
      <4>3. Now(r)'
        BY <2>2, <2>3, <2>4, <3>2, <3>5, <3>6, <4>1 DEF Now, Untold
      <4> QED BY <4>2, <4>3
    <3>9. Unstored(r)'
      BY <2>2, <3>5 DEF Unstored, Writing, InOrder
    <3>10. Visiting(r) => (Few(r.flow)' => Now(r)')
      BY <3>5, <3>6, <3>8
    <3> QED BY <1>1, <2>1, <2>2, <3>3, <3>4, <3>6, <3>7, <3>8, <3>9, <3>10, Onward
  <2> QED BY <2>6, <2>7
<1>15. ASSUME NEW c \in Calls, LoadRow(c)
       PROVE  History'
  <2>1. PICK q \in FlowCall : q = calls[c]
    BY <1>2
  <2>2. /\ q.stage = "load" /\ q.flow \in Flows /\ Started(q) /\ InOrder(q)
        /\ Few(q.flow) => Past(q.flow) /\ Now(q)
    <3>1. q.stage = "load"
      BY <1>15, <2>1 DEF LoadRow
    <3> QED BY <1>4, <1>6, <2>1, <3>1
  <2>3. PICK r \in FlowCall :
           /\ calls' = [calls EXCEPT ![c] = r] /\ r.op = q.op /\ r.flow = q.flow
           /\ r.stage = "exchange"
    BY <1>1, <1>15, <2>1, LoadMoves
  <2>4. /\ states' = states /\ told' = told /\ stash' = stash /\ codes' = codes
        /\ visits' = visits /\ done' = done
    BY <1>15 DEF LoadRow
  <2>5. r = calls'[c] /\ \A d \in Calls : d # c => calls'[d] = calls[d]
    BY <1>2, <2>3
  <2>6. \A f \in Flows : Same(f)
    BY <2>4 DEF Same
  <2>7. Few(r.flow)' => Now(r)'
    <3> SUFFICES ASSUME Few(r.flow)'
                 PROVE  Now(r)'
      OBVIOUS
    <3>1. Now(q)
      BY <1>1, <2>2, <2>3
    <3> QED BY <2>2, <2>3, <2>4, <3>1 DEF Now, Untold
  <2>8. Unstored(r)'
    BY <2>2, <2>3 DEF Unstored, Writing, InOrder
  <2> QED BY <1>1, <2>1, <2>2, <2>5, <2>6, <2>7, <2>8, WriterOnward
<1>16. ASSUME NEW c \in Calls, Exchange(c)
       PROVE  History'
  <2>1. PICK q \in FlowCall : q = calls[c]
    BY <1>2
  <2>2. /\ q.stage = "exchange" /\ q.flow \in Flows /\ Started(q) /\ InOrder(q)
        /\ Few(q.flow) => Past(q.flow) /\ Now(q)
    <3>1. q.stage = "exchange"
      BY <1>16, <2>1, ExchangeMoves
    <3> QED BY <1>4, <1>6, <2>1, <3>1
  <2>3. /\ states' = states /\ stash' = stash /\ visits' = visits /\ done' = done
    BY <1>16 DEF Exchange
  <2>4. codes' = codes \/ codes' = [codes EXCEPT ![q.flow] = "spent"]
    BY <1>16, <2>1, ExchangeMoves
  <2>5. Few(q.flow) => codes[q.flow] # "none" /\ Untold(q.flow) /\ states'[q.flow] = "gone"
    BY <2>2, <2>3 DEF Now, InOrder
  <2>6. /\ codes[q.flow] # "none" => codes'[q.flow] # "none"
        /\ \A f \in Flows : f # q.flow => codes'[f] = codes[f]
    BY <1>2, <2>2, <2>4
  <2>7. CASE Hear(c, "failed")
    <3>1. PICK what \in {"ok", "failed"} : what = "failed"
      OBVIOUS
    <3>2. Hear(c, what)
      BY <2>7, <3>1
    <3>3. \A f \in Flows : f # q.flow => Same(f)
      <4>1. told' = told \/ told' = [told EXCEPT ![q.flow] = @ \cup {what}]
        BY <2>1, <3>2 DEF Hear
      <4> QED BY <1>2, <2>3, <2>6, <4>1 DEF Same
    <3>4. Few(q.flow) => /\ q.flow \notin done
                         /\ (codes'[q.flow] = "none" <=> codes[q.flow] = "none")
      BY <2>5, <2>6 DEF Untold
    <3> QED BY <1>1, <2>1, <2>2, <2>3, <2>5, <3>2, <3>3, <3>4, FailureOnward
  <2>8. CASE ~Hear(c, "failed")
    <3>1. PICK r \in FlowCall :
             /\ told' = told /\ calls' = [calls EXCEPT ![c] = r]
             /\ r.op = q.op /\ r.flow = q.flow /\ r.stage = "commit"
      BY <1>1, <1>16, <2>1, <2>8, ExchangeMoves
    <3>2. r = calls'[c] /\ \A d \in Calls : d # c => calls'[d] = calls[d]
      BY <1>2, <3>1
    <3>3. PICK g : g = q.flow
      OBVIOUS
    <3>4. \A f \in Flows : f # g => Same(f)
      BY <2>3, <2>6, <3>1, <3>3 DEF Same
    <3>5. ASSUME Few(g)'
          PROVE  Past(g)' /\ Now(r)'
      <4>1. Past(g) /\ Now(q) /\ Untold(g) /\ codes'[g] # "none" /\ states'[g] = "gone"
        BY <1>1, <2>2, <2>5, <2>6, <3>3, <3>5
      <4>2. Past(g)'
        BY <2>3, <3>1, <4>1 DEF Past, Untold
      <4>3. r.op \in {"callback", "post"}
        BY <2>2, <3>1 DEF InOrder
      <4>4. Now(r)'
        BY <2>3, <3>1, <3>3, <4>1, <4>3 DEF Now, Untold
      <4> QED BY <4>2, <4>4
    <3>6. Unstored(r)'
      BY <2>2, <3>1 DEF Unstored, Writing, InOrder
    <3>7. Visiting(r) => (Few(r.flow)' => Now(r)')
      BY <3>1, <3>3, <3>5
    <3> QED BY <1>1, <2>1, <2>2, <3>2, <3>3, <3>4, <3>5, <3>6, <3>7, Onward
  <2> QED BY <2>7, <2>8
<1>17. ASSUME NEW c \in Calls, CommitCallback(c)
       PROVE  History'
  <2>1. PICK q \in FlowCall : q = calls[c]
    BY <1>2
  <2>2. /\ q.stage = "commit" /\ q.flow \in Flows /\ Started(q) /\ InOrder(q)
        /\ Few(q.flow) => Past(q.flow) /\ Now(q)
    <3>1. q.stage = "commit"
      BY <1>17, <2>1, LeadsTo DEF CommitCallback
    <3> QED BY <1>4, <1>6, <2>1, <3>1
  <2>3. PICK w : w = WithToken(q)
    OBVIOUS
  <2>4. w.flow = q.flow
    BY <2>3 DEF WithToken, FlowCall
  <2>5. /\ states' = states /\ stash' = stash /\ codes' = codes /\ visits' = visits
    BY <1>17 DEF CommitCallback
  <2>6. Few(q.flow) => Untold(q.flow) /\ states[q.flow] = "gone"
    BY <2>2 DEF Now
  <2>7. CASE Gone(w)
    <3>1. PICK what \in {"ok", "failed"} : what = "failed"
      OBVIOUS
    <3>2. Hear(c, what) /\ done' = done
      BY <1>17, <2>1, <2>3, <2>7, <3>1 DEF CommitCallback
    <3>3. \A f \in Flows : f # q.flow => Same(f)
      <4>1. told' = told \/ told' = [told EXCEPT ![q.flow] = @ \cup {what}]
        BY <2>1, <3>2 DEF Hear
      <4> QED BY <1>2, <2>5, <3>2, <4>1 DEF Same
    <3>4. Few(q.flow) => q.flow \notin done /\ states'[q.flow] = "gone"
      BY <2>5, <2>6 DEF Untold
    <3> QED BY <1>1, <2>1, <2>2, <2>5, <3>2, <3>3, <3>4, FailureOnward
  <2>8. CASE ~Gone(w)
    <3>1. Hear(c, "ok") /\ (done' = done \/ done' = done \cup {q.flow})
      BY <1>17, <2>1, <2>3, <2>4, <2>8 DEF CommitCallback
    <3>2. PICK what \in {"ok", "failed"} : what = "ok"
      OBVIOUS
    <3>3. PICK r \in FlowCall :
             /\ calls' = [calls EXCEPT ![c] = r]
             /\ \/ q.op \in Posts /\ r.op = q.op /\ r.flow = q.flow /\ r.stage = "stash"
                     /\ r.got = what /\ told' = told
                \/ q.op \notin Posts /\ r = Idling
                     /\ told' = [told EXCEPT ![q.flow] = @ \cup {what}]
      <4>1. Hear(c, what)
        BY <3>1, <3>2
      <4> QED BY <2>1, <2>2, <4>1, Hears
    <3>4. r = calls'[c] /\ \A d \in Calls : d # c => calls'[d] = calls[d]
      BY <1>2, <3>3
    <3>5. PICK g : g = q.flow
      OBVIOUS
    <3>6. \A f \in Flows : f # g => Same(f)
      BY <1>2, <2>5, <3>1, <3>3, <3>5 DEF Same
    <3>7. ASSUME Few(g)'
          PROVE  Past(g)'
      <4>1. Past(g) /\ Now(q) /\ Untold(g) /\ states'[g] = "gone" /\ codes'[g] # "none"
        <5>1. Now(q)
          BY <1>1, <2>2, <3>5, <3>7
        <5>2. codes[g] # "none"
          BY <2>2, <3>5, <5>1 DEF Now, InOrder
        <5> QED BY <1>1, <2>2, <2>5, <2>6, <3>5, <3>7, <5>1, <5>2
      <4>2. CASE q.op \in Posts
        <5>1. told'[g] = {} /\ Leaving(calls'[c], g)
          BY <3>2, <3>3, <3>4, <3>5, <4>1, <4>2 DEF Untold, Leaving
        <5>2. stash'[g] = "none"
          BY <2>5, <4>1 DEF Untold
        <5>3. \E d \in Calls : Leaving(calls'[d], g)
          BY <5>1
        <5> QED BY <4>1, <5>1, <5>2, <5>3 DEF Past, Leaving
      <4>3. CASE q.op \notin Posts
        <5>1. told'[g] = {"ok"}
          BY <1>2, <2>2, <3>2, <3>3, <3>5, <4>1, <4>3 DEF Untold
        <5>2. stash'[g] = "none" /\ visits'[g].gets = 1
          BY <2>5, <3>5, <4>1, <4>3 DEF Untold, Now
        <5> QED BY <4>1, <5>1, <5>2 DEF Past
      <4> QED BY <4>2, <4>3
    <3>8. Unstored(r)' /\ (Visiting(r) => (Few(r.flow)' => Now(r)'))
      <4>1. CASE q.op \notin Posts
        <5>1. r = Idling
          BY <3>3, <4>1
        <5> QED BY <5>1 DEF Unstored, Writing, Visiting, Started, Idling
      <4>2. CASE q.op \in Posts
        <5>1. r.op = "post" /\ r.flow = q.flow /\ r.stage = "stash" /\ q.op = "post"
          BY <2>2, <3>3, <4>2 DEF InOrder, Posts
        <5>2. Unstored(r)'
          BY <5>1 DEF Unstored, Writing
        <5>3. ASSUME Few(r.flow)'
              PROVE  Now(r)'
          <6>1. Now(q)
            BY <1>1, <2>2, <5>1, <5>3
          <6> QED BY <2>2, <2>5, <5>1, <6>1 DEF Now, Posts
        <5> QED BY <5>2, <5>3
      <4> QED BY <4>1, <4>2
    <3> QED BY <1>1, <2>1, <2>2, <3>4, <3>5, <3>6, <3>7, <3>8, Onward
  <2> QED BY <2>7, <2>8
<1>18. ASSUME NEW c \in Calls, StoreOutcome(c)
       PROVE  History'
  <2>1. PICK q \in FlowCall : q = calls[c]
    BY <1>2
  <2>2. /\ q.stage = "stash" /\ q.flow \in Flows /\ Started(q) /\ InOrder(q)
        /\ Few(q.flow) => Past(q.flow) /\ Now(q)
    <3>1. q.stage = "stash"
      BY <1>18, <2>1 DEF StoreOutcome
    <3> QED BY <1>4, <1>6, <2>1, <3>1
  <2>3. /\ stash' = [stash EXCEPT ![q.flow] = q.got] /\ calls' = [calls EXCEPT ![c] = Idling]
        /\ states' = states /\ told' = told /\ codes' = codes /\ visits' = visits
        /\ done' = done
    BY <1>18, <2>1 DEF StoreOutcome, Done
  <2>4. PICK g : g = q.flow
    OBVIOUS
  <2>5. \A f \in Flows : f # g => Same(f)
    BY <1>2, <2>3, <2>4 DEF Same
  <2>6. ASSUME Few(g)'
        PROVE  Past(g)'
    <3>1. Past(g) /\ Now(q) /\ stash'[g] = q.got
      BY <1>1, <1>2, <2>2, <2>3, <2>4, <2>6
    <3>2. states[g] = "gone" /\ stash[g] = "none" /\ visits[g].posts = 1
      BY <2>2, <2>4, <3>1 DEF Now, InOrder
    <3>3. (\E d \in Calls : Leaving(calls[d], g)) => q.got = "ok"
      BY <1>5, <2>1, <2>2 DEF Leaving, Started
    <3> QED BY <2>3, <3>1, <3>2, <3>3 DEF Past
  <2>7. PICK r : r = calls'[c]
    OBVIOUS
  <2>8. r = Idling /\ \A d \in Calls : d # c => calls'[d] = calls[d]
    BY <1>2, <2>3, <2>7
  <2>9. Unstored(r)' /\ ~Visiting(r)
    BY <2>8 DEF Idling, Unstored, Writing, Visiting, Started
  <2> QED BY <1>1, <2>1, <2>2, <2>4, <2>5, <2>6, <2>7, <2>8, <2>9, Onward
<1>19. ASSUME NEW c \in Calls, Crash(c)
       PROVE  FALSE
  <2>1. errors = 0 /\ errors' = 0
    BY <1>1 DEF Calm
  <2> QED BY <1>19, <2>1 DEF Crash
<1>20. ASSUME NEW g \in Flows, Expire(g)
       PROVE  History'
  <2>1. /\ states[g] = "stored" /\ states' = [states EXCEPT ![g] = "gone"] /\ stash' = stash
        /\ calls' = calls /\ told' = told /\ codes' = codes /\ visits' = visits /\ done' = done
    BY <1>20 DEF Expire, Calm
  <2>2. \A f \in Flows : states'[f] = states[f] \/ (states[f] # "gone" /\ states'[f] = "gone"
                                                     /\ f = g)
    BY <1>2, <2>1
  <2>3. ASSUME NEW f \in Flows, Few(f)'
        PROVE  Past(f)'
    <3>1. Past(f)
      BY <1>1, <1>3, <2>3
    <3> QED BY <2>1, <2>2, <3>1 DEF Past, Untold, Leaving
  <2>4. ASSUME NEW c \in Calls
        PROVE  /\ Unstored(calls[c])'
               /\ (Visiting(calls[c]) /\ Few(calls[c].flow) => Now(calls[c]))'
    <3>1. PICK q \in FlowCall : q = calls[c]
      BY <1>2
    <3>2. CASE Visiting(q)
      <4>1. q.flow \in Flows /\ (Few(q.flow) => Now(q))
        <5>1. q.stage \notin {"idle", "save", "key"}
          BY <1>4, <3>1, <3>2 DEF InOrder, Visiting, Started
        <5> QED BY <1>6, <3>1, <5>1
      <4>2. Few(q.flow)' => Now(q)'
        <5> SUFFICES ASSUME Few(q.flow)'
                     PROVE  Now(q)'
          OBVIOUS
        <5>1. Now(q)
          BY <1>1, <4>1
        <5> QED BY <2>1, <2>2, <4>1, <5>1 DEF Now, Untold
      <4>3. ~Writing(q)
        BY <3>2 DEF Visiting, Writing
      <4> QED BY <2>1, <3>1, <4>2, <4>3 DEF Unstored, Writing, Visiting, Few, Now, Untold, Started
    <3>3. CASE ~Visiting(q)
      <4>1. Unstored(q)'
        <5>1. Writing(q) /\ q.op = "init" => q.flow \in Flows
          BY <1>4, <3>1 DEF InOrder, Writing, Typed, FlowTypeOK
        <5>2. Unstored(q)
          BY <1>4, <3>1
        <5> QED BY <2>1, <2>2, <5>1, <5>2 DEF Unstored, Writing, Started
      <4>2. calls'[c] = q
        BY <2>1, <3>1
      <4> QED BY <3>3, <4>1, <4>2 DEF Unstored, Writing, Visiting, Started
    <3> QED BY <3>2, <3>3
  <2> QED BY <2>3, <2>4 DEF History
<1>21. ASSUME (\E x \in conns : DeleteConn(x)) \/ UNCHANGED flowVars
       PROVE  History'
  <2>1. /\ calls' = calls /\ states' = states /\ stash' = stash /\ told' = told
        /\ codes' = codes /\ visits' = visits /\ done' = done
    BY <1>21 DEF DeleteConn, flowVars
  <2>2. \A f \in Flows : Few(f)' => Past(f)'
    BY <1>1, <1>3, <2>1 DEF Past, Untold, Leaving
  <2>3. \A c \in Calls : /\ Unstored(calls[c])'
                         /\ (Visiting(calls[c]) /\ Few(calls[c].flow) => Now(calls[c]))'
    BY <1>4, <2>1 DEF Unstored, Writing, Visiting, Few, Now, Untold, Started
  <2> QED BY <2>2, <2>3 DEF History
<1> QED
  BY <1>7, <1>8, <1>9, <1>10, <1>11, <1>12, <1>13, <1>14, <1>15, <1>16, <1>17, <1>18, <1>19,
     <1>20, <1>21, <1>22 DEF FlowNext

LEMMA HistoryInit ==
    ASSUME FlowInit
    PROVE  History
<1>1. \A c \in Calls : ~Writing(calls[c]) /\ ~Visiting(calls[c])
  BY DEF FlowInit, Idling, Writing, Visiting, Started
<1>2. \A f \in Flows : Past(f)
  BY DEF FlowInit, Past, Untold
<1> QED BY <1>1, <1>2 DEF History, Unstored

\* A browser that is told of a connection has one, GitHub apart, and GitFlic's
\* browser is told of no failure after the POST has connected, unless a call
\* was repeated, lost or overlapped (the callbacks and GitFlic's stash)
THEOREM AlwaysToldTrue == FlowSpec => []ToldTrue
<1> DEFINE I == Typed /\ Alone /\ Connections /\ History
<1>1. FlowInit => I
  BY TypedInit, QuietInit, ConnectionsInit, HistoryInit
<1>2. I /\ [FlowNext]_flowVars => I'
  BY TypedStep, AloneStep, ConnectionsStep, HistoryStep
<1>3. I => ToldTrue
  BY DEF ToldTrue, Connections, History, Calm, Few, Past
<1> QED BY <1>1, <1>2, <1>3, PTL DEF FlowSpec

-----------------------------------------------------------------------------
(* Credential groups *)

At(r, s) == work[r].stage = s

\* No token is known before it was issued
Issued ==
    /\ \A m \in Members : members[m].token <= issued
    /\ \A r \in Refreshers : /\ \A m \in Members : work[r].seen[m].token <= issued
                             /\ \A m \in Members : work[r].rows[m].token <= issued
                             /\ \A t \in work[r].tried : t <= issued

\* Before an answer the rows are those that were read, and a success makes all
\* rows agree
Copied ==
    \A r \in Refreshers :
        /\ At(r, "ask") => work[r].rows = work[r].seen /\ ~work[r].ok
        /\ At(r, "commit") /\ work[r].ok =>
              \A m, n \in Members : work[r].rows[m].token = work[r].rows[n].token

\* Who works alone has read the committed rows
AloneSees ==
    \A r \in Refreshers : ~At(r, "idle") /\ work[r].alone =>
        /\ work[r].seen = members
        /\ \A s \in Refreshers : ~At(s, "idle") => s = r

\* Tokens that were tried are no longer taken
Spent == faults = 0 => \A r \in Refreshers : work[r].tried \cap valid = {}

\* One grant and no loss
OneGrant == grants = 1 /\ faults = 0 /\ lost = {} /\ ~revoked

\* The transaction that brings the token that GitLab takes
Brings(r) == At(r, "commit") /\ \A m \in Members : work[r].rows[m].token = issued
                             /\ work[r].seen[m].token < issued

\* Any other one does not write to connection h, and writes no token newer than
\* the one that it read there
Spares(r, h) ==
    /\ work[r].rows[h].token = work[r].seen[h].token
    /\ \A m \in Members : work[r].rows[m].token <= work[r].seen[h].token

Home(h) ==
    /\ valid = {issued}
    /\ \A m \in Members : members[m].token <= members[h].token
    /\ \A r \in Refreshers : ~At(r, "idle") =>
          /\ work[r].seen[h].token <= members[h].token
          /\ \A m \in Members : work[r].seen[m].token <= work[r].seen[h].token
          /\ Brings(r) \/ Spares(r, h)
    /\ \A r \in Refreshers : Brings(r) =>
          /\ members[h].token < issued
          /\ \A s \in Refreshers : Brings(s) => s = r
    /\ members[h].token = issued \/ \E r \in Refreshers : Brings(r)

HomeKept == OneGrant => \E h \in Members : Home(h)

Known == GroupTypeOK /\ Issued /\ Copied /\ issued > 0 /\ grants > 0
Inv   == Known /\ AloneSees /\ Spent /\ HomeKept

-----------------------------------------------------------------------------
(* Operators *)

\* The newest of some tokens is one of them
LEMMA NewestIn ==
    ASSUME NEW S \in SUBSET Tokens, S # {}
    PROVE  Newest(S) \in S /\ \A u \in S : u <= Newest(S)
<1> DEFINE T == {MaxTokens - u : u \in S}
<1>1. T \in SUBSET Nat /\ T # {}
  <2>1. MaxTokens \in Nat /\ \A u \in S : u \in Nat /\ u <= MaxTokens
    BY GroupConstantsOK DEF Tokens
  <2>2. \A u \in S : MaxTokens - u \in Nat
    BY <2>1
  <2> QED
    BY <2>2
<1>2. PICK x \in T : \A y \in T : ~(<<y, x>> \in OpToRel(<, Nat))
  <2> HIDE DEF T
  <2> QED
    BY <1>1, NatLessThanWellFounded, WFMin
<1>3. PICK t \in S : x = MaxTokens - t
  OBVIOUS
<1>4. \A u \in S : u <= t
  <2> TAKE u \in S
  <2>1. MaxTokens - u \in T /\ MaxTokens - u \in Nat /\ x \in Nat
    BY <1>1
  <2>2. ~(MaxTokens - u < x)
    BY <1>2, <2>1 DEF OpToRel
  <2> QED
    BY <1>3, <2>2, GroupConstantsOK DEF Tokens
<1> QED
  BY <1>4 DEF Newest

LEMMA RestType == Rest \in Work /\ Rest.stage = "idle" /\ Rest.tried = {}
                  /\ \A m \in Members : Rest.seen[m].token = 0 /\ Rest.rows[m].token = 0
  BY GroupConstantsOK DEF Rest, Work, Member

LEMMA PropagatedType ==
    ASSUME NEW rows \in [Members -> Member], NEW t \in 0..MaxTokens
    PROVE  /\ Propagated(rows, t) \in [Members -> Member]
           /\ \A m \in Members : Propagated(rows, t)[m].token = t
  BY DEF Propagated, Member

LEMMA TokensOfType ==
    ASSUME NEW rows \in [Members -> Member]
    PROVE  /\ TokensOf(rows) \in SUBSET Tokens
           /\ \A t \in TokensOf(rows) : \E m \in Members : rows[m].token = t
           /\ \A m \in Members : rows[m].token # 0 => rows[m].token \in TokensOf(rows)
  BY GroupConstantsOK DEF TokensOf, Member, Tokens

-----------------------------------------------------------------------------
(* What a step does to the work of the refreshers *)

\* The same work, but that it may be alone no longer
Goes(w, v) ==
    /\ w \in Work /\ w.stage = v.stage /\ w.seen = v.seen /\ w.rows = v.rows
    /\ w.tried = v.tried /\ w.ok = v.ok
    /\ w.alone => v.alone /\ v.stage = "idle"

LEMMA CrossedType ==
    ASSUME NEW v \in Work
    PROVE  Goes([v EXCEPT !.alone = @ /\ v.stage = "idle"], v)
<1> DEFINE b == v.alone /\ v.stage = "idle"
<1>1. b \in BOOLEAN
  OBVIOUS
<1> HIDE DEF b
<1>2. /\ [v EXCEPT !.alone = b] \in Work /\ [v EXCEPT !.alone = b].stage = v.stage
      /\ [v EXCEPT !.alone = b].seen = v.seen /\ [v EXCEPT !.alone = b].rows = v.rows
      /\ [v EXCEPT !.alone = b].tried = v.tried /\ [v EXCEPT !.alone = b].ok = v.ok
      /\ [v EXCEPT !.alone = b].alone = b
  BY <1>1 DEF Work
<1> QED
  BY <1>2 DEF Goes, b

\* The group as it was read
LEMMA LoadEffect ==
    ASSUME Known, NEW r \in Refreshers, LoadGroup(r)
    PROVE  /\ At(r, "idle") /\ work' \in [Refreshers -> Work]
           /\ work'[r].seen = members /\ work'[r].tried = {}
           /\ work'[r].alone => \A s \in Refreshers : At(s, "idle")
           /\ \/ work'[r].stage = "ask" /\ work'[r].rows = members /\ ~work'[r].ok
              \/ /\ work'[r].stage = "commit" /\ Fresh(members) # {}
                 /\ \A m \in Members : work'[r].rows[m].token = Newest(Fresh(members))
           /\ \A s \in Refreshers \ {r} : Goes(work'[s], work[s])
<1> DEFINE w(found) == [Rest EXCEPT
                      !.alone = Working = {}, !.seen = members,
                      !.stage = IF found THEN "commit" ELSE "ask", !.ok = found,
                      !.rows = IF found THEN Propagated(members, Newest(Fresh(members)))
                                        ELSE members]
<1>1. At(r, "idle") /\ members \in [Members -> Member] /\ work \in [Refreshers -> Work]
  BY DEF LoadGroup, At, Known, GroupTypeOK
<1>2. /\ work'[r] = w(Fresh(members) # {})
      /\ \A s \in Refreshers \ {r} : work'[s] = [work[s] EXCEPT !.alone = @ /\ work[s].stage = "idle"]
      /\ work' = [s \in Refreshers |-> work'[s]]
  BY DEF LoadGroup
<1>3. \A s \in Refreshers \ {r} : Goes(work'[s], work[s])
  BY <1>1, <1>2, CrossedType
<1>4. PICK a \in BOOLEAN : a = (Working = {})
  <2>1. (Working = {}) = TRUE \/ (Working = {}) = FALSE
    OBVIOUS
  <2> QED
    BY <2>1
<1>5. a => \A s \in Refreshers : At(s, "idle")
  BY <1>1, <1>4 DEF Working, At
<1>6. CASE Fresh(members) # {}
  <2> DEFINE rows == Propagated(members, Newest(Fresh(members)))
  <2>1. work'[r] = [Rest EXCEPT !.alone = a, !.seen = members, !.stage = "commit", !.ok = TRUE,
                                !.rows = rows]
    BY <1>2, <1>4, <1>6
  <2>2. Newest(Fresh(members)) \in Tokens
    BY <1>1, <1>6, TokensOfType, NewestIn DEF Fresh
  <2>3. rows \in [Members -> Member] /\ \A m \in Members : rows[m].token = Newest(Fresh(members))
    BY <1>1, <2>2, PropagatedType, GroupConstantsOK DEF Tokens
  <2> HIDE DEF rows
  <2>4. /\ work'[r] \in Work /\ work'[r].stage = "commit" /\ work'[r].rows = rows
        /\ work'[r].seen = members /\ work'[r].tried = {} /\ work'[r].alone = a
    BY <1>1, <2>1, <2>3 DEF Rest, Work
  <2> QED
    BY <1>1, <1>2, <1>3, <1>5, <1>6, <2>3, <2>4 DEF Goes
<1>7. CASE Fresh(members) = {}
  <2>1. work'[r] = [Rest EXCEPT !.alone = a, !.seen = members, !.stage = "ask", !.ok = FALSE,
                                !.rows = members]
    BY <1>2, <1>4, <1>7
  <2>2. /\ work'[r] \in Work /\ work'[r].stage = "ask" /\ work'[r].rows = members /\ ~work'[r].ok
        /\ work'[r].seen = members /\ work'[r].tried = {} /\ work'[r].alone = a
    BY <1>1, <2>1 DEF Rest, Work
  <2> QED
    BY <1>1, <1>2, <1>3, <1>5, <2>2 DEF Goes
<1> QED
  BY <1>6, <1>7

\* What GitLab answers: a new token, or the token is crossed off
LEMMA AskEffect ==
    ASSUME Known, NEW r \in Refreshers, AskGitLab(r)
    PROVE  /\ At(r, "ask") /\ work' \in [Refreshers -> Work]
           /\ \A s \in Refreshers \ {r} : work'[s] = work[s]
           /\ work'[r].seen = work[r].seen /\ work'[r].alone = work[r].alone
           /\ UNCHANGED <<members, stale, grants, revoked>>
           /\ \E t \in Tokens :
                /\ t \notin work[r].tried
                /\ \E m \in Members : work[r].rows[m].token = t
                /\ \/ /\ t \in valid /\ issued' = issued + 1 /\ issued' <= MaxTokens
                      /\ valid' = (valid \ {t}) \cup {issued + 1}
                      /\ work'[r].stage = "commit" /\ work'[r].tried = work[r].tried /\ work'[r].ok
                      /\ \A m \in Members : work'[r].rows[m].token = issued + 1
                      /\ UNCHANGED <<lost, faults>>
                   \/ /\ work'[r] = [work[r] EXCEPT !.tried = @ \cup {t}]
                      /\ \/ t \notin valid /\ UNCHANGED <<issued, valid, lost, faults>>
                         \/ /\ faults' = faults + 1 /\ faults < MaxFaults
                            /\ \/ UNCHANGED <<issued, valid, lost>>
                               \/ /\ issued' = issued + 1 /\ issued' <= MaxTokens
                                  /\ valid' = (valid \ {t}) \cup {issued + 1}
                                  /\ lost' = lost \cup {issued + 1}
<1> DEFINE q == work[r]
           t == Newest(Untried(q))
<1>1. q \in Work /\ q.rows \in [Members -> Member] /\ At(r, "ask") /\ Untried(q) # {}
      /\ work \in [Refreshers -> Work] /\ issued \in 0..MaxTokens
  BY DEF AskGitLab, At, Known, GroupTypeOK, Work
<1>2. t \in Tokens /\ t \notin q.tried /\ \E m \in Members : q.rows[m].token = t
  <2>1. Untried(q) \in SUBSET Tokens
    BY <1>1, TokensOfType DEF Untried
  <2>2. t \in Untried(q)
    BY <1>1, <2>1, NewestIn
  <2> QED
    BY <1>1, <2>1, <2>2, TokensOfType DEF Untried
<1>3. UNCHANGED <<members, stale, grants, revoked>>
  BY DEF AskGitLab
<1> HIDE DEF t
<1>4. ASSUME work' = [work EXCEPT ![r].tried = @ \cup {t}]
      PROVE  /\ work' \in [Refreshers -> Work] /\ \A s \in Refreshers \ {r} : work'[s] = work[s]
             /\ work'[r].seen = q.seen /\ work'[r].alone = q.alone
             /\ work'[r] = [q EXCEPT !.tried = @ \cup {t}]
  BY <1>1, <1>2, <1>4 DEF Work
<1>5. CASE /\ t \in valid /\ issued < MaxTokens /\ issued' = issued + 1
           /\ valid' = (valid \ {t}) \cup {issued + 1}
           /\ work' = [work EXCEPT ![r].stage = "commit", ![r].ok = TRUE,
                                   ![r].rows = Propagated(q.rows, issued + 1)]
           /\ UNCHANGED <<lost, faults>>
  <2>1. issued + 1 \in 0..MaxTokens
    BY <1>1, <1>5, GroupConstantsOK
  <2> DEFINE rows == Propagated(q.rows, issued + 1)
             w == [q EXCEPT !.stage = "commit", !.ok = TRUE, !.rows = rows]
  <2>2. rows \in [Members -> Member] /\ \A m \in Members : rows[m].token = issued + 1
    BY <1>1, <2>1, PropagatedType
  <2>3. work' = [work EXCEPT ![r] = w]
    BY <1>5
  <2> HIDE DEF rows
  <2>4. /\ w \in Work /\ w.seen = q.seen /\ w.alone = q.alone /\ w.stage = "commit"
        /\ w.tried = q.tried /\ w.rows = rows /\ w.ok = TRUE
    BY <1>1, <2>2 DEF Work
  <2> HIDE DEF w
  <2>5. work' \in [Refreshers -> Work] /\ work'[r] = w /\ \A s \in Refreshers \ {r} : work'[s] = work[s]
    BY <1>1, <2>3, <2>4
  <2>6. issued' <= MaxTokens
    BY <1>5, <2>1
  <2> QED
    BY <1>1, <1>2, <1>3, <1>5, <2>2, <2>4, <2>5, <2>6
<1>6. CASE /\ t \in valid /\ issued < MaxTokens /\ issued' = issued + 1
           /\ valid' = (valid \ {t}) \cup {issued + 1}
           /\ faults < MaxFaults /\ faults' = faults + 1 /\ lost' = lost \cup {issued + 1}
           /\ work' = [work EXCEPT ![r].tried = @ \cup {t}]
  <2>1. issued' <= MaxTokens
    BY <1>1, <1>6, GroupConstantsOK
  <2> QED
    BY <1>1, <1>2, <1>3, <1>4, <1>6, <2>1
<1>7. CASE t \notin valid /\ work' = [work EXCEPT ![r].tried = @ \cup {t}]
           /\ UNCHANGED <<issued, valid, lost, faults>>
  BY <1>1, <1>2, <1>3, <1>4, <1>7
<1>8. CASE faults < MaxFaults /\ faults' = faults + 1 /\ UNCHANGED <<issued, valid, lost>>
           /\ work' = [work EXCEPT ![r].tried = @ \cup {t}]
  BY <1>1, <1>2, <1>3, <1>4, <1>8
<1> QED
  BY <1>5, <1>6, <1>7, <1>8 DEF AskGitLab, t

\* Either the marked group is to be written, or nothing is
LEMMA ExhaustedEffect ==
    ASSUME Known, NEW r \in Refreshers, Exhausted(r)
    PROVE  /\ At(r, "ask") /\ work' \in [Refreshers -> Work]
           /\ \A s \in Refreshers \ {r} : work'[s] = work[s]
           /\ Untried(work[r]) = {}
           /\ UNCHANGED <<members, issued, valid, stale, lost, faults, grants, revoked>>
           /\ \/ work'[r] = Rest
              \/ /\ work'[r].stage = "commit" /\ work'[r].seen = work[r].seen
                 /\ work'[r].alone = work[r].alone /\ work'[r].tried = work[r].tried
                 /\ work'[r].ok = work[r].ok
                 /\ \A m \in Members : work'[r].rows[m].token = work[r].rows[m].token
<1> DEFINE q == work[r]
           rows == [m \in Members |-> [q.rows[m] EXCEPT !.error = TRUE]]
           w == [q EXCEPT !.stage = "commit", !.rows = rows]
<1>1. /\ q \in Work /\ q.rows \in [Members -> Member] /\ At(r, "ask") /\ Untried(q) = {}
      /\ work \in [Refreshers -> Work]
      /\ UNCHANGED <<members, issued, valid, stale, lost, faults, grants, revoked>>
  BY DEF Exhausted, At, Known, GroupTypeOK, Work
<1>2. CASE work' = [work EXCEPT ![r] = Rest]
  BY <1>1, <1>2, RestType
<1>3. CASE work' = [work EXCEPT ![r] = w]
  <2>1. rows \in [Members -> Member] /\ \A m \in Members : rows[m].token = q.rows[m].token
    BY <1>1 DEF Member
  <2> HIDE DEF rows
  <2>2. /\ w \in Work /\ w.seen = q.seen /\ w.alone = q.alone /\ w.stage = "commit"
        /\ w.tried = q.tried /\ w.rows = rows /\ w.ok = q.ok
    BY <1>1, <2>1 DEF Work
  <2> HIDE DEF w
  <2>3. work' \in [Refreshers -> Work] /\ work'[r] = w /\ \A s \in Refreshers \ {r} : work'[s] = work[s]
    BY <1>1, <1>3, <2>2
  <2> QED
    BY <1>1, <2>1, <2>2, <2>3
<1>4. work' = [work EXCEPT ![r] = Rest] \/ work' = [work EXCEPT ![r] = w]
  BY DEF Exhausted
<1> QED
  BY <1>2, <1>3, <1>4

\* The columns that the transaction changed are written
LEMMA CommitEffect ==
    ASSUME Known, NEW r \in Refreshers, CommitGroup(r)
    PROVE  /\ At(r, "commit") /\ work' \in [Refreshers -> Work] /\ work'[r] = Rest
           /\ \A s \in Refreshers \ {r} : work'[s] = work[s]
           /\ members' \in [Members -> Member]
           /\ \A m \in Members :
                members'[m].token = IF work[r].rows[m].token = work[r].seen[m].token
                                    THEN members[m].token ELSE work[r].rows[m].token
           /\ UNCHANGED <<issued, valid, stale, lost, faults, grants, revoked>>
<1> DEFINE q == work[r]
<1>1. /\ At(r, "commit") /\ work \in [Refreshers -> Work] /\ members \in [Members -> Member]
      /\ q.rows \in [Members -> Member] /\ q.seen \in [Members -> Member]
      /\ UNCHANGED <<issued, valid, stale, lost, faults, grants, revoked>>
      /\ members' = [m \in Members |-> Written(members[m], q.seen[m], q.rows[m])]
      /\ work' = [work EXCEPT ![r] = Rest]
  BY DEF CommitGroup, At, Known, GroupTypeOK, Work
<1>2. ASSUME NEW m \in Members
      PROVE  /\ Written(members[m], q.seen[m], q.rows[m]) \in Member
             /\ Written(members[m], q.seen[m], q.rows[m]).token =
                  IF q.rows[m].token = q.seen[m].token THEN members[m].token ELSE q.rows[m].token
  <2>1. members[m] \in Member /\ q.seen[m] \in Member /\ q.rows[m] \in Member
    BY <1>1
  <2> QED
    BY <2>1 DEF Written, Member
<1>3. work' \in [Refreshers -> Work] /\ work'[r] = Rest /\ \A s \in Refreshers \ {r} : work'[s] = work[s]
  BY <1>1, RestType
<1> QED
  BY <1>1, <1>2, <1>3

LEMMA DropEffect ==
    ASSUME Known, NEW r \in Refreshers, DropGroup(r)
    PROVE  /\ At(r, "commit") /\ work' \in [Refreshers -> Work] /\ work'[r] = Rest
           /\ \A s \in Refreshers \ {r} : work'[s] = work[s]
           /\ lost' = lost \cup (TokensOf(work[r].rows) \ TokensOf(work[r].seen))
           /\ lost' \subseteq 1..issued
           /\ UNCHANGED <<members, issued, valid, stale, faults, grants, revoked>>
<1>1. /\ At(r, "commit") /\ work \in [Refreshers -> Work] /\ work[r].rows \in [Members -> Member]
      /\ issued \in 0..MaxTokens /\ lost \subseteq 1..issued
      /\ lost' = lost \cup (TokensOf(work[r].rows) \ TokensOf(work[r].seen))
      /\ UNCHANGED <<members, issued, valid, stale, faults, grants, revoked>>
      /\ work' = [work EXCEPT ![r] = Rest]
  BY DEF DropGroup, At, Known, GroupTypeOK, Work
<1>2. TokensOf(work[r].rows) \subseteq 1..issued
  <2> SUFFICES ASSUME NEW t \in TokensOf(work[r].rows) PROVE t \in 1..issued
    OBVIOUS
  <2>1. PICK m \in Members : work[r].rows[m].token = t
    BY <1>1, TokensOfType
  <2>2. t <= issued
    BY <2>1 DEF Known, Issued
  <2> QED
    BY <1>1, <2>2, TokensOfType, GroupConstantsOK DEF Tokens
<1>3. work' \in [Refreshers -> Work] /\ work'[r] = Rest /\ \A s \in Refreshers \ {r} : work'[s] = work[s]
  BY <1>1, RestType
<1> QED
  BY <1>1, <1>2, <1>3

\* A new grant, which crosses all work
LEMMA ReconnectEffect ==
    ASSUME Known, NEW n \in Members, Reconnect(n)
    PROVE  /\ issued' = issued + 1 /\ issued' <= MaxTokens /\ grants' = grants + 1
           /\ valid' = valid \cup {issued + 1}
           /\ members' \in [Members -> Member]
           /\ \A m \in Members : members'[m].token = members[m].token \/ members'[m].token = issued + 1
           /\ work' \in [Refreshers -> Work]
           /\ \A s \in Refreshers : Goes(work'[s], work[s])
           /\ UNCHANGED <<stale, lost, faults, revoked>>
<1>1. /\ issued \in 0..MaxTokens /\ issued < MaxTokens /\ work \in [Refreshers -> Work]
      /\ members \in [Members -> Member]
      /\ issued' = issued + 1 /\ grants' = grants + 1 /\ valid' = valid \cup {issued + 1}
      /\ members' = [members EXCEPT ![n] = [token |-> issued + 1, error |-> FALSE]]
      /\ work' = [r \in Refreshers |-> [work[r] EXCEPT !.alone = @ /\ work[r].stage = "idle"]]
      /\ UNCHANGED <<stale, lost, faults, revoked>>
  BY DEF Reconnect, Known, GroupTypeOK
<1>2. issued' <= MaxTokens /\ issued + 1 \in 0..MaxTokens
  BY <1>1, GroupConstantsOK
<1>3. [token |-> issued + 1, error |-> FALSE] \in Member
  BY <1>2 DEF Member
<1>4. \A s \in Refreshers : Goes(work'[s], work[s])
  BY <1>1, CrossedType
<1>5. work' \in [Refreshers -> Work]
  BY <1>1, <1>4 DEF Goes
<1>6. members' \in [Members -> Member]
      /\ \A m \in Members : members'[m].token = members[m].token \/ members'[m].token = issued + 1
  BY <1>1, <1>3
<1> QED
  BY <1>1, <1>2, <1>4, <1>5, <1>6

-----------------------------------------------------------------------------
(* Types *)

\* The number of grants is the number of tokens that GitLab takes at first
LEMMA InitGrants ==
    ASSUME GroupInit
    PROVE  grants \in Nat /\ grants > 0 /\ (grants = 1 => valid = {2})
<1>1. Cardinality({2}) = 1
  BY FS_Singleton
<1>2. {1, 2} = {1} \cup {2} /\ 2 \notin {1}
  OBVIOUS
<1>4. IsFiniteSet({1}) /\ Cardinality({1}) = 1
  BY FS_Singleton
<1>3. Cardinality({1, 2}) = 2
  BY <1>2, <1>4, FS_AddElement
<1> QED
  BY <1>1, <1>3 DEF GroupInit

LEMMA InitKnown ==
    ASSUME GroupInit
    PROVE  Known
<1>1. /\ members \in [Members -> [token : 0..2, error : {FALSE}]]
      /\ issued = 2 /\ stale \in 0..2 /\ lost = {} /\ faults = 0 /\ revoked = FALSE
      /\ work = [r \in Refreshers |-> Rest]
  BY DEF GroupInit
<1>2. members \in [Members -> Member] /\ \A m \in Members : members[m].token <= 2
  <2>1. 0..2 \subseteq 0..MaxTokens
    BY GroupConstantsOK
  <2>2. ASSUME NEW m \in Members PROVE members[m] \in Member /\ members[m].token <= 2
    <3>1. members[m] \in [token : 0..2, error : {FALSE}]
      BY <1>1
    <3>2. members[m].token \in 0..2
      BY <3>1
    <3>3. members[m].token <= 2
      BY <3>2
    <3>4. [token : 0..2, error : {FALSE}] \subseteq [token : 0..MaxTokens, error : BOOLEAN]
      BY <2>1, FALSE \in BOOLEAN
    <3> QED
      BY <3>1, <3>3, <3>4 DEF Member
  <2> QED
    BY <1>1, <2>2
<1>3. GroupTypeOK
  <2>1. valid \subseteq 1..issued
    <3>1. valid = {2} \/ valid = {1, 2}
      BY DEF GroupInit
    <3> QED
      BY <1>1, <3>1
  <2>2. issued \in 0..MaxTokens /\ faults \in 0..MaxFaults
    BY <1>1, GroupConstantsOK
  <2>3. work \in [Refreshers -> Work]
    BY <1>1, RestType
  <2> QED
    BY <1>1, <1>2, <2>1, <2>2, <2>3, InitGrants DEF GroupTypeOK
<1>4. Issued
  BY <1>1, <1>2, RestType DEF Issued
<1>5. Copied
  BY <1>1, RestType DEF Copied, At
<1> QED
  BY <1>1, <1>3, <1>4, <1>5, InitGrants DEF Known

LEMMA TypeStep ==
    ASSUME Known, GroupNext
    PROVE  GroupTypeOK' /\ issued' > 0 /\ grants' > 0 /\ issued' >= issued
<1>1. /\ members \in [Members -> Member] /\ issued \in 0..MaxTokens /\ valid \subseteq 1..issued
      /\ stale \in 0..issued /\ work \in [Refreshers -> Work] /\ lost \subseteq 1..issued
      /\ faults \in 0..MaxFaults /\ grants \in Nat /\ revoked \in BOOLEAN
      /\ issued > 0 /\ grants > 0
  BY DEF Known, GroupTypeOK
<1>2. ASSUME NEW r \in Refreshers, LoadGroup(r)
      PROVE  GroupTypeOK' /\ issued' > 0 /\ grants' > 0 /\ issued' >= issued
  <2>1. work' \in [Refreshers -> Work]
    BY <1>2, LoadEffect
  <2>2. UNCHANGED <<members, issued, valid, stale, lost, faults, grants, revoked>>
    BY <1>2 DEF LoadGroup
  <2> QED
    BY <1>1, <2>1, <2>2 DEF GroupTypeOK
<1>3. ASSUME NEW r \in Refreshers, AskGitLab(r)
      PROVE  GroupTypeOK' /\ issued' > 0 /\ grants' > 0 /\ issued' >= issued
  <2>1. work' \in [Refreshers -> Work] /\ UNCHANGED <<members, stale, grants, revoked>>
    BY <1>3, AskEffect
  <2>2. \/ UNCHANGED <<issued, valid>>
        \/ /\ issued' = issued + 1 /\ issued' <= MaxTokens
           /\ \E t \in Tokens : valid' = (valid \ {t}) \cup {issued + 1}
    BY <1>3, AskEffect
  <2>3. lost' = lost \/ (lost' = lost \cup {issued + 1} /\ issued' = issued + 1)
    BY <1>3, AskEffect
  <2>4. faults' = faults \/ (faults' = faults + 1 /\ faults < MaxFaults)
    BY <1>3, AskEffect
  <2>5. issued' \in 0..MaxTokens /\ issued' >= issued /\ issued' > 0 /\ 1..issued \subseteq 1..issued'
    BY <1>1, <2>2, GroupConstantsOK
  <2>6. valid' \subseteq 1..issued'
    <3>1. valid' \subseteq valid \cup {issued'}
      BY <2>2
    <3>2. issued' \in 1..issued'
      BY <2>5
    <3> QED
      BY <1>1, <2>5, <3>1, <3>2
  <2>8. lost' \subseteq 1..issued' /\ stale' \in 0..issued'
    <3>1. lost' \subseteq lost \cup {issued'}
      BY <2>3
    <3>2. issued' \in 1..issued'
      BY <2>5
    <3> QED
      BY <1>1, <2>1, <2>5, <3>1, <3>2
  <2>7. faults' \in 0..MaxFaults
    BY <1>1, <2>4, GroupConstantsOK
  <2> QED
    BY <1>1, <2>1, <2>5, <2>6, <2>7, <2>8 DEF GroupTypeOK
<1>4. ASSUME NEW r \in Refreshers, Exhausted(r)
      PROVE  GroupTypeOK' /\ issued' > 0 /\ grants' > 0 /\ issued' >= issued
  <2>1. work' \in [Refreshers -> Work]
        /\ UNCHANGED <<members, issued, valid, stale, lost, faults, grants, revoked>>
    BY <1>4, ExhaustedEffect
  <2> QED
    BY <1>1, <2>1 DEF GroupTypeOK
<1>5. ASSUME NEW r \in Refreshers, CommitGroup(r)
      PROVE  GroupTypeOK' /\ issued' > 0 /\ grants' > 0 /\ issued' >= issued
  <2>1. /\ members' \in [Members -> Member] /\ work' \in [Refreshers -> Work]
        /\ UNCHANGED <<issued, valid, stale, lost, faults, grants, revoked>>
    BY <1>5, CommitEffect
  <2>2. issued' >= issued
    BY <1>1, <2>1
  <2> QED
    BY <1>1, <2>1, <2>2 DEF GroupTypeOK
<1>6. ASSUME NEW r \in Refreshers, DropGroup(r)
      PROVE  GroupTypeOK' /\ issued' > 0 /\ grants' > 0 /\ issued' >= issued
  <2>1. /\ work' \in [Refreshers -> Work] /\ lost' \subseteq 1..issued
        /\ UNCHANGED <<members, issued, valid, stale, faults, grants, revoked>>
    BY <1>6, DropEffect
  <2>2. issued' >= issued
    BY <1>1, <2>1
  <2> QED
    BY <1>1, <2>1, <2>2 DEF GroupTypeOK
<1>7. ASSUME NEW n \in Members, Reconnect(n)
      PROVE  GroupTypeOK' /\ issued' > 0 /\ grants' > 0 /\ issued' >= issued
  <2>1. /\ issued' = issued + 1 /\ issued' <= MaxTokens /\ grants' = grants + 1
        /\ valid' = valid \cup {issued + 1} /\ members' \in [Members -> Member]
        /\ work' \in [Refreshers -> Work] /\ UNCHANGED <<stale, lost, faults, revoked>>
    BY <1>7, ReconnectEffect
  <2>2. issued' \in 0..MaxTokens /\ issued' >= issued /\ issued' > 0 /\ 1..issued \subseteq 1..issued'
        /\ issued + 1 \in 1..issued' /\ 0..issued \subseteq 0..issued'
    BY <1>1, <2>1, GroupConstantsOK
  <2>3. valid' \subseteq 1..issued' /\ lost' \subseteq 1..issued' /\ stale' \in 0..issued'
    BY <1>1, <2>1, <2>2
  <2> QED
    BY <1>1, <2>1, <2>2, <2>3 DEF GroupTypeOK
<1>8. ASSUME NEW t \in valid, Revoke(t)
      PROVE  GroupTypeOK' /\ issued' > 0 /\ grants' > 0 /\ issued' >= issued
  BY <1>1, <1>8, GroupConstantsOK DEF Revoke, GroupTypeOK
<1>9. CASE Elapse
  BY <1>1, <1>9, GroupConstantsOK DEF Elapse, GroupTypeOK
<1> QED
  BY <1>2, <1>3, <1>4, <1>5, <1>6, <1>7, <1>8, <1>9 DEF GroupNext

LEMMA IssuedStep ==
    ASSUME Known, GroupNext
    PROVE  Issued'
<1>1. /\ members \in [Members -> Member] /\ issued \in Nat /\ issued' \in Nat /\ issued' >= issued
      /\ work \in [Refreshers -> Work]
      /\ \A m \in Members : members[m].token \in Nat /\ members[m].token <= issued
  BY TypeStep DEF Known, GroupTypeOK, Issued, Member
<1> DEFINE Old(v, n) == /\ \A m \in Members : v.seen[m].token <= n /\ v.rows[m].token <= n
                        /\ \A t \in v.tried : t <= n
<1>2. \A r \in Refreshers : Old(work[r], issued)
  BY DEF Known, Issued
<1>3. \A r \in Refreshers : Old(work[r], issued')
  <2> SUFFICES ASSUME NEW r \in Refreshers PROVE Old(work[r], issued')
    OBVIOUS
  <2>1. /\ \A m \in Members : work[r].seen[m].token \in Nat /\ work[r].rows[m].token \in Nat
        /\ work[r].tried \subseteq Nat
    BY <1>1 DEF Work, Member, Tokens
  <2> QED
    BY <1>1, <1>2, <2>1
<1>4. Old(Rest, issued')
  BY <1>1, RestType
<1>5. \A m \in Members : members[m].token <= issued'
  BY <1>1
<1> DEFINE Goal == /\ \A m \in Members : members'[m].token <= issued'
                   /\ \A r \in Refreshers : Old(work'[r], issued')
<1>6. ASSUME NEW r \in Refreshers, LoadGroup(r) PROVE Goal
  <2>1. UNCHANGED <<members, issued>>
    BY <1>6 DEF LoadGroup
  <2>2. Fresh(members) # {} => Newest(Fresh(members)) <= issued'
    <3>1. Fresh(members) \in SUBSET Tokens /\ Fresh(members) \subseteq TokensOf(members)
      BY <1>1, TokensOfType DEF Fresh
    <3>2. \A t \in TokensOf(members) : t <= issued'
      BY <1>1, <1>5, TokensOfType
    <3> QED
      BY <3>1, <3>2, NewestIn
  <2>3. Old(work'[r], issued')
    BY <1>5, <1>6, <2>2, LoadEffect
  <2>4. \A s \in Refreshers \ {r} : Old(work'[s], issued')
    BY <1>3, <1>6, LoadEffect DEF Goes
  <2> QED
    BY <1>5, <2>1, <2>3, <2>4
<1>7. ASSUME NEW r \in Refreshers, AskGitLab(r) PROVE Goal
  <2>1. Old(work'[r], issued')
    <3> PICK t \in Tokens :
                /\ \E m \in Members : work[r].rows[m].token = t
                /\ \/ /\ issued' = issued + 1 /\ work'[r].seen = work[r].seen
                      /\ work'[r].tried = work[r].tried
                      /\ \A m \in Members : work'[r].rows[m].token = issued + 1
                   \/ work'[r] = [work[r] EXCEPT !.tried = @ \cup {t}]
      BY <1>7, AskEffect
    <3>1. t <= issued'
      BY <1>3
    <3>2. work[r] \in Work
      BY <1>1
    <3>3. CASE work'[r] = [work[r] EXCEPT !.tried = @ \cup {t}]
      <4>1. work'[r].seen = work[r].seen /\ work'[r].rows = work[r].rows
            /\ work'[r].tried = work[r].tried \cup {t}
        BY <3>2, <3>3 DEF Work
      <4> QED
        BY <1>3, <3>1, <4>1
    <3>4. CASE /\ issued' = issued + 1 /\ work'[r].seen = work[r].seen
               /\ work'[r].tried = work[r].tried
               /\ \A m \in Members : work'[r].rows[m].token = issued + 1
      BY <1>1, <1>3, <3>4
    <3> QED
      BY <3>3, <3>4
  <2> QED
    BY <1>3, <1>5, <1>7, <2>1, AskEffect
<1>8. ASSUME NEW r \in Refreshers, Exhausted(r) PROVE Goal
  BY <1>3, <1>4, <1>5, <1>8, ExhaustedEffect
<1>9. ASSUME NEW r \in Refreshers, CommitGroup(r) PROVE Goal
  BY <1>3, <1>4, <1>5, <1>9, CommitEffect
<1>10. ASSUME NEW r \in Refreshers, DropGroup(r) PROVE Goal
  BY <1>3, <1>4, <1>5, <1>10, DropEffect
<1>11. ASSUME NEW n \in Members, Reconnect(n) PROVE Goal
  <2>1. issued + 1 <= issued' /\ issued' = issued + 1
    BY <1>1, <1>11, ReconnectEffect
  <2> QED
    BY <1>3, <1>5, <1>11, <2>1, ReconnectEffect DEF Goes
<1>12. ASSUME NEW t \in valid, Revoke(t) PROVE Goal
  BY <1>3, <1>5, <1>12 DEF Revoke
<1>13. ASSUME Elapse PROVE Goal
  BY <1>3, <1>5, <1>13 DEF Elapse
<1>14. Goal
  BY <1>6, <1>7, <1>8, <1>9, <1>10, <1>11, <1>12, <1>13 DEF GroupNext
<1> QED
  BY <1>14 DEF Issued

LEMMA CopiedStep ==
    ASSUME Known, GroupNext
    PROVE  Copied'
<1> DEFINE One(v) == /\ v.stage = "ask" => v.rows = v.seen /\ ~v.ok
                     /\ v.stage = "commit" /\ v.ok =>
                          \A m, n \in Members : v.rows[m].token = v.rows[n].token
<1>1. work \in [Refreshers -> Work] /\ \A s \in Refreshers : One(work[s])
  BY DEF Known, GroupTypeOK, Copied, At
<1>2. One(Rest)
  BY RestType
<1>3. ASSUME NEW r \in Refreshers, LoadGroup(r)
      PROVE  \A s \in Refreshers : One(work'[s])
  <2>1. One(work'[r])
    BY <1>3, LoadEffect
  <2>2. \A s \in Refreshers \ {r} : One(work'[s])
    BY <1>1, <1>3, LoadEffect DEF Goes
  <2> QED
    BY <2>1, <2>2
<1>4. ASSUME NEW r \in Refreshers, AskGitLab(r)
      PROVE  \A s \in Refreshers : One(work'[s])
  <2>1. One(work'[r])
    <3> PICK t \in Tokens :
                   \/ /\ work'[r].stage = "commit"
                      /\ \A m \in Members : work'[r].rows[m].token = issued + 1
                   \/ work'[r] = [work[r] EXCEPT !.tried = @ \cup {t}]
      BY <1>4, AskEffect
    <3>1. work[r] \in Work
      BY <1>1
    <3>2. CASE work'[r] = [work[r] EXCEPT !.tried = @ \cup {t}]
      <4>1. work'[r].seen = work[r].seen /\ work'[r].rows = work[r].rows
            /\ work'[r].ok = work[r].ok /\ work'[r].stage = work[r].stage
        BY <3>1, <3>2 DEF Work
      <4> QED
        BY <1>1, <4>1
    <3>3. CASE work'[r].stage = "commit" /\ \A m \in Members : work'[r].rows[m].token = issued + 1
      BY <3>3
    <3> QED
      BY <3>2, <3>3
  <2> QED
    BY <1>1, <1>4, <2>1, AskEffect
<1>5. ASSUME NEW r \in Refreshers, Exhausted(r)
      PROVE  \A s \in Refreshers : One(work'[s])
  <2>1. One(work'[r])
    BY <1>1, <1>2, <1>5, ExhaustedEffect DEF At
  <2> QED
    BY <1>1, <1>5, <2>1, ExhaustedEffect
<1>6. ASSUME NEW r \in Refreshers, CommitGroup(r) \/ DropGroup(r)
      PROVE  \A s \in Refreshers : One(work'[s])
  BY <1>1, <1>2, <1>6, CommitEffect, DropEffect
<1>7. ASSUME NEW n \in Members, Reconnect(n)
      PROVE  \A s \in Refreshers : One(work'[s])
  BY <1>1, <1>7, ReconnectEffect DEF Goes
<1>8. ASSUME work' = work
      PROVE  \A s \in Refreshers : One(work'[s])
  BY <1>1, <1>8
<1>9. \A s \in Refreshers : One(work'[s])
  BY <1>3, <1>4, <1>5, <1>6, <1>7, <1>8 DEF GroupNext, Revoke, Elapse
<1> QED
  BY <1>9 DEF Copied, At

LEMMA KnownStep ==
    ASSUME Known, [GroupNext]_groupVars
    PROVE  Known'
<1>1. CASE GroupNext
  BY <1>1, TypeStep, IssuedStep, CopiedStep DEF Known
<1>2. CASE UNCHANGED groupVars
  BY <1>2 DEF Known, GroupTypeOK, Issued, Copied, At, groupVars
<1> QED
  BY <1>1, <1>2

-----------------------------------------------------------------------------
(* What refreshers that work alone, and with them all refreshers, know *)

LEMMA LoneStep ==
    ASSUME Known, AloneSees, GroupNext
    PROVE  AloneSees'
<1>1. work \in [Refreshers -> Work]
  BY DEF Known, GroupTypeOK
<1>2. ASSUME NEW r \in Refreshers, LoadGroup(r) PROVE AloneSees'
  <2>1. members' = members /\ work'[r].seen = members
    BY <1>2, LoadEffect DEF LoadGroup
  <2>2. ASSUME NEW s \in Refreshers, work'[s].stage # "idle", work'[s].alone
        PROVE  s = r
    BY <1>2, <2>2, LoadEffect DEF Goes
  <2>3. ASSUME NEW s \in Refreshers, work'[s].stage # "idle", work'[r].alone
        PROVE  s = r
    BY <1>2, <2>3, LoadEffect DEF Goes, At
  <2> QED
    BY <2>1, <2>2, <2>3 DEF AloneSees, At
<1>3. ASSUME NEW r \in Refreshers, AskGitLab(r) PROVE AloneSees'
  <2>1. /\ members' = members /\ At(r, "ask") /\ work'[r].seen = work[r].seen
        /\ work'[r].alone = work[r].alone /\ \A s \in Refreshers \ {r} : work'[s] = work[s]
    BY <1>3, AskEffect
  <2> QED
    BY <2>1 DEF AloneSees, At
<1>4. ASSUME NEW r \in Refreshers, Exhausted(r) PROVE AloneSees'
  <2>1. /\ members' = members /\ At(r, "ask") /\ \A s \in Refreshers \ {r} : work'[s] = work[s]
        /\ \/ work'[r].stage = "idle"
           \/ work'[r].seen = work[r].seen /\ work'[r].alone = work[r].alone
    BY <1>4, ExhaustedEffect, RestType
  <2> QED
    BY <2>1 DEF AloneSees, At
<1>5. ASSUME NEW r \in Refreshers, CommitGroup(r) \/ DropGroup(r) PROVE AloneSees'
  <2>1. /\ At(r, "commit") /\ work'[r].stage = "idle"
        /\ \A s \in Refreshers \ {r} : work'[s] = work[s]
    BY <1>5, CommitEffect, DropEffect, RestType
  <2> QED
    BY <2>1 DEF AloneSees, At
<1>6. ASSUME NEW n \in Members, Reconnect(n) PROVE AloneSees'
  BY <1>6, ReconnectEffect DEF AloneSees, Goes, At
<1>7. ASSUME UNCHANGED <<members, work>> PROVE AloneSees'
  BY <1>7 DEF AloneSees, At
<1> QED
  BY <1>2, <1>3, <1>4, <1>5, <1>6, <1>7 DEF GroupNext, Revoke, Elapse

LEMMA SpentStep ==
    ASSUME Known, Spent, GroupNext
    PROVE  Spent'
<1>1. /\ issued \in Nat /\ faults \in Nat
      /\ \A r \in Refreshers : issued + 1 \notin work[r].tried
  <2>1. issued \in Nat /\ faults \in Nat /\ work \in [Refreshers -> Work]
    BY DEF Known, GroupTypeOK
  <2>2. ASSUME NEW r \in Refreshers, issued + 1 \in work[r].tried PROVE FALSE
    <3>1. issued + 1 <= issued
      BY <2>2 DEF Known, Issued
    <3> QED
      BY <2>1, <3>1
  <2> QED
    BY <2>1, <2>2
<1>2. ASSUME NEW r \in Refreshers, LoadGroup(r) PROVE Spent'
  <2>1. /\ UNCHANGED <<valid, faults>> /\ work'[r].tried = {}
        /\ \A s \in Refreshers \ {r} : work'[s].tried = work[s].tried
    BY <1>2, LoadEffect DEF LoadGroup, Goes
  <2> QED
    BY <2>1 DEF Spent
<1>3. ASSUME NEW r \in Refreshers, AskGitLab(r) PROVE Spent'
  <2> SUFFICES ASSUME faults' = 0 PROVE \A s \in Refreshers : work'[s].tried \cap valid' = {}
    BY DEF Spent
  <2>1. work[r] \in Work /\ \A s \in Refreshers \ {r} : work'[s] = work[s]
    BY <1>3, AskEffect DEF Known, GroupTypeOK
  <2> PICK t \in Tokens :
        \/ /\ faults' = faults /\ valid' = (valid \ {t}) \cup {issued + 1}
           /\ work'[r].tried = work[r].tried
        \/ /\ work'[r] = [work[r] EXCEPT !.tried = @ \cup {t}]
           /\ t \notin valid /\ UNCHANGED <<valid, faults>>
        \/ faults' = faults + 1
    BY <1>3, AskEffect
  <2>2. faults' # faults + 1
    BY <1>1
  <2>3. CASE /\ faults' = faults /\ valid' = (valid \ {t}) \cup {issued + 1}
             /\ work'[r].tried = work[r].tried
    BY <1>1, <2>1, <2>3 DEF Spent
  <2>4. CASE /\ work'[r] = [work[r] EXCEPT !.tried = @ \cup {t}]
             /\ t \notin valid /\ UNCHANGED <<valid, faults>>
    <3>1. work'[r].tried = work[r].tried \cup {t}
      BY <2>1, <2>4 DEF Work
    <3> QED
      BY <2>1, <2>4, <3>1 DEF Spent
  <2> QED
    BY <2>2, <2>3, <2>4
<1>4. ASSUME NEW r \in Refreshers, Exhausted(r) PROVE Spent'
  <2>1. /\ UNCHANGED <<valid, faults>> /\ \A s \in Refreshers \ {r} : work'[s] = work[s]
        /\ work'[r].tried = {} \/ work'[r].tried = work[r].tried
    BY <1>4, ExhaustedEffect, RestType
  <2> QED
    BY <2>1 DEF Spent
<1>5. ASSUME NEW r \in Refreshers, CommitGroup(r) \/ DropGroup(r) PROVE Spent'
  <2>1. /\ UNCHANGED <<valid, faults>> /\ \A s \in Refreshers \ {r} : work'[s] = work[s]
        /\ work'[r].tried = {}
    BY <1>5, CommitEffect, DropEffect, RestType
  <2> QED
    BY <2>1 DEF Spent
<1>6. ASSUME NEW n \in Members, Reconnect(n) PROVE Spent'
  <2>1. /\ valid' = valid \cup {issued + 1} /\ faults' = faults
        /\ \A s \in Refreshers : work'[s].tried = work[s].tried
    BY <1>6, ReconnectEffect DEF Goes
  <2> QED
    BY <1>1, <2>1 DEF Spent
<1>7. ASSUME work' = work, faults' = faults, valid' \subseteq valid PROVE Spent'
  BY <1>7 DEF Spent
<1> QED
  BY <1>2, <1>3, <1>4, <1>5, <1>6, <1>7 DEF GroupNext, Revoke, Elapse

-----------------------------------------------------------------------------
(* One grant *)

LEMMA HomeInit == ASSUME GroupInit PROVE HomeKept
<1> SUFFICES ASSUME grants = 1 PROVE \E h \in Members : Home(h)
  BY DEF HomeKept, OneGrant
<1> PICK h \in Members : members[h].token = 2
  BY DEF GroupInit
<1>1. Known /\ valid = {2} /\ issued = 2 /\ work = [r \in Refreshers |-> Rest]
  BY InitKnown, InitGrants DEF GroupInit
<1>2. \A r \in Refreshers : At(r, "idle") /\ ~Brings(r)
  BY <1>1, RestType DEF At, Brings
<1>3. \A m \in Members : members[m].token <= members[h].token
  BY <1>1 DEF Known, Issued
<1>4. Home(h)
  BY <1>1, <1>2, <1>3 DEF Home
<1> QED
  BY <1>4

LEMMA Numbers ==
    ASSUME Known
    PROVE  /\ issued \in Nat /\ issued > 0 /\ faults \in Nat /\ grants \in Nat /\ grants > 0
           /\ members \in [Members -> Member] /\ work \in [Refreshers -> Work]
           /\ \A m \in Members : members[m].token \in Nat /\ members[m].token <= issued
           /\ \A r \in Refreshers : \A m \in Members :
                /\ work[r].seen[m].token \in Nat /\ work[r].seen[m].token <= issued
                /\ work[r].rows[m].token \in Nat /\ work[r].rows[m].token <= issued
<1>1. /\ issued \in Nat /\ issued > 0 /\ faults \in Nat /\ grants \in Nat /\ grants > 0
      /\ members \in [Members -> Member] /\ work \in [Refreshers -> Work]
  BY DEF Known, GroupTypeOK
<1>2. \A m \in Members : members[m].token \in Nat /\ members[m].token <= issued
  BY <1>1 DEF Known, Issued, Member
<1>3. ASSUME NEW r \in Refreshers, NEW m \in Members
      PROVE  /\ work[r].seen[m].token \in Nat /\ work[r].seen[m].token <= issued
             /\ work[r].rows[m].token \in Nat /\ work[r].rows[m].token <= issued
  <2>1. work[r] \in Work
    BY <1>1
  <2>2. work[r].seen[m] \in Member /\ work[r].rows[m] \in Member
    BY <2>1 DEF Work
  <2> QED
    BY <2>2 DEF Known, Issued, Member
<1> QED
  BY <1>1, <1>2, <1>3

\* Who reads the group gets the token of h, or all rows as they are
LEMMA HomeLoad ==
    ASSUME Known, Known', NEW h \in Members, Home(h), NEW r \in Refreshers, LoadGroup(r)
    PROVE  Home(h)'
<1>1. /\ At(r, "idle") /\ UNCHANGED <<members, issued, valid>> /\ work'[r].seen = members
      /\ \A s \in Refreshers \ {r} : /\ work'[s].stage = work[s].stage /\ work'[s].seen = work[s].seen
                                     /\ work'[s].rows = work[s].rows
  BY LoadEffect DEF LoadGroup, Goes
<1>2. /\ work'[r].rows[h].token = members[h].token
      /\ \A m \in Members : work'[r].rows[m].token <= members[h].token
  <2>1. CASE work'[r].rows = members
    BY <2>1, Numbers DEF Home
  <2>2. CASE /\ Fresh(members) # {}
             /\ \A m \in Members : work'[r].rows[m].token = Newest(Fresh(members))
    <3>1. members \in [Members -> Member] /\ stale \in Nat /\ members[h].token \in Nat
      BY Numbers DEF Known, GroupTypeOK
    <3>2. Fresh(members) \in SUBSET Tokens
      BY <3>1, TokensOfType DEF Fresh
    <3>3. /\ Newest(Fresh(members)) \in Fresh(members)
          /\ \A u \in Fresh(members) : u <= Newest(Fresh(members))
      BY <2>2, <3>2, NewestIn
    <3>4. PICK m \in Members : members[m].token = Newest(Fresh(members))
      BY <3>1, <3>3, TokensOfType DEF Fresh
    <3>5. Newest(Fresh(members)) <= members[h].token /\ Newest(Fresh(members)) > stale
          /\ Newest(Fresh(members)) \in Nat
      BY <3>1, <3>2, <3>3, <3>4 DEF Home, Fresh, Tokens
    <3>6. members[h].token \in Fresh(members)
      BY <3>1, <3>5, TokensOfType DEF Fresh
    <3>7. members[h].token <= Newest(Fresh(members))
      BY <3>3, <3>6
    <3>8. members[h].token = Newest(Fresh(members))
      BY <3>1, <3>5, <3>7
    <3> QED
      BY <2>2, <3>1, <3>8
  <2> QED
    BY <2>1, <2>2, LoadEffect
<1>3. \A s \in Refreshers \ {r} : Brings(s)' <=> Brings(s)
  BY <1>1 DEF Brings, At
<1>4. ~Brings(r)' /\ ~Brings(r)
  BY <1>1, <1>2, Numbers DEF Brings, At
<1>5. \A s \in Refreshers \ {r} : Spares(s, h)' <=> Spares(s, h)
  BY <1>1 DEF Spares
<1>6. Spares(r, h)'
  BY <1>1, <1>2 DEF Spares
<1>7. \A m \in Members : members'[m].token <= members'[h].token
  BY <1>1 DEF Home
<1>8. members[h].token <= members[h].token
  BY Numbers
<1>9. ASSUME NEW s \in Refreshers, ~At(s, "idle")'
      PROVE  /\ work'[s].seen[h].token <= members'[h].token
             /\ \A m \in Members : work'[s].seen[m].token <= work'[s].seen[h].token
             /\ Brings(s)' \/ Spares(s, h)'
  <2>1. CASE s = r
    BY <1>1, <1>6, <1>7, <1>8, <2>1
  <2>2. CASE s # r
    BY <1>1, <1>3, <1>5, <1>9, <2>2 DEF Home, At
  <2> QED
    BY <2>1, <2>2
<1>10. \A s \in Refreshers : Brings(s)' <=> Brings(s)
  BY <1>3, <1>4
<1> QED
  BY <1>1, <1>7, <1>9, <1>10 DEF Home

\* GitLab takes the token of h only: who is answered brings the next one, and
\* nobody else does
LEMMA HomeAsk ==
    ASSUME Known, Known', NEW h \in Members, Home(h), NEW r \in Refreshers, AskGitLab(r),
           faults' = faults, lost' = lost
    PROVE  Home(h)'
<1>1. /\ At(r, "ask") /\ members' = members /\ work'[r].seen = work[r].seen
      /\ \A s \in Refreshers \ {r} : work'[s] = work[s]
      /\ work[r].rows = work[r].seen /\ work[r] \in Work
  BY AskEffect, Numbers DEF Known, Copied
<1>2. PICK t \in Tokens :
        /\ \E m \in Members : work[r].rows[m].token = t
        /\ \/ /\ t \in valid /\ issued' = issued + 1
              /\ valid' = (valid \ {t}) \cup {issued + 1}
              /\ work'[r].stage = "commit" /\ \A m \in Members : work'[r].rows[m].token = issued + 1
           \/ /\ work'[r] = [work[r] EXCEPT !.tried = @ \cup {t}]
              /\ UNCHANGED <<issued, valid>>
           \/ faults' = faults + 1
  BY AskEffect
<1>3. faults' # faults + 1
  BY Numbers
<1>4. CASE /\ work'[r] = [work[r] EXCEPT !.tried = @ \cup {t}]
           /\ UNCHANGED <<issued, valid>>
  <2>1. work'[r].stage = work[r].stage /\ work'[r].rows = work[r].rows
    BY <1>1, <1>4 DEF Work
  <2>2. \A s \in Refreshers : (Brings(s)' <=> Brings(s)) /\ (Spares(s, h)' <=> Spares(s, h))
    BY <1>1, <1>4, <2>1 DEF Brings, Spares, At
  <2> QED
    BY <1>1, <1>4, <2>1, <2>2 DEF Home, At
<1>5. CASE /\ t \in valid /\ issued' = issued + 1
           /\ valid' = (valid \ {t}) \cup {issued + 1}
           /\ work'[r].stage = "commit" /\ \A m \in Members : work'[r].rows[m].token = issued + 1
  <2>1. t = issued /\ valid' = {issued'}
    BY <1>5 DEF Home
  <2>2. members[h].token = issued
    <3>1. PICK m \in Members : work[r].seen[m].token = issued
      BY <1>1, <1>2, <2>1
    <3>2. issued <= work[r].seen[h].token /\ work[r].seen[h].token <= members[h].token
      BY <1>1, <3>1 DEF Home, At
    <3>3. /\ issued \in Nat /\ work[r].seen[h].token \in Nat
          /\ members[h].token \in Nat /\ members[h].token <= issued
      BY Numbers
    <3> QED
      BY <3>2, <3>3
  <2>3. \A s \in Refreshers : ~Brings(s)
    BY <2>2, Numbers DEF Home
  <2>4. \A s \in Refreshers \ {r} : ~Brings(s)'
    BY <1>1, <1>5, Numbers DEF Brings
  <2>5. Brings(r)'
    <3>1. \A m \in Members : work[r].seen[m].token < issued + 1
      BY Numbers
    <3> QED
      BY <1>1, <1>5, <3>1 DEF Brings, At
  <2>6. members'[h].token < issued'
    BY <1>1, <1>5, <2>2, Numbers
  <2>7. \A s \in Refreshers : ~At(s, "idle")' => ~At(s, "idle")
    BY <1>1 DEF At
  <2>8. ASSUME NEW s \in Refreshers, ~At(s, "idle")'
        PROVE  Brings(s)' \/ Spares(s, h)'
    BY <1>1, <2>3, <2>5, <2>7, <2>8 DEF Home, Spares
  <2>9. \A s \in Refreshers : work'[s].seen = work[s].seen
    BY <1>1
  <2> QED
    BY <1>1, <2>1, <2>4, <2>5, <2>6, <2>7, <2>8, <2>9 DEF Home
<1> QED
  BY <1>2, <1>3, <1>4, <1>5

\* A group is marked with the tokens it had
LEMMA HomeExhausted ==
    ASSUME Known, NEW h \in Members, Home(h), NEW r \in Refreshers, Exhausted(r)
    PROVE  Home(h)'
<1>1. /\ At(r, "ask") /\ UNCHANGED <<members, issued, valid>>
      /\ \A s \in Refreshers \ {r} : work'[s] = work[s]
      /\ \A m \in Members : work[r].rows[m].token = work[r].seen[m].token
      /\ \/ work'[r].stage = "idle"
         \/ /\ work'[r].seen = work[r].seen
            /\ \A m \in Members : work'[r].rows[m].token = work[r].rows[m].token
  BY ExhaustedEffect, RestType DEF Known, Copied
<1>2. ~Brings(r) /\ ~Brings(r)'
  BY <1>1, Numbers DEF Brings, At
<1>3. \A s \in Refreshers : Brings(s)' <=> Brings(s)
  BY <1>1, <1>2 DEF Brings, At
<1>4. work'[r].stage # "idle" => Spares(r, h)'
  BY <1>1, <1>2 DEF Home, Spares, At
<1>5. \A s \in Refreshers \ {r} : Spares(s, h)' <=> Spares(s, h)
  BY <1>1 DEF Spares
<1>6. ASSUME NEW s \in Refreshers, ~At(s, "idle")'
      PROVE  /\ work'[s].seen = work[s].seen /\ ~At(s, "idle")
             /\ Brings(s)' \/ Spares(s, h)'
  BY <1>1, <1>3, <1>4, <1>5, <1>6 DEF Home, At
<1> QED
  BY <1>1, <1>3, <1>6 DEF Home

\* The newest token comes to all rows, or h keeps its own, which is the newest
\* of the rows still
LEMMA HomeCommit ==
    ASSUME Known, Known', NEW h \in Members, Home(h), NEW r \in Refreshers, CommitGroup(r)
    PROVE  Home(h)'
<1>1. /\ At(r, "commit") /\ UNCHANGED <<issued, valid>> /\ work'[r].stage = "idle"
      /\ \A s \in Refreshers \ {r} : work'[s] = work[s]
      /\ \A m \in Members :
           members'[m].token = IF work[r].rows[m].token = work[r].seen[m].token
                               THEN members[m].token ELSE work[r].rows[m].token
  BY CommitEffect, RestType
<1>2. \A s \in Refreshers \ {r} : (Brings(s)' <=> Brings(s)) /\ (Spares(s, h)' <=> Spares(s, h))
  BY <1>1 DEF Brings, Spares, At
<1>3. ~Brings(r)'
  BY <1>1 DEF Brings, At
<1>4. ASSUME NEW s \in Refreshers, ~At(s, "idle")'
      PROVE  /\ s # r /\ ~At(s, "idle") /\ work'[s].seen = work[s].seen
             /\ \A m \in Members : work'[s].seen[m].token <= work'[s].seen[h].token
             /\ Brings(s)' \/ Spares(s, h)'
  <2>1. s # r
    BY <1>1, <1>4 DEF At
  <2> QED
    BY <1>1, <1>2, <1>4, <2>1 DEF Home, At
<1>5. CASE Brings(r)
  <2>1. \A m \in Members : members'[m].token = issued
    BY <1>1, <1>5, Numbers DEF Brings
  <2>2. \A s \in Refreshers : ~Brings(s)'
    BY <1>2, <1>3, <1>5 DEF Home
  <2>3. \A s \in Refreshers : work[s].seen[h].token <= issued
    BY Numbers
  <2>4. issued <= issued
    BY Numbers
  <2> QED
    BY <1>1, <1>4, <2>1, <2>2, <2>3, <2>4 DEF Home
<1>6. CASE Spares(r, h)
  <2>1. members'[h].token = members[h].token
    BY <1>1, <1>6 DEF Spares
  <2>2. ASSUME NEW m \in Members PROVE members'[m].token <= members'[h].token
    <3>1. members[m].token <= members[h].token
      BY DEF Home
    <3>2. work[r].rows[m].token <= work[r].seen[h].token /\ work[r].seen[h].token <= members[h].token
      BY <1>1, <1>6 DEF Spares, Home, At
    <3>3. /\ work[r].rows[m].token \in Nat /\ work[r].seen[h].token \in Nat
          /\ members[h].token \in Nat
      BY Numbers
    <3>4. work[r].rows[m].token <= members[h].token
      BY <3>2, <3>3
    <3> QED
      BY <1>1, <2>1, <3>1, <3>4
  <2>3. ~Brings(r)
    BY <1>6, Numbers DEF Spares, Brings
  <2>4. \A s \in Refreshers : Brings(s)' <=> Brings(s)
    BY <1>2, <1>3, <2>3
  <2> QED
    BY <1>1, <1>4, <2>1, <2>2, <2>4 DEF Home
<1> QED
  BY <1>1, <1>5, <1>6 DEF Home, At

\* Who drops what it brings loses a token
LEMMA HomeDrop ==
    ASSUME Known, NEW h \in Members, Home(h), NEW r \in Refreshers, DropGroup(r), lost' = {}
    PROVE  Home(h)'
<1>1. /\ At(r, "commit") /\ UNCHANGED <<members, issued, valid>> /\ work'[r].stage = "idle"
      /\ \A s \in Refreshers \ {r} : work'[s] = work[s]
      /\ lost' = lost \cup (TokensOf(work[r].rows) \ TokensOf(work[r].seen))
  BY DropEffect, RestType
<1>2. ~Brings(r)
  <2> SUFFICES ASSUME Brings(r) PROVE FALSE
    OBVIOUS
  <2>1. work[r].rows \in [Members -> Member] /\ work[r].seen \in [Members -> Member]
    BY DEF Known, GroupTypeOK, Work
  <2>2. work[r].rows[h].token = issued /\ issued # 0
    BY Numbers DEF Brings
  <2>3. issued \in TokensOf(work[r].rows)
    BY <2>1, <2>2, TokensOfType
  <2>4. issued \in TokensOf(work[r].seen)
    BY <1>1, <2>3
  <2>5. PICK m \in Members : work[r].seen[m].token = issued
    BY <2>1, <2>4, TokensOfType
  <2> QED
    BY <2>5, Numbers DEF Brings
<1>3. \A s \in Refreshers : Brings(s)' <=> Brings(s)
  BY <1>1, <1>2 DEF Brings, At
<1>4. \A s \in Refreshers \ {r} : Spares(s, h)' <=> Spares(s, h)
  BY <1>1 DEF Spares
<1>5. ASSUME NEW s \in Refreshers, ~At(s, "idle")'
      PROVE  s # r /\ ~At(s, "idle") /\ work'[s] = work[s]
  BY <1>1, <1>5 DEF At
<1> QED
  BY <1>1, <1>3, <1>4, <1>5 DEF Home

LEMMA HomeStep ==
    ASSUME Known, Known', HomeKept, GroupNext
    PROVE  HomeKept'
<1> SUFFICES ASSUME OneGrant' PROVE \E h \in Members : Home(h)'
  BY DEF HomeKept
<1>1. grants' = 1 /\ faults' = 0 /\ lost' = {} /\ ~revoked'
  BY DEF OneGrant
<1>2. ASSUME grants' = grants, faults' = faults, lost' = lost \/ lost = {}, revoked' = revoked
      PROVE  \E h \in Members : Home(h)
  BY <1>1, <1>2 DEF HomeKept, OneGrant
<1>3. ASSUME NEW r \in Refreshers, LoadGroup(r) PROVE \E h \in Members : Home(h)'
  <2>1. \E h \in Members : Home(h)
    BY <1>2, <1>3 DEF LoadGroup
  <2> QED
    BY <1>3, <2>1, HomeLoad
<1>4. ASSUME NEW r \in Refreshers, AskGitLab(r) PROVE \E h \in Members : Home(h)'
  <2>1. grants' = grants /\ revoked' = revoked
    BY <1>4, AskEffect
  <2>2. UNCHANGED <<lost, faults>> \/ faults' = faults + 1
    BY <1>4, AskEffect
  <2>3. UNCHANGED <<lost, faults>>
    BY <1>1, <2>2, Numbers
  <2>4. \E h \in Members : Home(h)
    BY <1>2, <2>1, <2>3
  <2> QED
    BY <1>4, <2>3, <2>4, HomeAsk
<1>5. ASSUME NEW r \in Refreshers, Exhausted(r) PROVE \E h \in Members : Home(h)'
  <2>1. \E h \in Members : Home(h)
    BY <1>2, <1>5 DEF Exhausted
  <2> QED
    BY <1>5, <2>1, HomeExhausted
<1>6. ASSUME NEW r \in Refreshers, CommitGroup(r) PROVE \E h \in Members : Home(h)'
  <2>1. \E h \in Members : Home(h)
    BY <1>2, <1>6, CommitEffect
  <2> QED
    BY <1>6, <2>1, HomeCommit
<1>7. ASSUME NEW r \in Refreshers, DropGroup(r) PROVE \E h \in Members : Home(h)'
  <2>1. lost = {}
    BY <1>1, <1>7, DropEffect
  <2>2. \E h \in Members : Home(h)
    BY <1>2, <1>7, <2>1, DropEffect
  <2> QED
    BY <1>1, <1>7, <2>2, HomeDrop
<1>8. ASSUME NEW n \in Members, Reconnect(n) PROVE FALSE
  <2>1. grants' = grants + 1
    BY <1>8, ReconnectEffect
  <2> QED
    BY <1>1, <2>1, Numbers
<1>9. ASSUME NEW t \in valid, Revoke(t) PROVE FALSE
  BY <1>1, <1>9 DEF Revoke
<1>10. ASSUME Elapse PROVE \E h \in Members : Home(h)'
  <2>1. UNCHANGED <<members, issued, valid, work, lost, faults, grants, revoked>>
    BY <1>10 DEF Elapse
  <2> PICK h \in Members : Home(h)
    BY <1>2, <2>1
  <2> QED
    BY <2>1 DEF Home, Brings, Spares, At
<1> QED
  BY <1>3, <1>4, <1>5, <1>6, <1>7, <1>8, <1>9, <1>10 DEF GroupNext

-----------------------------------------------------------------------------
(* Theorems *)

LEMMA InvInit == GroupInit => Inv
<1> SUFFICES ASSUME GroupInit PROVE Inv
  OBVIOUS
<1>1. work = [r \in Refreshers |-> Rest]
  BY DEF GroupInit
<1>2. AloneSees /\ Spent
  BY <1>1, RestType DEF AloneSees, Spent, At
<1> QED
  BY <1>2, InitKnown, HomeInit DEF Inv

LEMMA InvStep == Inv /\ [GroupNext]_groupVars => Inv'
<1> SUFFICES ASSUME Inv, [GroupNext]_groupVars PROVE Inv'
  OBVIOUS
<1>1. Known /\ AloneSees /\ Spent /\ HomeKept /\ Known'
  BY KnownStep DEF Inv
<1>2. CASE GroupNext
  BY <1>1, <1>2, LoneStep, SpentStep, HomeStep DEF Inv
<1>3. CASE UNCHANGED groupVars
  <2>1. UNCHANGED <<members, issued, valid, work, lost, faults, grants, revoked>>
    BY <1>3 DEF groupVars
  <2> QED
    BY <1>1, <2>1 DEF Inv, AloneSees, Spent, HomeKept, OneGrant, Home, Brings, Spares, At
<1> QED
  BY <1>2, <1>3

THEOREM GroupInvariant == GroupSpec => []Inv
  BY InvInit, InvStep, PTL DEF GroupSpec

\* Every variable of the model stays within its type: tokens are known only
\* after GitLab issued them (gitlab_group.py).
THEOREM GroupTyped == GroupSpec => []GroupTypeOK
<1>1. Inv => GroupTypeOK
  BY DEF Inv, Known
<1> QED
  BY <1>1, GroupInvariant, PTL

\* With one grant, which nobody revokes, and neither failed calls nor dropped
\* answers, a row or a transaction at work always has the token that GitLab
\* takes, for any number of connections and of refreshers that overlap
\* (ensure_group_access_token and propagate_tokens of gitlab_group.py).
THEOREM GroupStaysUsable == GroupSpec => []GroupUsable
<1>1. Inv => GroupUsable
  <2> SUFFICES ASSUME Inv, OneGrant PROVE Held \cap valid # {}
    BY DEF GroupUsable, OneGrant
  <2>1. PICK h \in Members : Home(h)
    BY DEF Inv, HomeKept
  <2>2. /\ valid = {issued} /\ issued # 0 /\ members \in [Members -> Member]
        /\ work \in [Refreshers -> Work]
    BY <2>1, Numbers DEF Home, Inv
  <2>3. CASE members[h].token = issued
    <3>1. issued \in TokensOf(members)
      BY <2>2, <2>3, TokensOfType
    <3> QED
      BY <2>2, <3>1 DEF Held
  <2>4. ASSUME NEW r \in Refreshers, Brings(r) PROVE Held \cap valid # {}
    <3>1. work[r].rows[h].token = issued /\ r \in Working
      BY <2>4 DEF Brings, At, Working
    <3>2. work[r].rows \in [Members -> Member]
      BY <2>2 DEF Work
    <3>3. issued \in TokensOf(work[r].rows)
      BY <2>2, <3>1, <3>2, TokensOfType
    <3> QED
      BY <2>2, <3>1, <3>3 DEF Held
  <2> QED
    BY <2>1, <2>3, <2>4 DEF Home
<1> QED
  BY <1>1, GroupInvariant, PTL

\* A refresher that worked alone marks the group as failed only when GitLab
\* takes none of its tokens, calls that failed apart
\* (ensure_group_access_token of gitlab_group.py).
THEOREM ErrorsOnlyExhausted == GroupSpec => ErrorOnlyExhausted
<1> DEFINE A == \A r \in Refreshers :
          work[r].stage = "ask" /\ work[r].alone /\ faults = 0 /\ work'[r].stage = "commit"
            /\ ~work'[r].ok => TokensOf(members) \cap valid = {}
<1>1. Inv /\ [GroupNext]_groupVars => [A]_groupVars
  <2> SUFFICES ASSUME Inv, GroupNext, NEW r \in Refreshers,
                      work[r].stage = "ask", work[r].alone, faults = 0,
                      work'[r].stage = "commit", ~work'[r].ok
               PROVE  TokensOf(members) \cap valid = {}
    OBVIOUS
  <2>1. Known
    BY DEF Inv
  <2>2. ASSUME NEW s \in Refreshers, LoadGroup(s) PROVE FALSE
    BY <2>1, <2>2, LoadEffect DEF Goes, At
  <2>3. ASSUME NEW s \in Refreshers, AskGitLab(s) PROVE FALSE
    <3>1. s = r
      BY <2>1, <2>3, AskEffect
    <3>2. work[r] \in Work
      BY <2>1, Numbers
    <3>3. work'[r].ok \/ \E t \in Tokens : work'[r] = [work[r] EXCEPT !.tried = @ \cup {t}]
      BY <2>1, <2>3, <3>1, AskEffect
    <3>4. work'[r].stage = "ask"
      BY <3>2, <3>3 DEF Work
    <3> QED
      BY <3>4
  <2>4. ASSUME NEW s \in Refreshers, Exhausted(s) PROVE TokensOf(members) \cap valid = {}
    <3>1. s = r
      BY <2>1, <2>4, ExhaustedEffect
    <3>2. Untried(work[r]) = {}
      BY <2>4, <3>1, <2>1, ExhaustedEffect
    <3>3. work[r].rows = members
      BY <2>1 DEF Inv, AloneSees, Known, Copied, At
    <3> QED
      BY <3>2, <3>3 DEF Untried, Inv, Spent
  <2>5. ASSUME NEW s \in Refreshers, CommitGroup(s) \/ DropGroup(s) PROVE FALSE
    BY <2>1, <2>5, CommitEffect, DropEffect, RestType
  <2>6. ASSUME NEW n \in Members, Reconnect(n) PROVE FALSE
    BY <2>1, <2>6, ReconnectEffect DEF Goes
  <2> QED
    BY <2>2, <2>3, <2>4, <2>5, <2>6 DEF GroupNext, Revoke, Elapse
<1> QED
  BY <1>1, GroupInvariant, PTL DEF GroupSpec, ErrorOnlyExhausted

\* A refresh that worked alone leaves one token in all connections of the group
\* (propagate_tokens of gitlab_group.py).
THEOREM GroupsAgree == GroupSpec => GroupAgrees
<1> DEFINE A == \A r \in Refreshers :
          work[r].stage = "commit" /\ work[r].ok /\ work[r].alone
            /\ work'[r].stage = "idle" /\ members' # members
            => \A m, n \in Members : members'[m].token = members'[n].token
<1>1. Inv /\ [GroupNext]_groupVars => [A]_groupVars
  <2> SUFFICES ASSUME Inv, GroupNext, NEW r \in Refreshers,
                      work[r].stage = "commit", work[r].ok, work[r].alone,
                      work'[r].stage = "idle", members' # members
               PROVE  \A m, n \in Members : members'[m].token = members'[n].token
    OBVIOUS
  <2>1. Known
    BY DEF Inv
  <2>2. ASSUME NEW s \in Refreshers, CommitGroup(s)
        PROVE  \A m, n \in Members : members'[m].token = members'[n].token
    <3>1. s = r
      BY <2>1, <2>2, CommitEffect
    <3>2. work[r].seen = members
      BY DEF Inv, AloneSees, At
    <3>3. \A m \in Members : members'[m].token = work[r].rows[m].token
      BY <2>1, <2>2, <3>1, <3>2, CommitEffect
    <3>4. \A m, n \in Members : work[r].rows[m].token = work[r].rows[n].token
      BY <2>1 DEF Known, Copied, At
    <3> QED
      BY <3>3, <3>4
  <2>3. ASSUME NEW n \in Members, Reconnect(n) PROVE FALSE
    BY <2>1, <2>3, ReconnectEffect DEF Goes
  <2> QED
    BY <2>2, <2>3 DEF GroupNext, LoadGroup, AskGitLab, Exhausted, DropGroup, Revoke, Elapse
<1> QED
  BY <1>1, GroupInvariant, PTL DEF GroupSpec, GroupAgrees
=============================================================================
