------------------------------ MODULE CIConnection ------------------------------
(***************************************************************************)
(* The connection rows of one project at one CI provider and the webhooks  *)
(* that the application registers there.                                   *)
(*                                                                         *)
(* A request reads the row, calls the provider and commits. Nothing locks  *)
(* the row in between, except an insert or an update that is flushed       *)
(* before the call. SQLAlchemy's commit is an UPDATE by primary key of the *)
(* columns whose value has changed since they were read.                   *)
(*                                                                         *)
(* An operator on a work record w gives the set of records the code may    *)
(* leave. w holds the request's copy of the row, the project's hooks, the  *)
(* numbers in use for hooks and secrets, the faults so far, and whether    *)
(* the code has raised. 0 stands for NULL, and a number that nothing       *)
(* remembers is given again.                                               *)
(***************************************************************************)
EXTENDS Naturals, FiniteSets

CONSTANTS
    Req,        \* requests at work at one time
    Providers,  \* CI providers
    Modes,      \* integration modes that requests ask for
    MaxSent,    \* bounds the requests sent
    MaxFaults,  \* bounds refused and lost calls and rollbacks
    None

Provider == {"gitlab", "github", "bitbucket", "bitbucket_dc", "gitflic"}
HookModes == {"webhook", "hybrid"}
Mode == HookModes \cup {"oauth_polling"}

ASSUME ConstantsOK ==
    /\ IsFiniteSet(Req)
    /\ Providers \subseteq Provider /\ Modes \subseteq Mode
    /\ MaxSent \in Nat /\ MaxFaults \in Nat

VARIABLES
    provider,  \* the CI provider of the project
    rows,      \* the committed rows
    hooks,     \* the project's webhooks that post to the application
    sent,      \* requests sent
    req,       \* the requests at work
    faults,
    lost,      \* a POST was answered too late, or never
    overlap,   \* two requests were at work at one time
    clashed    \* a commit was refused after the calls

vars == <<provider, rows, hooks, sent, req, faults, lost, overlap, clashed>>

\* external_project_id: Bitbucket Cloud inserts a row by the repository's path
\* and renames it to the uuid; the others know a project by one identifier
Key == {"path", "uuid"}

Row == [id : Nat, key : Key, mode : Mode, enabled : BOOLEAN,
        status : {"pending_manual", "active", "error", "disabled"},
        hook : Nat, secret : Nat, seen : BOOLEAN]

Hook == [id : Nat, secret : Nat, by : {"app", "admin"}]

\* mode and on are the fields of a PATCH body, None when they are not sent
Request == [op : {"watch", "init", "patch", "disable", "purge", "verify"},
            mode : Mode \cup {None}, on : BOOLEAN \cup {None},
            key : Key, seen : Row \cup {None}, row : Row \cup {None},
            listed : SUBSET Hook, locks : BOOLEAN,
            stage : {"read", "flushed", "called"}]

ASSUME NoneIsNone == None \notin Row \cup Request

Init ==
    /\ provider \in Providers
    /\ rows = {} /\ hooks = {}
    /\ req = [r \in Req |-> None]
    /\ sent = 0 /\ faults = 0
    /\ lost = FALSE /\ overlap = FALSE /\ clashed = FALSE

-----------------------------------------------------------------------------
(* Calls to the provider *)

Raise(w) == [w EXCEPT !.raised = TRUE]
Fault(w) == [w EXCEPT !.faults = @ + 1]
Lose(w)  == [Fault(w) EXCEPT !.lost = TRUE]
MayFail(w) == w.faults < MaxFaults

\* The smallest number that is not in use
Unused(S) == CHOOSE n \in 1..Cardinality(S) + 1 : n \notin S

\* The secret that secrets.token_urlsafe makes next, and a hook made with s
Secret(w) == Unused(w.used)
Made(w) == Unused(w.used \cup {Secret(w)})
Add(w, s) ==
    LET id == Made(w)
    IN  [w EXCEPT !.hooks = @ \cup {[id |-> id, secret |-> s, by |-> "app"]},
                  !.used = @ \cup {id, s}]

\* POST of a hook with the secret s, sent up to three times: the answer's id, 0
\* for an exception. An answer that is lost leaves a hook that nobody knows,
\* and a second one when the POST is repeated.
Posted(w, s) ==
    LET made == Add(w, s)
        twice == Add(made, s)
    IN  {[w |-> made, id |-> Made(w)]}
          \cup (IF MayFail(w)
                THEN {[w |-> Fault(w), id |-> 0],
                      [w |-> Lose(made), id |-> 0],
                      [w |-> Lose(twice), id |-> Made(made)]}
                ELSE {})

GitHubRegister(w, s) == Posted(w, s)
BitbucketRegister(w, s) == Posted(w, s)
GitFlicRegister(w, s) == Posted(w, s)

\* Mutant: no look at the hooks that are there
GitLabRegister_Always(w, s) == Posted(w, s)

\* The list of the hooks cannot be had
Unlisted(w) == IF MayFail(w) THEN {[w |-> Fault(w), id |-> 0]} ELSE {}

\* GitLab's client first lists the hooks and returns one with the same URL,
\* whatever its secret. The list may be older than the POST.
GitLabRegister(w, s) ==
    Unlisted(w) \cup
    UNION {IF list = {} THEN Posted(w, s)
           ELSE {[w |-> w, id |-> h.id] : h \in list} :
             list \in {w.listed, w.hooks}}

\* DELETE of the row's hook, which a 404 confirms. It is sent once: an HTTP
\* error leaves the hook, another exception may hide that it is gone.
Deleted(w) ==
    LET gone == [w EXCEPT !.hooks = {h \in @ : h.id # w.row.hook}]
    IN  {[w |-> gone, says |-> "ok"]}
          \cup (IF MayFail(w)
                THEN {[w |-> Fault(w), says |-> "status"],
                      [w |-> Fault(w), says |-> "exception"],
                      [w |-> Fault(gone), says |-> "exception"]}
                ELSE {})

GitHubDelete(w) == Deleted(w)
BitbucketDelete(w) == Deleted(w)
GitFlicDelete(w) == Deleted(w)

\* After an HTTP error GitLab is asked for the list, which may fail as well
GitLabDelete(w) ==
    Deleted(w) \cup
    {[w |-> d.w, says |-> "ok"] :
       d \in {e \in Deleted(w) : e.says = "status" /\ w.row.hook \notin {h.id : h \in e.w.hooks}}}

Is(w, status) == [w EXCEPT !.row.status = status]
On(w)  == [w EXCEPT !.row.enabled = TRUE, !.row.status = "active"]
Off(w) == [w EXCEPT !.row.enabled = FALSE, !.row.status = "disabled"]
Cleared(w) == [w EXCEPT !.row.hook = 0, !.row.secret = 0]

\* Mutant: the hook's id only
Stored_NoSecret(a, s) == [a.w EXCEPT !.row.hook = a.id]

\* The hook registered and the secret it was asked for
Stored(a, s) == [a.w EXCEPT !.row.hook = a.id, !.row.secret = s]

\* An exception of the registration ends the request
StoredOrRaised(a, s) == IF a.id = 0 THEN Raise(a.w) ELSE Stored(a, s)

-----------------------------------------------------------------------------
(* Watching a project. The provider's answer about the project comes first: *)
(* an error of it counts as a fault.                                        *)

LookupFails(w) == IF MayFail(w) THEN {Fault(w)} ELSE {}

\* The new secret is in the row before the hook is registered
WatchedBy(w, answers) ==
    IF w.row.mode \notin HookModes THEN {Is(w, "active")}
    ELSE {IF a.id = 0 THEN Is([a.w EXCEPT !.row.secret = Secret(w)], "error")
          ELSE Is(Stored(a, Secret(w)), "active") : a \in answers}

\* get_project raises a RetryError, also for a 404
GitLabWatch(w) ==
    {Raise(x) : x \in LookupFails(w)} \cup WatchedBy(w, GitLabRegister(w, Secret(w)))

GitHubWatch(w) ==
    {Is(x, "error") : x \in LookupFails(w)} \cup WatchedBy(w, GitHubRegister(w, Secret(w)))

\* A project id without a path is refused after the row has been written
BitbucketWatch(w) ==
    IF w.row.key = "uuid" THEN {Is(w, "error")}
    ELSE {Is(x, "error") : x \in LookupFails(w)}
           \cup LET found == [w EXCEPT !.row.key = "uuid"]
                IN  WatchedBy(found, BitbucketRegister(found, Secret(found)))

\* A failed registration leaves hook, secret and status as they are
GitFlicWatch(w) ==
    IF w.row.mode \notin HookModes THEN {w}
    ELSE {IF a.id = 0 THEN a.w ELSE Is(Stored(a, Secret(w)), "active") :
            a \in GitFlicRegister(w, Secret(w))}

Watch(w) ==
    CASE provider = "gitlab"    -> GitLabWatch(w)
      [] provider = "github"    -> GitHubWatch(w)
      [] provider = "bitbucket" -> BitbucketWatch(w)
      [] provider = "gitflic"   -> GitFlicWatch(w)

-----------------------------------------------------------------------------
(* Connecting by webhook/init, with or without a personal access token *)

InitBy(w, answers) ==
    {w} \cup {IF a.id = 0 THEN a.w ELSE Is([a.w EXCEPT !.row.hook = a.id], "active") :
                a \in answers}

GitLabInit(w) ==
    {Raise(x) : x \in LookupFails(w)} \cup InitBy(w, GitLabRegister(w, w.row.secret))

BitbucketInit(w) == InitBy(w, BitbucketRegister(w, w.row.secret))

-----------------------------------------------------------------------------
(* PATCH *)

\* Mutant: the hook is taken for granted
GitLabEnable_NoHook(w) == {On(w)}

GitLabEnable(w) ==
    IF w.row.enabled THEN {w}
    ELSE IF w.row.mode \in HookModes /\ w.row.hook = 0
    THEN {On(StoredOrRaised(a, Secret(w))) : a \in GitLabRegister(w, Secret(w))}
    ELSE {On(w)}

GitLabChangeMode(w, m) ==
    LET Moved(x) == [x EXCEPT !.row.mode = m, !.row.enabled = TRUE,
                              !.row.status = IF @ = "disabled" THEN "active" ELSE @]
    IN  IF m = w.row.mode THEN {w}
        ELSE IF m \in HookModes /\ w.row.hook = 0
        THEN {Moved(StoredOrRaised(a, Secret(w))) : a \in GitLabRegister(w, Secret(w))}
        ELSE IF m \notin HookModes /\ w.row.hook # 0
        THEN {Moved(IF d.says = "ok" THEN Cleared(d.w) ELSE d.w) : d \in GitLabDelete(w)}
        ELSE {Moved(w)}

\* enabled = true takes precedence over mode
GitLabPatch(w, on, m) ==
    IF on = TRUE THEN GitLabEnable(w) ELSE GitLabChangeMode(w, m)

\* A hook known from before is not looked at
GitHubEnable(w) ==
    IF w.row.enabled THEN {w}
    ELSE IF w.row.mode \in HookModes
    THEN {On(StoredOrRaised(a, Secret(w))) : a \in GitHubRegister(w, Secret(w))}
    ELSE {On(w)}

\* Only an HTTP error of the DELETE is caught, and forgotten
GitHubChangeMode(w, m) ==
    LET x == [w EXCEPT !.row.mode = m]
    IN  IF m \in HookModes /\ w.row.hook = 0
        THEN {StoredOrRaised(a, Secret(x)) : a \in GitHubRegister(x, Secret(x))}
        ELSE IF w.row.mode \in HookModes /\ m \notin HookModes /\ w.row.hook # 0
        THEN {IF d.says = "exception" THEN Raise(d.w) ELSE Cleared(d.w) :
                d \in GitHubDelete(x)}
        ELSE {x}

\* A row that is disabled and yet enabled becomes active
Awake(w) ==
    IF w.row.status = "disabled" /\ w.row.enabled THEN Is(w, "active") ELSE w

GitHubPatch(w, on, m) ==
    LET enabled == IF on = TRUE THEN GitHubEnable(w) ELSE {w}
        Moved(x) == IF x.raised \/ m = None \/ m = x.row.mode THEN {x}
                    ELSE GitHubChangeMode(x, m)
    IN  {Awake(x) : x \in UNION {Moved(x) : x \in enabled}}

\* The mode and nothing else: no hook is made or removed
BitbucketPatch(w, m) == {Awake([w EXCEPT !.row.mode = m])}

GitFlicPatch(w, on, m) ==
    {[w EXCEPT !.row.mode = IF m = None THEN @ ELSE m,
               !.row.enabled = IF on = None THEN @ ELSE on]}

Patch(w, on, m) ==
    CASE provider = "gitlab"  -> GitLabPatch(w, on, m)
      [] provider = "github"  -> GitHubPatch(w, on, m)
      [] provider = "gitflic" -> GitFlicPatch(w, on, m)
      [] OTHER                -> BitbucketPatch(w, m)

-----------------------------------------------------------------------------
(* DELETE, which disables the row or purges it *)

\* Mutant: the hook is forgotten
Revoked_Forgets(w, answers) == {Cleared(w)}

\* The hook is removed at best; it is forgotten once the provider says so
Revoked(w, answers) ==
    IF w.row.hook = 0 THEN {w}
    ELSE {IF d.says = "ok" THEN Cleared(d.w) ELSE d.w : d \in answers}

GitLabRevoke(w) == Revoked(w, GitLabDelete(w))
GitHubRevoke(w) == Revoked(w, GitHubDelete(w))
BitbucketRevoke(w) == Revoked(w, BitbucketDelete(w))
GitFlicRevoke(w) == Revoked(w, GitFlicDelete(w))

Revoke(w) ==
    CASE provider = "gitlab"  -> GitLabRevoke(w)
      [] provider = "github"  -> GitHubRevoke(w)
      [] provider = "gitflic" -> GitFlicRevoke(w)
      [] OTHER                -> BitbucketRevoke(w)

Purge(w) == {[x EXCEPT !.row = None] : x \in Revoke(w)}
Disable(w) == {Off(x) : x \in Revoke(w)}

-----------------------------------------------------------------------------
(* A request *)

Working == {r \in Req : req[r] # None}

\* What the database and the requests remember
Copies == rows \cup UNION {{req[r].seen, req[r].row} \ {None} : r \in Working}
Known == hooks \cup UNION {req[r].listed : r \in Working}
Used == (UNION {{h.id, h.secret} : h \in Known}) \cup (UNION {{x.hook, x.secret} : x \in Copies})

Work(q) == [row |-> q.row, hooks |-> hooks, listed |-> q.listed, used |-> Used,
            faults |-> faults, lost |-> lost, raised |-> FALSE]

\* webhook_verify believes in any delivery of the past
Verify(w) == {IF w.row.seen THEN Is(w, "active") ELSE w}

Handled(q) ==
    LET w == Work(q)
    IN  CASE q.op = "watch"   -> Watch(w)
          [] q.op = "init"    -> IF provider = "gitlab" THEN GitLabInit(w)
                                                        ELSE BitbucketInit(w)
          [] q.op = "patch"   -> Patch(w, q.on, q.mode)
          [] q.op = "disable" -> Disable(w)
          [] q.op = "purge"   -> Purge(w)
          [] q.op = "verify"  -> Verify(w)

\* The bodies of a PATCH that the routes do not refuse at once
PatchBodies ==
    LET Asked(on) == {<<m, on>> : m \in Modes}
    IN  CASE provider = "gitlab"    -> Asked(None) \cup {<<None, TRUE>>}
          [] provider = "github"    -> Asked(None) \cup Asked(TRUE) \cup {<<None, TRUE>>}
          [] provider = "bitbucket" -> Asked(None)
          [] provider = "gitflic"   -> (Modes \cup {None}) \X (BOOLEAN \cup {None})
          [] OTHER                  -> {<<"webhook", None>>}

Bodies(op) ==
    CASE op = "watch" -> {<<m, None>> : m \in Modes}
      [] op = "patch" -> PatchBodies
      [] OTHER        -> {<<None, None>>}

Served(op) ==
    CASE op = "watch"   -> provider # "bitbucket_dc"
      [] op = "init"    -> provider \in {"gitlab", "bitbucket_dc"}
      [] op = "verify"  -> provider \in {"gitlab", "github"}
      [] op = "disable" -> provider # "gitflic"
      [] OTHER          -> TRUE

\* The row a request asks for: a watch asks by project, init makes a new one
\* and the others have a connection_id
Targets(op) ==
    CASE op = "watch" ->
           {<<k, IF \E x \in rows : x.key = k THEN CHOOSE x \in rows : x.key = k ELSE None>> :
              k \in IF provider = "bitbucket" THEN Key ELSE {"uuid"}}
      [] op = "init"  -> {<<"uuid", None>>}
      [] OTHER        -> {<<x.key, x>> : x \in rows}

\* Only GitLab's client lists the hooks
Listed == IF provider = "gitlab" THEN hooks ELSE {}

\* The row is read. A request without a flush goes on with it at once.
Read(r) ==
    /\ req[r] = None /\ sent < MaxSent
    /\ sent' = sent + 1
    /\ \E op \in {o \in {"watch", "init", "patch", "disable", "purge", "verify"} : Served(o)} :
       \E b \in Bodies(op), t \in Targets(op) :
          req' = [req EXCEPT ![r] =
               [op |-> op, mode |-> b[1], on |-> b[2], key |-> t[1], seen |-> t[2],
                row |-> t[2], listed |-> Listed, locks |-> FALSE,
                stage |-> IF op \in {"watch", "init"} THEN "read" ELSE "flushed"]]
    /\ overlap' = (overlap \/ Working # {})
    /\ UNCHANGED <<provider, rows, hooks, faults, lost, clashed>>

\* A request ends: 400 or 500, and its transaction is rolled back
End(r) == req' = [req EXCEPT ![r] = None]

\* Another request has flushed a change of this row, or a row with this key
Blocked(r, id, key) ==
    \E s \in Working \ {r} :
        req[s].locks /\ (req[s].row.id = id \/ (req[s].seen = None /\ req[s].key = key))

\* The row as a flush before the call leaves it
Upserted(q) ==
    IF q.seen # None
    THEN [q.seen EXCEPT !.mode = q.mode, !.enabled = TRUE]
    ELSE [id |-> Unused({x.id : x \in Copies}), key |-> q.key,
          mode |-> IF q.op = "init" THEN "webhook" ELSE q.mode,
          enabled |-> TRUE, status |-> "pending_manual", hook |-> 0,
          secret |-> IF q.op = "init" THEN Unused(Used) ELSE 0, seen |-> FALSE]

\* GitLab's init inserts the row without a project id, so that its key clashes
\* at the commit; GitFlic's watch does not flush an update
Flushes(q) ==
    IF q.seen = None THEN ~(q.op = "init" /\ provider = "gitlab")
    ELSE provider # "gitflic" /\ Upserted(q) # q.seen

Clash(q) == q.seen = None /\ \E x \in rows : x.key = q.key
Stale(q) == q.seen # None /\ \A x \in rows : x.id # q.seen.id

\* The flush waits for the row's lock; then an insert clashes with a committed
\* row, and an update of a deleted one matches nothing
MayFlush(r) ==
    LET row == Upserted(req[r])
    IN  ~Flushes(req[r]) \/ ~Blocked(r, row.id, row.key)

Flush(r) ==
    LET q == req[r]
    IN  /\ q # None /\ q.stage = "read"
        /\ MayFlush(r)
        /\ IF Flushes(q) /\ (Clash(q) \/ Stale(q)) THEN End(r)
           ELSE req' = [req EXCEPT ![r].row = Upserted(q), ![r].stage = "flushed",
                                   ![r].locks = Flushes(q), ![r].listed = Listed]
        /\ UNCHANGED <<provider, rows, hooks, sent, faults, lost, overlap, clashed>>

\* The calls to the provider and what the code makes of the answers
Call(r) ==
    /\ req[r] # None /\ req[r].stage = "flushed"
    /\ \E w \in Handled(req[r]) :
          /\ hooks' = w.hooks
          /\ faults' = w.faults /\ lost' = w.lost
          /\ IF w.raised THEN End(r)
             ELSE req' = [req EXCEPT ![r].row = w.row, ![r].stage = "called",
                                     ![r].mode = None, ![r].on = None, ![r].listed = {}]
    /\ UNCHANGED <<provider, rows, sent, overlap, clashed>>

\* What a commit leaves in a column that its transaction has read and set
Column(old, seen, new) == IF new # seen THEN new ELSE old

\* Mutant: every column is written
Written_WholeRow(old, seen, new) == new

\* The UPDATE of the changed columns
Written(old, seen, new) ==
    [id |-> old.id,
     key     |-> Column(old.key, seen.key, new.key),
     mode    |-> Column(old.mode, seen.mode, new.mode),
     enabled |-> Column(old.enabled, seen.enabled, new.enabled),
     status  |-> Column(old.status, seen.status, new.status),
     hook    |-> Column(old.hook, seen.hook, new.hook),
     secret  |-> Column(old.secret, seen.secret, new.secret),
     seen    |-> Column(old.seen, seen.seen, new.seen)]

\* The rows after a commit. A DELETE may match nothing.
Committed(q) ==
    IF q.row = None THEN {x \in rows : x.id # q.seen.id}
    ELSE IF q.seen = None THEN rows \cup {q.row}
    ELSE {IF x.id = q.seen.id THEN Written(x, q.seen, q.row) ELSE x : x \in rows}

\* One row per tenant, provider and external_project_id
KeysUnique(set) == \A x, y \in set : x.key = y.key => x = y

\* Mutant: no unique constraint
Refused_NoConstraint(q) == Stale(q) /\ q.row # None

\* An UPDATE of a deleted row, or a second row with the key
Refused(q) == (Stale(q) /\ q.row # None) \/ ~KeysUnique(Committed(q))

\* A commit that writes waits for the row's lock
MayCommit(r) ==
    LET q == req[r]
    IN  q.row = q.seen \/
        ~Blocked(r, (IF q.seen = None THEN q.row ELSE q.seen).id,
                    IF q.row = None THEN q.key ELSE q.row.key)

Commit(r) ==
    LET q == req[r]
    IN  /\ q # None /\ q.stage = "called"
        /\ MayCommit(r)
        /\ IF q.row = q.seen THEN UNCHANGED <<rows, clashed>>
           ELSE IF Refused(q) THEN clashed' = TRUE /\ UNCHANGED rows
           ELSE rows' = Committed(q) /\ UNCHANGED clashed
        /\ End(r)
        /\ UNCHANGED <<provider, hooks, sent, faults, lost, overlap>>

\* The database, a refresh of the credentials or the process fails
Rollback(r) ==
    /\ req[r] # None /\ faults < MaxFaults
    /\ faults' = faults + 1
    /\ End(r)
    /\ UNCHANGED <<provider, rows, hooks, sent, lost, overlap, clashed>>

-----------------------------------------------------------------------------
(* Hooks at work *)

\* An admin adds by hand the hook that init's answer describes, where the
\* project has none
AddByHand ==
    /\ hooks = {}
    /\ \E x \in rows :
          /\ x.status = "pending_manual" /\ x.secret # 0
          /\ hooks' = {[id |-> Unused(Used), secret |-> x.secret, by |-> "admin"]}
    /\ overlap' = (overlap \/ Working # {})
    /\ UNCHANGED <<provider, rows, sent, req, faults, lost, clashed>>

\* A row without a secret takes any delivery when the settings hold none
Accepts(x, h) == x.secret = 0 \/ x.secret = h.secret

Delivered(x, h) ==
    /\ x.enabled /\ Accepts(x, h) /\ ~Blocked(None, x.id, x.key)
    /\ rows' = (rows \ {x}) \cup
               {[x EXCEPT !.seen = TRUE,
                          !.status = IF @ = "pending_manual" THEN "active" ELSE @]}
    /\ UNCHANGED <<provider, hooks, sent, req, faults, lost, overlap, clashed>>

\* Only events that are no failure: the handler raises at the others
GitLabDelivers(h) == provider = "gitlab" /\ \E x \in rows : Delivered(x, h)
GitFlicDelivers(h) == provider = "gitflic" /\ \E x \in rows : Delivered(x, h)

-----------------------------------------------------------------------------

Next ==
    \/ \E r \in Req : Read(r) \/ Flush(r) \/ Call(r) \/ Commit(r) \/ Rollback(r)
    \/ AddByHand
    \/ \E h \in hooks : GitLabDelivers(h) \/ GitFlicDelivers(h)

Spec == Init /\ [][Next]_vars

-----------------------------------------------------------------------------
(* Properties *)

\* Every variable has its type, and no two rows have one key or one id
TypeOK ==
    /\ provider \in Providers
    /\ rows \subseteq Row /\ KeysUnique(rows)
    /\ \A x, y \in rows : x.id = y.id => x = y
    /\ hooks \subseteq Hook
    /\ req \in [Req -> Request \cup {None}]
    /\ {sent, faults} \subseteq Nat
    /\ {lost, overlap, clashed} \subseteq BOOLEAN

Quiet == faults = 0 /\ ~overlap
Idle  == Working = {}
AppHooks == {h \in hooks : h.by = "app"}

\* GitFlic's code and Bitbucket Data Center's keep hooks and secrets together
\* whatever fails or overlaps, Bitbucket Cloud's unless a call failed and requests
\* overlapped, GitHub's when no call fails; at GitLab a second watch parts them
KeepsSecrets ==
    /\ provider # "gitlab"
    /\ provider = "github" => faults = 0
    /\ provider = "bitbucket" => faults = 0 \/ ~overlap

\* The hook that a row knows, while it exists, was registered with the row's
\* secret, or its deliveries are refused
SecretAgrees ==
    KeepsSecrets =>
        \A x \in rows, h \in hooks : x.hook = h.id => x.secret = h.secret

\* After calls that did not overlap or fail, an active and enabled connection
\* in a webhook mode has a hook; a PATCH of Bitbucket's mode makes none
ActiveHasHook ==
    Quiet /\ Idle /\ provider # "bitbucket" =>
        \A x \in rows :
            x.status = "active" /\ x.enabled /\ x.mode \in HookModes => hooks # {}

\* GitLab's client finds the hook of an earlier request, so that failed calls
\* and rollbacks leave no second one unless a POST was lost or two overlapped
OneHook ==
    provider = "gitlab" /\ Cardinality(AppHooks) > 1 => lost \/ overlap

\* After calls that did not overlap or fail GitLab has no hook that no row knows.
\* An init for a project that has a row already fails when it has made one.
HooksKnown ==
    provider = "gitlab" /\ Quiet /\ Idle /\ ~clashed =>
        \A h \in AppHooks : \E x \in rows : x.hook = h.id

\* A request that has read an enabled row does not switch it on again when it
\* commits after a DELETE or another request has switched it off
OffStaysOff ==
    [][\A x \in rows, y \in rows' :
          x.id = y.id /\ ~x.enabled /\ y.enabled =>
             \E r \in Working : req'[r] = None /\ req[r].seen # None /\ ~req[r].seen.enabled]_vars
=============================================================================
