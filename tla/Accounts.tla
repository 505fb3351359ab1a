--------------------------------- MODULE Accounts ---------------------------------
(***************************************************************************)
(* The people of one tenant: the bootstrap at the first start, invitations *)
(* and removals by admins, logins by password and by OIDC. Each request    *)
(* reads and writes in a transaction of its own.                           *)
(***************************************************************************)
EXTENDS Naturals, FiniteSets

CONSTANTS
    People,    \* one for each e-mail address
    Root,      \* the one of ADMIN_EMAIL
    Federated, \* people whom the OIDC provider knows
    Handlers,  \* requests at work at one time
    Processes, \* API processes that start up
    Offered,   \* roles that people are invited with
    MaxInvites \* bounds invitations

ASSUME AccountConstantsOK ==
    Root \in People /\ Federated \subseteq People /\ MaxInvites \in Nat
    /\ Offered \subseteq {"admin", "member", "viewer"}

Role   == {"owner", "admin", "member", "viewer"}
Admins == {"owner", "admin"}

VARIABLES
    users,     \* people with a user row
    passwords, \* people with a password
    role,      \* memberships
    tenants,   \* tenants made by a bootstrap
    starts,    \* what the processes do
    requests,  \* the requests at work
    sessions,  \* people who hold a session
    logins,    \* OIDC states in Redis
    removed,   \* people removed and not made a member by an invitation since
    invites,
    demoted,   \* an admin gave himself a lower role
    met        \* two requests were at work at one time

teamVars == <<users, passwords, role, tenants, starts, requests, sessions, logins, removed,
              invites, demoted, met>>

\* known and has are what the request read of the target: whether the user row
\* is there, and its membership; gone: that membership row was deleted since
Request == [op : {"none", "invite", "remove", "oidc"}, actor : People, target : People,
            as : Role, stage : {"idle", "state", "read", "commit"},
            known : BOOLEAN, has : Role \cup {"none"}, gone : BOOLEAN]

NoRequest == [op |-> "none", actor |-> Root, target |-> Root, as |-> "member",
              stage |-> "idle", known |-> FALSE, has |-> "none", gone |-> FALSE]

TeamInit ==
    /\ users = {} /\ passwords = {}
    /\ role = [p \in People |-> "none"]
    /\ tenants = 0
    /\ starts = [s \in Processes |-> "down"]
    /\ requests = [h \in Handlers |-> NoRequest]
    /\ sessions = {} /\ logins = {} /\ removed = {}
    /\ invites = 0 /\ demoted = FALSE /\ met = FALSE

-----------------------------------------------------------------------------
(* init_db.py: bootstrap_admin *)

\* A process starts and counts the users
CountUsers(s) ==
    /\ starts[s] = "down"
    /\ starts' = [starts EXCEPT ![s] = IF users = {} THEN "boot" ELSE "up"]
    /\ UNCHANGED <<users, passwords, role, tenants, requests, sessions, logins, removed,
                   invites, demoted, met>>

\* Mutant: slug and address are not unique
Taken_Never == FALSE

\* The slug of the tenant or the address of the admin is taken
Taken == tenants > 0 \/ Root \in users

\* Tenant, admin and membership in one transaction; without them the process
\* stops
BootstrapAdmin(s) ==
    /\ starts[s] = "boot"
    /\ IF Taken
       THEN /\ starts' = [starts EXCEPT ![s] = "down"]
            /\ UNCHANGED <<users, passwords, role, tenants>>
       ELSE /\ starts' = [starts EXCEPT ![s] = "up"]
            /\ tenants' = tenants + 1
            /\ users' = users \cup {Root}
            /\ passwords' = passwords \cup {Root}
            /\ role' = [role EXCEPT ![Root] = "owner"]
    /\ UNCHANGED <<requests, sessions, logins, removed, invites, demoted, met>>

-----------------------------------------------------------------------------
(* Requests *)

Begin(h, q) ==
    /\ requests[h].stage = "idle"
    /\ \E s \in Processes : starts[s] = "up"
    /\ requests' = [requests EXCEPT ![h] = q]
    /\ met' = (met \/ \E g \in Handlers : requests[g].stage # "idle")

End(h) == requests' = [requests EXCEPT ![h] = NoRequest]

\* require_admin: the role is that of the membership as it is now
MayAdmin(p) == p \in sessions /\ role[p] \in Admins

\* auth.py: login. Its session lasts longer than the membership.
Login(p) ==
    /\ p \in users /\ role[p] # "none"
    /\ p \in passwords
    /\ sessions' = sessions \cup {p}
    /\ UNCHANGED <<users, passwords, role, tenants, starts, requests, logins, removed,
                   invites, demoted, met>>

\* tenants.py: invite_member
InviteMember(h, actor, p, as) ==
    /\ MayAdmin(actor) /\ as \in Offered /\ invites < MaxInvites
    /\ invites' = invites + 1
    /\ Begin(h, [NoRequest EXCEPT !.op = "invite", !.actor = actor, !.target = p, !.as = as,
                                  !.stage = "read"])
    /\ UNCHANGED <<users, passwords, role, tenants, starts, sessions, logins, removed,
                   demoted>>

\* Mutant: anyone may be removed
NotSelf_Anyone(actor, p) == TRUE

\* "Cannot remove yourself"
NotSelf(actor, p) == actor # p

\* tenants.py: remove_member
RemoveMember(h, actor, p) ==
    /\ MayAdmin(actor) /\ NotSelf(actor, p)
    /\ Begin(h, [NoRequest EXCEPT !.op = "remove", !.actor = actor, !.target = p,
                                  !.stage = "read"])
    /\ UNCHANGED <<users, passwords, role, tenants, starts, sessions, logins, removed,
                   invites, demoted>>

\* auth_oidc.py: oidc_login
OidcLogin(p) ==
    /\ p \in Federated /\ \E s \in Processes : starts[s] = "up"
    /\ logins' = logins \cup {p}
    /\ UNCHANGED <<users, passwords, role, tenants, starts, requests, sessions, removed,
                   invites, demoted, met>>

\* auth_oidc.py: oidc_callback, which reads the state and deletes it in two calls
OidcCallback(h, p) ==
    /\ p \in logins
    /\ Begin(h, [NoRequest EXCEPT !.op = "oidc", !.target = p, !.stage = "state"])
    /\ UNCHANGED <<users, passwords, role, tenants, starts, sessions, logins, removed,
                   invites, demoted>>

\* The state is deleted, and the provider answers with the claims or not
ConsumeState(h) ==
    LET q == requests[h]
    IN  /\ q.stage = "state"
        /\ logins' = logins \ {q.target}
        /\ End(h) \/ requests' = [requests EXCEPT ![h].stage = "read"]
        /\ UNCHANGED <<users, passwords, role, tenants, starts, sessions, removed,
                       invites, demoted, met>>

\* Reads of the target
ReadTarget(h) ==
    LET q == requests[h]
    IN  /\ q.stage = "read"
        /\ requests' = [requests EXCEPT ![h].stage = "commit",
                          ![h].known = q.target \in users, ![h].has = role[q.target]]
        /\ UNCHANGED <<users, passwords, role, tenants, starts, sessions, logins,
                       removed, invites, demoted, met>>

\* Mutant: a user without a membership gets one
Provisioned_Member(q) == IF q.has = "none" THEN "member" ELSE q.has

\* The role that OIDC leaves a person with: a new one becomes a member
Provisioned(q) == IF q.known THEN q.has ELSE "member"

\* An invitation with the role that was read writes nothing
Invites(q) == q.op = "invite" /\ q.as # q.has

\* The membership as the request writes it
NewRole(q) ==
    CASE q.op = "invite" -> IF Invites(q) THEN q.as ELSE role[q.target]
      [] q.op = "remove" -> IF q.gone THEN role[q.target] ELSE "none"
      [] q.op = "oidc"   -> IF Provisioned(q) = q.has THEN role[q.target] ELSE Provisioned(q)

\* A row that another request made first, or an update of a deleted one
Conflict(q) ==
    \/ q.op # "remove" /\ ~q.known /\ q.target \in users
    \/ Invites(q) /\ (q.gone \/ (q.has = "none" /\ role[q.target] # "none"))

\* Deletes the membership that was read, and not one made since
Removes(q) == q.op = "remove" /\ ~q.gone

CommitMember(h) ==
    LET q == requests[h]
        p == q.target
    IN  /\ q.stage = "commit"
        /\ ~Conflict(q)
        /\ q.op = "remove" => q.has # "none"
        /\ q.op = "oidc" => Provisioned(q) # "none"
        /\ users' = users \cup {p}
        /\ passwords' = IF q.op = "invite" THEN passwords \cup {p} ELSE passwords
        /\ role' = [role EXCEPT ![p] = NewRole(q)]
        /\ sessions' = IF q.op = "oidc" THEN sessions \cup {p} ELSE sessions
        /\ removed' = CASE Invites(q) -> removed \ {p}
                        [] Removes(q) -> removed \cup {p}
                        [] OTHER      -> removed
        /\ demoted' = (demoted \/ (q.op = "invite" /\ q.actor = p /\ q.as \notin Admins))
        /\ requests' = [g \in Handlers |->
              IF g = h THEN NoRequest
              ELSE [requests[g] EXCEPT !.gone = @ \/ (Removes(q) /\ requests[g].target = p
                                                        /\ requests[g].has # "none")]]
        /\ UNCHANGED <<tenants, starts, logins, invites, met>>

\* The request is answered with an error, or its process dies
DropRequest(h) ==
    /\ requests[h].stage # "idle"
    /\ End(h)
    /\ UNCHANGED <<users, passwords, role, tenants, starts, sessions, logins, removed,
                   invites, demoted, met>>

TeamNext ==
    \/ \E s \in Processes : CountUsers(s) \/ BootstrapAdmin(s)
    \/ \E p \in People : Login(p) \/ OidcLogin(p)
    \/ \E h \in Handlers :
         \/ \E a, p \in People :
               \/ RemoveMember(h, a, p)
               \/ \E as \in Role : InviteMember(h, a, p, as)
         \/ \E p \in People : OidcCallback(h, p)
         \/ ConsumeState(h) \/ ReadTarget(h) \/ CommitMember(h) \/ DropRequest(h)

TeamSpec == TeamInit /\ [][TeamNext]_teamVars

-----------------------------------------------------------------------------
(* Properties *)

TeamTypeOK ==
    /\ passwords \subseteq users /\ users \subseteq People
    /\ role \in [People -> Role \cup {"none"}]
    /\ tenants \in Nat
    /\ starts \in [Processes -> {"down", "boot", "up"}]
    /\ requests \in [Handlers -> Request]
    /\ sessions \subseteq People /\ logins \subseteq People /\ removed \subseteq People
    /\ invites \in 0..MaxInvites
    /\ demoted \in BOOLEAN /\ met \in BOOLEAN

\* The tenant keeps an admin, unless requests overlapped or an admin gave
\* himself a lower role
AdminStays ==
    tenants > 0 /\ ~met /\ ~demoted => \E p \in People : role[p] \in Admins

\* Who was removed is a member again only by an invitation, however logins,
\* invitations and removals overlap
RemovedStaysOut == \A p \in removed : role[p] = "none"

\* Of the processes that start at one time one bootstraps, and every user row
\* comes with a membership
BootOnce ==
    /\ tenants <= 1
    /\ \A p \in users : p \notin removed => role[p] # "none"
=============================================================================
