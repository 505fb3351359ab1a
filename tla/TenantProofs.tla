------------------------------ MODULE TenantProofs ------------------------------
(***************************************************************************)
(* What is proved of a tenant's people and of its chat channels, for any   *)
(* number of either and of overlapping requests, and of all the components *)
(* of Integrations side by side. They share no state.                      *)
(*                                                                         *)
(* Accounts: who was removed stays out (RemovedStaysOut), one process      *)
(* bootstraps and no user is left without a membership (BootOnce), and the *)
(* tenant keeps an admin (AdminStays). The first two rest on the users     *)
(* table, which only grows and has every member, every removed person and  *)
(* every target that a request found to be a member. The last one rests on *)
(* the actor of the one request at work, who is an admin until it commits. *)
(*                                                                         *)
(* Messengers: a bot whose chat was told that it is linked keeps a target  *)
(* (ChatStays). A target, once there, is only replaced by another: a       *)
(* request that renews the webhook does not write the target, and one that *)
(* links writes a chat, or nothing when it read that chat before. The      *)
(* invariant follows what the copies of the requests at work know of the   *)
(* committed rows, and that the row of a connection in the making is       *)
(* nobody else's.                                                          *)
(***************************************************************************)
EXTENDS Integrations, OAuthProofs, TLAPS

-----------------------------------------------------------------------------
(* Accounts *)

Busy(h) == requests[h].stage # "idle"

\* A request at work has an operation
HasOp == \A h \in Handlers : Busy(h) => requests[h].op # "none"

\* Members, removed people and targets that were found members are users
UsersKnown ==
    /\ \A p \in People : role[p] # "none" => p \in users
    /\ \A h \in Handlers : requests[h].has # "none" => requests[h].target \in users
    /\ removed \subseteq users

\* Requests that have not met are one at a time
OneAtATime == ~met => \A g, h \in Handlers : Busy(g) /\ Busy(h) => g = h

\* The actor of a request alone at work is an admin, and removes another one
ActorStays ==
    ~met /\ ~demoted =>
        \A h \in Handlers : Busy(h) /\ requests[h].op \in {"invite", "remove"} =>
            /\ role[requests[h].actor] \in Admins
            /\ requests[h].op = "remove" => requests[h].actor # requests[h].target

Types == TeamTypeOK /\ HasOp /\ UsersKnown
TeamSound == Types /\ RemovedStaysOut /\ BootOnce /\ OneAtATime /\ ActorStays /\ AdminStays

LEMMA NoRequestType == NoRequest \in Request
  BY AccountConstantsOK DEF NoRequest, Request, Role

\* A request whose membership is gone is the same one
SameRequest(r, q) == /\ r.op = q.op /\ r.actor = q.actor /\ r.target = q.target
              /\ r.stage = q.stage /\ r.has = q.has

\* A request that has read b and c of its target
Informed(q, b, c) == [q EXCEPT !.stage = "commit", !.known = b, !.has = c]

LEMMA ReadType ==
    ASSUME NEW q \in Request, NEW b \in BOOLEAN, NEW c \in Role \cup {"none"}
    PROVE  /\ Informed(q, b, c) \in Request
           /\ Informed(q, b, c).op = q.op
           /\ Informed(q, b, c).target = q.target
           /\ Informed(q, b, c).has = c
  BY DEF Request, Informed

LEMMA GoneType ==
    ASSUME NEW q \in Request, NEW b \in BOOLEAN
    PROVE  [q EXCEPT !.gone = b] \in Request /\ SameRequest([q EXCEPT !.gone = b], q)
  BY DEF Request, SameRequest

-----------------------------------------------------------------------------
(* What a commit leaves of the target *)

\* The role that a commit writes is one, and none only to remove
LEMMA NewRoleType ==
    ASSUME Types, NEW h \in Handlers, CommitMember(h)
    PROVE  LET q == requests[h]
           IN  /\ q \in Request /\ q.target \in People /\ q.op \in {"invite", "remove", "oidc"}
               /\ NewRole(q) \in Role \cup {"none"}
               /\ q.op = "invite" => NewRole(q) = IF Invites(q) THEN q.as ELSE role[q.target]
               /\ q.op = "remove" => NewRole(q) = IF q.gone THEN role[q.target] ELSE "none"
               /\ q.op = "oidc"   => NewRole(q) = IF Provisioned(q) = q.has
                                                  THEN role[q.target] ELSE "member"
<1> DEFINE q == requests[h]
<1>1. q \in Request /\ q.target \in People /\ Busy(h)
  BY DEF Types, TeamTypeOK, Request, CommitMember, Busy
<1>2. q.op \in {"invite", "remove", "oidc"}
  BY <1>1 DEF Types, HasOp, Request
<1>3. role[q.target] \in Role \cup {"none"} /\ q.as \in Role
  BY <1>1 DEF Types, TeamTypeOK, Request
<1>4. Provisioned(q) # q.has => Provisioned(q) = "member"
  BY DEF Provisioned
<1>5. CASE q.op = "invite"
  BY <1>1, <1>2, <1>3, <1>5 DEF NewRole, Invites
<1>6. CASE q.op = "remove"
  BY <1>1, <1>2, <1>3, <1>6 DEF NewRole
<1>7. CASE q.op = "oidc"
  BY <1>1, <1>2, <1>3, <1>4, <1>7 DEF NewRole, Role
<1> QED
  BY <1>1, <1>2, <1>5, <1>6, <1>7

\* Other people and other requests are as before, but for a membership that is
\* gone
LEMMA CommitMemberEffect ==
    ASSUME Types, NEW h \in Handlers, CommitMember(h)
    PROVE  /\ users' = users \cup {requests[h].target}
           /\ role'[requests[h].target] = NewRole(requests[h])
           /\ \A p \in People \ {requests[h].target} : role'[p] = role[p]
           /\ requests' \in [Handlers -> Request]
           /\ requests'[h] = NoRequest
           /\ \A g \in Handlers \ {h} : SameRequest(requests'[g], requests[g])
<1>1. \A g \in Handlers : requests[g] \in Request
  BY DEF Types, TeamTypeOK
<1>2. ASSUME NEW g \in Handlers \ {h}
      PROVE  requests'[g] \in Request /\ SameRequest(requests'[g], requests[g])
  <2> DEFINE b == requests[g].gone \/ (Removes(requests[h])
                    /\ requests[g].target = requests[h].target /\ requests[g].has # "none")
  <2>1. b \in BOOLEAN
    OBVIOUS
  <2>2. requests'[g] = [requests[g] EXCEPT !.gone = b]
    BY DEF CommitMember
  <2> QED
    BY <1>1, <2>1, <2>2, GoneType
<1>3. requests'[h] = NoRequest /\ requests' = [g \in Handlers |-> requests'[g]]
  BY DEF CommitMember
<1>4. \A g \in Handlers : requests'[g] \in Request
  BY <1>2, <1>3, NoRequestType
<1>5. requests' \in [Handlers -> Request]
  BY <1>3, <1>4, NoRequestType DEF CommitMember
<1>6. /\ role'[requests[h].target] = NewRole(requests[h])
      /\ \A p \in People \ {requests[h].target} : role'[p] = role[p]
  BY NewRoleType DEF CommitMember, Types, TeamTypeOK
<1> QED
  BY <1>2, <1>3, <1>5, <1>6 DEF CommitMember

\* A request that begins
LEMMA BeginEffect ==
    ASSUME Types, NEW h \in Handlers, NEW q \in Request, Begin(h, q),
           q.op # "none", q.has = "none"
    PROVE  /\ requests' \in [Handlers -> Request]
           /\ met' \in BOOLEAN
           /\ \A g \in Handlers : (requests'[g]).stage # "idle" => (requests'[g]).op # "none"
           /\ \A g \in Handlers : (requests'[g]).has # "none" => (requests'[g]).target \in users
<1>1. requests' = [requests EXCEPT ![h] = q] /\ requests \in [Handlers -> Request]
  BY DEF Begin, Types, TeamTypeOK
<1>2. met' \in BOOLEAN
  BY DEF Begin, Types, TeamTypeOK
<1> QED
  BY <1>1, <1>2 DEF Types, HasOp, Busy, UsersKnown

\* A request that ends
LEMMA EndEffect ==
    ASSUME Types, NEW h \in Handlers, End(h)
    PROVE  /\ requests' \in [Handlers -> Request]
           /\ \A g \in Handlers : (requests'[g]).stage # "idle" => (requests'[g]).op # "none"
           /\ \A g \in Handlers : (requests'[g]).has # "none" => (requests'[g]).target \in users
<1>1. requests' = [requests EXCEPT ![h] = NoRequest] /\ requests \in [Handlers -> Request]
  BY DEF End, Types, TeamTypeOK
<1>2. NoRequest.stage = "idle" /\ NoRequest.has = "none"
  BY DEF NoRequest
<1> QED
  BY <1>1, <1>2, NoRequestType DEF Types, HasOp, Busy, UsersKnown

-----------------------------------------------------------------------------
(* Types, and what is known of the users *)

LEMMA TeamInitInv == TeamInit => TeamSound
<1> SUFFICES ASSUME TeamInit PROVE TeamSound
  OBVIOUS
<1>1. \A h \in Handlers : requests[h] = NoRequest /\ ~Busy(h) /\ requests[h].has = "none"
  BY DEF TeamInit, NoRequest, Busy
<1>2. TeamTypeOK
  <2>1. requests \in [Handlers -> Request] /\ starts \in [Processes -> {"down", "boot", "up"}]
    BY NoRequestType DEF TeamInit
  <2>2. role \in [People -> Role \cup {"none"}] /\ invites \in 0..MaxInvites
    BY AccountConstantsOK DEF TeamInit
  <2> QED
    BY <2>1, <2>2 DEF TeamInit, TeamTypeOK
<1>3. HasOp /\ UsersKnown /\ RemovedStaysOut /\ BootOnce /\ OneAtATime /\ ActorStays /\ AdminStays
  BY <1>1 DEF TeamInit, HasOp, UsersKnown, RemovedStaysOut, BootOnce, OneAtATime, ActorStays,
              AdminStays
<1> QED
  BY <1>2, <1>3 DEF TeamSound, Types

LEMMA StepTypes == Types /\ [TeamNext]_teamVars => Types'
<1> SUFFICES ASSUME Types, [TeamNext]_teamVars PROVE Types'
  OBVIOUS
<1> USE DEF Types
<1>1. ASSUME NEW s \in Processes, CountUsers(s) PROVE Types'
  BY <1>1 DEF CountUsers, TeamTypeOK, HasOp, Busy, UsersKnown
<1>2. ASSUME NEW s \in Processes, BootstrapAdmin(s) PROVE Types'
  <2>1. TeamTypeOK'
    BY <1>2, AccountConstantsOK DEF BootstrapAdmin, TeamTypeOK, Role
  <2>2. HasOp' /\ UsersKnown'
    BY <1>2, AccountConstantsOK DEF BootstrapAdmin, TeamTypeOK, HasOp, Busy, UsersKnown
  <2> QED
    BY <2>1, <2>2
<1>3. ASSUME NEW p \in People, Login(p) \/ OidcLogin(p) PROVE Types'
  BY <1>3 DEF Login, OidcLogin, TeamTypeOK, HasOp, Busy, UsersKnown
<1>4. ASSUME NEW h \in Handlers, NEW a \in People, NEW p \in People, RemoveMember(h, a, p)
      PROVE  Types'
  <2> DEFINE q == [NoRequest EXCEPT !.op = "remove", !.actor = a, !.target = p, !.stage = "read"]
  <2>1. q \in Request /\ q.op # "none" /\ q.has = "none"
    BY DEF NoRequest, Request, Role
  <2> HIDE DEF q
  <2>2. Begin(h, q)
    BY <1>4 DEF RemoveMember, q
  <2> QED
    BY <1>4, <2>1, <2>2, BeginEffect DEF RemoveMember, TeamTypeOK, HasOp, Busy, UsersKnown
<1>5. ASSUME NEW h \in Handlers, NEW a \in People, NEW p \in People, NEW as \in Role,
             InviteMember(h, a, p, as)
      PROVE  Types'
  <2> DEFINE q == [NoRequest EXCEPT !.op = "invite", !.actor = a, !.target = p, !.as = as,
                                    !.stage = "read"]
  <2>1. q \in Request /\ q.op # "none" /\ q.has = "none"
    BY DEF NoRequest, Request, Role
  <2> HIDE DEF q
  <2>2. Begin(h, q)
    BY <1>5 DEF InviteMember, q
  <2>3. invites' \in 0..MaxInvites
    BY <1>5, AccountConstantsOK DEF InviteMember, TeamTypeOK
  <2> QED
    BY <1>5, <2>1, <2>2, <2>3, BeginEffect DEF InviteMember, TeamTypeOK, HasOp, Busy, UsersKnown
<1>6. ASSUME NEW h \in Handlers, NEW p \in People, OidcCallback(h, p) PROVE Types'
  <2> DEFINE q == [NoRequest EXCEPT !.op = "oidc", !.target = p, !.stage = "state"]
  <2>1. q \in Request /\ q.op # "none" /\ q.has = "none"
    BY AccountConstantsOK DEF NoRequest, Request, Role
  <2> HIDE DEF q
  <2>2. Begin(h, q)
    BY <1>6 DEF OidcCallback, q
  <2> QED
    BY <1>6, <2>1, <2>2, BeginEffect DEF OidcCallback, TeamTypeOK, HasOp, Busy, UsersKnown
<1>7. ASSUME NEW h \in Handlers, ConsumeState(h) PROVE Types'
  <2>1. CASE End(h)
    BY <1>7, <2>1, EndEffect DEF ConsumeState, TeamTypeOK, HasOp, Busy, UsersKnown
  <2>2. CASE requests' = [requests EXCEPT ![h].stage = "read"]
    BY <1>7, <2>2 DEF ConsumeState, TeamTypeOK, HasOp, Busy, UsersKnown, Request
  <2> QED
    BY <1>7, <2>1, <2>2 DEF ConsumeState
<1>8. ASSUME NEW h \in Handlers, ReadTarget(h) PROVE Types'
  <2> DEFINE q == requests[h]
             r == Informed(q, q.target \in users, role[q.target])
  <2>1. q \in Request /\ role[q.target] \in Role \cup {"none"} /\ q.target \in People /\ q.op # "none"
    BY <1>8 DEF ReadTarget, TeamTypeOK, Request, HasOp, Busy
  <2>2. r \in Request /\ r.op # "none" /\ r.target = q.target /\ r.has = role[q.target]
    <3>1. CASE q.target \in users
      <4>1. r = Informed(q, TRUE, role[q.target])
        BY <3>1, Zenon
      <4> HIDE DEF r
      <4> QED
        BY <2>1, <4>1, ReadType
    <3>2. CASE q.target \notin users
      <4>1. (q.target \in users) = FALSE
        BY <3>2
      <4>2. r = Informed(q, FALSE, role[q.target])
        BY <4>1
      <4> HIDE DEF r
      <4> QED
        BY <2>1, <4>2, ReadType
    <3> QED
      BY <3>1, <3>2
  <2>3. requests' = [requests EXCEPT ![h] = r]
    BY <1>8 DEF ReadTarget, Informed
  <2> HIDE DEF r
  <2>4. TeamTypeOK'
    <3>1. requests' \in [Handlers -> Request]
      BY <2>2, <2>3 DEF TeamTypeOK
    <3>2. UNCHANGED <<users, passwords, role, tenants, starts, sessions, logins, removed,
                      invites, demoted, met>>
      BY <1>8 DEF ReadTarget
    <3> QED
      BY <3>1, <3>2 DEF TeamTypeOK
  <2> QED
    BY <1>8, <2>1, <2>2, <2>3, <2>4 DEF ReadTarget, HasOp, Busy, UsersKnown, TeamTypeOK
<1>9. ASSUME NEW h \in Handlers, CommitMember(h) PROVE Types'
  <2> DEFINE q == requests[h]
  <2>1. q.target \in People /\ q.op \in {"invite", "remove", "oidc"}
        /\ NewRole(q) \in Role \cup {"none"}
    BY <1>9, NewRoleType
  <2>2. /\ users' = users \cup {q.target}
        /\ requests' \in [Handlers -> Request] /\ requests'[h] = NoRequest
        /\ \A g \in Handlers \ {h} : SameRequest(requests'[g], requests[g])
        /\ role'[q.target] = NewRole(q)
        /\ \A p \in People \ {q.target} : role'[p] = role[p]
    BY <1>9, CommitMemberEffect
  <2>3. removed' \subseteq users'
    <3>1. removed' \in {removed \ {q.target}, removed \cup {q.target}, removed}
      BY <1>9, <2>1 DEF CommitMember, Removes, Invites
    <3> QED
      BY <2>2, <3>1 DEF UsersKnown
  <2>4. role' \in [People -> Role \cup {"none"}]
    BY <1>9, <2>1 DEF CommitMember, TeamTypeOK
  <2>5. passwords' \subseteq users' /\ sessions' \subseteq People /\ demoted' \in BOOLEAN
    BY <1>9, <2>1, <2>2 DEF CommitMember, TeamTypeOK
  <2>6. TeamTypeOK'
    BY <1>9, <2>1, <2>2, <2>3, <2>4, <2>5 DEF CommitMember, TeamTypeOK
  <2>7. HasOp'
    BY <2>2 DEF HasOp, Busy, SameRequest, NoRequest
  <2>8. UsersKnown'
    <3>1. \A p \in People : role'[p] # "none" => p \in users'
      BY <2>2 DEF UsersKnown
    <3>2. ASSUME NEW g \in Handlers, requests'[g].has # "none"
          PROVE  requests'[g].target \in users'
      <4>1. g # h
        BY <2>2, <3>2 DEF NoRequest
      <4> QED
        BY <2>2, <3>2, <4>1 DEF UsersKnown, SameRequest
    <3> QED
      BY <2>3, <3>1, <3>2 DEF UsersKnown
  <2> QED
    BY <2>6, <2>7, <2>8
<1>10. ASSUME NEW h \in Handlers, DropRequest(h) PROVE Types'
  BY <1>10, EndEffect DEF DropRequest, TeamTypeOK, HasOp, Busy, UsersKnown
<1>11. CASE UNCHANGED teamVars
  BY <1>11 DEF teamVars, TeamTypeOK, HasOp, Busy, UsersKnown
<1> QED
  BY <1>1, <1>2, <1>3, <1>4, <1>5, <1>6, <1>7, <1>8, <1>9, <1>10, <1>11 DEF TeamNext

-----------------------------------------------------------------------------
(* Removed people and the bootstrap *)

\* A commit gives nobody back a membership that was taken, and leaves no user
\* without one
LEMMA CommitKeeps ==
    ASSUME Types, RemovedStaysOut, BootOnce, NEW h \in Handlers, CommitMember(h)
    PROVE  RemovedStaysOut' /\ BootOnce'
<1> DEFINE q == requests[h]
<1>1. q.target \in People /\ q.op \in {"invite", "remove", "oidc"} /\ q.as \in Role
  BY NewRoleType DEF Request
<1>2. /\ users' = users \cup {q.target}
      /\ role'[q.target] = NewRole(q)
      /\ \A p \in People \ {q.target} : role'[p] = role[p]
  BY CommitMemberEffect
<1>3. role[q.target] # "none" => q.target \in users
  BY <1>1 DEF Types, UsersKnown
<1>4. q.has # "none" => q.target \in users
  BY DEF Types, UsersKnown
<1>5. tenants' <= 1
  BY DEF CommitMember, BootOnce
<1>6. removed \subseteq People /\ users \subseteq People
  BY DEF Types, TeamTypeOK
<1>7. CASE Invites(q)
  <2>1. removed' = removed \ {q.target} /\ NewRole(q) # "none"
    BY <1>1, <1>7, NewRoleType DEF CommitMember, Role, Removes, Invites
  <2> QED
    BY <1>2, <1>5, <1>6, <2>1 DEF RemovedStaysOut, BootOnce
<1>11. CASE q.op = "invite" /\ ~Invites(q)
  <2>1. removed' = removed /\ NewRole(q) = role[q.target]
    BY <1>11, NewRoleType DEF CommitMember, Removes
  <2>2. q.has # "none" /\ q.target \in users
    BY <1>1, <1>4, <1>11 DEF Invites, Role
  <2> QED
    BY <1>2, <1>5, <1>6, <2>1, <2>2 DEF RemovedStaysOut, BootOnce
<1>8. CASE q.op = "remove" /\ ~q.gone
  <2>1. removed' = removed \cup {q.target} /\ NewRole(q) = "none"
    BY <1>8, NewRoleType DEF CommitMember, Removes, Invites
  <2> QED
    BY <1>2, <1>5, <1>6, <2>1 DEF RemovedStaysOut, BootOnce
<1>9. CASE q.op = "remove" /\ q.gone
  <2>1. removed' = removed /\ NewRole(q) = role[q.target] /\ q.target \in users
    BY <1>4, <1>9, NewRoleType DEF CommitMember, Removes, Invites
  <2> QED
    BY <1>2, <1>5, <1>6, <2>1 DEF RemovedStaysOut, BootOnce
<1>10. CASE q.op = "oidc"
  <2>1. removed' = removed
    BY <1>10 DEF CommitMember, Removes, Invites
  <2>2. CASE Provisioned(q) = q.has
    <3>1. NewRole(q) = role[q.target] /\ q.target \in users
      BY <1>4, <1>10, <2>2, NewRoleType DEF CommitMember
    <3> QED
      BY <1>2, <1>5, <1>6, <2>1, <3>1 DEF RemovedStaysOut, BootOnce
  <2>3. CASE Provisioned(q) # q.has
    <3>1. NewRole(q) = "member" /\ q.target \notin users
      BY <1>10, <2>3, NewRoleType DEF CommitMember, Provisioned, Conflict
    <3>2. q.target \notin removed
      BY <3>1 DEF Types, UsersKnown
    <3> QED
      BY <1>2, <1>5, <1>6, <2>1, <3>1, <3>2 DEF RemovedStaysOut, BootOnce
  <2> QED
    BY <2>2, <2>3
<1> QED
  BY <1>1, <1>7, <1>8, <1>9, <1>10, <1>11

LEMMA StepKept ==
    Types /\ RemovedStaysOut /\ BootOnce /\ [TeamNext]_teamVars => RemovedStaysOut' /\ BootOnce'
<1> SUFFICES ASSUME Types, RemovedStaysOut, BootOnce, [TeamNext]_teamVars
             PROVE  RemovedStaysOut' /\ BootOnce'
  OBVIOUS
<1>1. ASSUME NEW s \in Processes, BootstrapAdmin(s) PROVE RemovedStaysOut' /\ BootOnce'
  <2>1. CASE Taken
    BY <1>1, <2>1 DEF BootstrapAdmin, RemovedStaysOut, BootOnce
  <2>2. CASE ~Taken
    <3>1. /\ tenants = 0 /\ Root \notin removed
          /\ tenants' = tenants + 1 /\ users' = users \cup {Root} /\ removed' = removed
          /\ role' = [role EXCEPT ![Root] = "owner"]
      BY <1>1, <2>2 DEF BootstrapAdmin, Taken, Types, TeamTypeOK, UsersKnown
    <3>2. Root \in People /\ users \subseteq People /\ role \in [People -> Role \cup {"none"}]
      BY AccountConstantsOK DEF Types, TeamTypeOK
    <3> QED
      BY <3>1, <3>2 DEF RemovedStaysOut, BootOnce, Types, TeamTypeOK
  <2> QED
    BY <2>1, <2>2
<1>2. CASE UNCHANGED <<users, role, tenants, removed>>
  BY <1>2 DEF RemovedStaysOut, BootOnce
<1>3. ASSUME NEW h \in Handlers, CommitMember(h) PROVE RemovedStaysOut' /\ BootOnce'
  BY <1>3, CommitKeeps
<1> QED
  BY <1>1, <1>2, <1>3
  DEF TeamNext, CountUsers, Login, OidcLogin, RemoveMember, InviteMember, OidcCallback,
      ConsumeState, ReadTarget, DropRequest, teamVars

-----------------------------------------------------------------------------
(* The last admin *)

\* A request that begins alone, by an admin
LEMMA BeginAlone ==
    ASSUME Types, OneAtATime, NEW h \in Handlers, NEW q, Begin(h, q),
           role' = role, demoted' = demoted,
           ActorStays,
           q.op \in {"invite", "remove"} => role[q.actor] \in Admins,
           q.op = "remove" => q.actor # q.target
    PROVE  OneAtATime' /\ ActorStays'
<1>1. /\ requests' = [requests EXCEPT ![h] = q] /\ requests \in [Handlers -> Request]
      /\ ~Busy(h)
  BY DEF Begin, Types, TeamTypeOK, Busy
<1>2. ~met' => ~met /\ \A g \in Handlers : ~Busy(g)
  BY DEF Begin, Busy
<1>3. \A g \in Handlers : g # h => requests'[g] = requests[g]
  BY <1>1
<1>4. requests'[h] = q
  BY <1>1
<1>5. ~met' => \A g \in Handlers : Busy(g)' => g = h
  BY <1>2, <1>3 DEF Busy
<1>6. OneAtATime'
  BY <1>5 DEF OneAtATime
<1>7. ActorStays'
  BY <1>4, <1>5 DEF ActorStays
<1> QED
  BY <1>6, <1>7

\* A request that ends or goes on
LEMMA OnAlone ==
    ASSUME Types, OneAtATime, ActorStays, NEW h \in Handlers, role' = role, met' = met,
           demoted' = demoted,
           \A g \in Handlers : Busy(g)' => Busy(g) /\ requests'[g].op = requests[g].op
               /\ requests'[g].actor = requests[g].actor
               /\ requests'[g].target = requests[g].target
    PROVE  OneAtATime' /\ ActorStays'
<1>1. OneAtATime'
  BY DEF OneAtATime
<1>2. ActorStays'
  BY DEF ActorStays
<1> QED
  BY <1>1, <1>2

\* A commit of a request that was alone leaves an admin
LEMMA CommitAdmin ==
    ASSUME Types, OneAtATime, ActorStays, AdminStays, NEW h \in Handlers, CommitMember(h)
    PROVE  OneAtATime' /\ ActorStays' /\ AdminStays'
<1> DEFINE q == requests[h]
<1>1. q \in Request /\ q.target \in People /\ q.actor \in People
      /\ q.op \in {"invite", "remove", "oidc"} /\ q.as \in Role
  BY NewRoleType DEF Request
<1>2. /\ role'[q.target] = NewRole(q)
      /\ \A p \in People \ {q.target} : role'[p] = role[p]
      /\ requests'[h] = NoRequest
      /\ \A g \in Handlers \ {h} : SameRequest(requests'[g], requests[g])
  BY CommitMemberEffect
<1>3. Busy(h) /\ met' = met
  BY DEF CommitMember, Busy
<1>4. ~met => \A g \in Handlers : ~Busy(g)'
  <2>1. ~Busy(h)'
    BY <1>2 DEF Busy, NoRequest
  <2> QED
    BY <1>2, <1>3, <2>1 DEF OneAtATime, Busy, SameRequest
<1>5. OneAtATime' /\ ActorStays'
  BY <1>3, <1>4 DEF OneAtATime, ActorStays
<1>6. SUFFICES ASSUME tenants' > 0, ~met', ~demoted'
               PROVE  \E p \in People : role'[p] \in Admins
  BY <1>5 DEF AdminStays
<1>7. ~met /\ ~demoted /\ tenants > 0
  BY <1>6 DEF CommitMember
<1>8. CASE q.op = "oidc"
  <2>1. PICK p \in People : role[p] \in Admins
    BY <1>7 DEF AdminStays
  <2>2. CASE Provisioned(q) = q.has
    BY <1>2, <1>8, <2>1, <2>2, NewRoleType
  <2>3. CASE Provisioned(q) # q.has
    <3>1. q.target \notin users
      BY <1>8, <2>3 DEF CommitMember, Provisioned, Conflict
    <3>2. p # q.target
      BY <2>1, <3>1 DEF Types, UsersKnown, Admins
    <3> QED
      BY <1>2, <2>1, <3>2
  <2> QED
    BY <2>2, <2>3
<1>9. CASE q.op \in {"invite", "remove"}
  <2>1. role[q.actor] \in Admins /\ (q.op = "remove" => q.actor # q.target)
    BY <1>3, <1>7, <1>9 DEF ActorStays
  <2>2. CASE q.actor # q.target
    BY <1>1, <1>2, <2>1, <2>2
  <2>3. CASE q.actor = q.target
    <3>1. q.op = "invite" /\ q.as \in Admins
      BY <1>6, <1>9, <2>1, <2>3 DEF CommitMember
    <3> QED
      BY <1>1, <1>2, <2>1, <2>3, <3>1, NewRoleType
  <2> QED
    BY <2>2, <2>3
<1> QED
  BY <1>1, <1>8, <1>9

LEMMA StepAdmin ==
    Types /\ OneAtATime /\ ActorStays /\ AdminStays /\ [TeamNext]_teamVars
      => OneAtATime' /\ ActorStays' /\ AdminStays'
<1> SUFFICES ASSUME Types, OneAtATime, ActorStays, AdminStays, [TeamNext]_teamVars
             PROVE  OneAtATime' /\ ActorStays' /\ AdminStays'
  OBVIOUS
<1>1. ASSUME NEW s \in Processes, BootstrapAdmin(s) PROVE OneAtATime' /\ ActorStays' /\ AdminStays'
  <2>1. UNCHANGED <<requests, met, demoted>>
    BY <1>1 DEF BootstrapAdmin
  <2>2. Root \in People /\ role \in [People -> Role \cup {"none"}]
    BY AccountConstantsOK DEF Types, TeamTypeOK
  <2>3. UNCHANGED <<role, tenants>> \/ role' = [role EXCEPT ![Root] = "owner"]
    BY <1>1 DEF BootstrapAdmin
  <2>4. CASE UNCHANGED <<role, tenants>>
    BY <2>1, <2>4 DEF OneAtATime, ActorStays, AdminStays, Busy
  <2>5. CASE role' = [role EXCEPT ![Root] = "owner"]
    <3>1. \A p \in People : role[p] \in Admins => role'[p] \in Admins
      BY <2>2, <2>5 DEF Admins
    <3>2. role'[Root] \in Admins
      BY <2>2, <2>5 DEF Admins
    <3>3. \A h \in Handlers : requests[h].actor \in People
      BY DEF Types, TeamTypeOK, Request
    <3> QED
      BY <2>1, <2>2, <3>1, <3>2, <3>3 DEF OneAtATime, ActorStays, AdminStays, Busy
  <2> QED
    BY <2>3, <2>4, <2>5
<1>2. ASSUME NEW h \in Handlers, NEW a \in People, NEW p \in People, RemoveMember(h, a, p)
      PROVE  OneAtATime' /\ ActorStays' /\ AdminStays'
  <2> DEFINE q == [NoRequest EXCEPT !.op = "remove", !.actor = a, !.target = p, !.stage = "read"]
  <2>1. q.actor = a /\ q.target = p /\ a # p /\ role[a] \in Admins
    BY <1>2 DEF NoRequest, RemoveMember, NotSelf, MayAdmin
  <2> HIDE DEF q
  <2>2. Begin(h, q) /\ UNCHANGED <<role, tenants, demoted>>
    BY <1>2 DEF RemoveMember, q
  <2>3. OneAtATime' /\ ActorStays'
    BY <2>1, <2>2, BeginAlone
  <2>4. AdminStays'
    BY <2>2 DEF AdminStays, Begin
  <2> QED
    BY <2>3, <2>4
<1>3. ASSUME NEW h \in Handlers, NEW a \in People, NEW p \in People, NEW as \in Role,
             InviteMember(h, a, p, as)
      PROVE  OneAtATime' /\ ActorStays' /\ AdminStays'
  <2> DEFINE q == [NoRequest EXCEPT !.op = "invite", !.actor = a, !.target = p, !.as = as,
                                    !.stage = "read"]
  <2>1. q.actor = a /\ q.op = "invite" /\ role[a] \in Admins
    BY <1>3 DEF NoRequest, InviteMember, MayAdmin
  <2> HIDE DEF q
  <2>2. Begin(h, q) /\ UNCHANGED <<role, tenants, demoted>>
    BY <1>3 DEF InviteMember, q
  <2>3. OneAtATime' /\ ActorStays'
    BY <2>1, <2>2, BeginAlone
  <2>4. AdminStays'
    BY <2>2 DEF AdminStays, Begin
  <2> QED
    BY <2>3, <2>4
<1>4. ASSUME NEW h \in Handlers, NEW p \in People, OidcCallback(h, p)
      PROVE  OneAtATime' /\ ActorStays' /\ AdminStays'
  <2> DEFINE q == [NoRequest EXCEPT !.op = "oidc", !.target = p, !.stage = "state"]
  <2>1. q.op = "oidc"
    BY DEF NoRequest
  <2> HIDE DEF q
  <2>2. Begin(h, q) /\ UNCHANGED <<role, tenants, demoted>>
    BY <1>4 DEF OidcCallback, q
  <2>3. OneAtATime' /\ ActorStays'
    BY <2>1, <2>2, BeginAlone
  <2>4. AdminStays'
    BY <2>2 DEF AdminStays, Begin
  <2> QED
    BY <2>3, <2>4
<1>5. ASSUME NEW h \in Handlers, ConsumeState(h) \/ ReadTarget(h) \/ DropRequest(h)
      PROVE  OneAtATime' /\ ActorStays' /\ AdminStays'
  <2>1. UNCHANGED <<role, tenants, met, demoted>>
    BY <1>5 DEF ConsumeState, ReadTarget, DropRequest
  <2>2. requests \in [Handlers -> Request] /\ Busy(h)
    BY <1>5 DEF Types, TeamTypeOK, ConsumeState, ReadTarget, DropRequest, Busy
  <2>3. \A g \in Handlers : Busy(g)' => Busy(g) /\ requests'[g].op = requests[g].op
            /\ requests'[g].actor = requests[g].actor /\ requests'[g].target = requests[g].target
    <3>1. CASE End(h)
      BY <2>2, <3>1 DEF End, NoRequest, Busy
    <3>2. CASE requests' = [requests EXCEPT ![h].stage = "read"]
      BY <2>2, <3>2 DEF Busy, Request
    <3>3. CASE ReadTarget(h)
      BY <2>2, <3>3 DEF ReadTarget, Busy, Request
    <3> QED
      BY <1>5, <3>1, <3>2, <3>3 DEF ConsumeState, DropRequest
  <2>4. OneAtATime' /\ ActorStays'
    BY <2>1, <2>3, OnAlone
  <2>5. AdminStays'
    BY <2>1 DEF AdminStays
  <2> QED
    BY <2>4, <2>5
<1>6. ASSUME NEW h \in Handlers, CommitMember(h) PROVE OneAtATime' /\ ActorStays' /\ AdminStays'
  BY <1>6, CommitAdmin
<1>7. CASE UNCHANGED <<role, tenants, requests, met, demoted>>
  BY <1>7 DEF OneAtATime, ActorStays, AdminStays, Busy
<1> QED
  BY <1>1, <1>2, <1>3, <1>4, <1>5, <1>6, <1>7
  DEF TeamNext, CountUsers, Login, OidcLogin, teamVars

-----------------------------------------------------------------------------
(* The theorems *)

LEMMA TeamInv == TeamSpec => []TeamSound
<1>1. TeamSound /\ [TeamNext]_teamVars => TeamSound'
  BY StepTypes, StepKept, StepAdmin DEF TeamSound
<1> QED
  BY <1>1, TeamInitInv, PTL DEF TeamSpec

\* The types of the team's state, whatever requests overlap.
THEOREM TeamTyped == TeamSpec => []TeamTypeOK
  BY TeamInv, PTL DEF TeamSound, Types

\* Who was removed is a member again only by an invitation: no login, invitation
\* or removal that read the membership before brings it back.
THEOREM RemovedStayOut == TeamSpec => []RemovedStaysOut
  BY TeamInv, PTL DEF TeamSound

\* However many processes start on an empty database, one tenant is made, and no
\* user row is ever without a membership but by a removal.
THEOREM OneBootstrap == TeamSpec => []BootOnce
  BY TeamInv, PTL DEF TeamSound

\* With requests one at a time the tenant keeps an admin, unless one gave himself
\* a lower role.
THEOREM AnAdminStays == TeamSpec => []AdminStays
  BY TeamInv, PTL DEF TeamSound

-----------------------------------------------------------------------------
(* Messengers *)

Handling(t) == threads[t].stage # "idle"
Making(t)   == threads[t].op = "init" /\ threads[t].stage \in {"key", "commit"}
Writes(t)   == threads[t].op \in {"renew", "link"} /\ threads[t].stage = "commit"

\* Which operation has which steps
Stages ==
    \A t \in Threads :
        /\ threads[t].stage = "key" => threads[t].op = "init"
        /\ threads[t].stage \in {"del", "load"} => threads[t].op = "link" /\ threads[t].chat \in Chats
        /\ threads[t].stage = "commit" => threads[t].op \in {"init", "renew", "link"}

\* Connections are numbered as they are made
Numbered ==
    /\ \A x \in channels : x.id \in 1..made
    /\ heard \subseteq 1..made
    /\ \A t \in Threads : Making(t) => threads[t].row.id \in 1..made
    /\ \A t \in Threads : Writes(t) => threads[t].seen.id \in 1..made

\* A row that is not committed yet is known to its request alone
Unborn ==
    \A t \in Threads : Making(t) =>
        /\ threads[t].row \in Channel
        /\ threads[t].row.target = NoChat /\ threads[t].row.config.status = "pending_link"
        /\ threads[t].row.id \notin heard
        /\ \A x \in channels : x.id # threads[t].row.id
        /\ \A s \in Threads \ {t} : Making(s) => threads[s].row.id # threads[t].row.id
        /\ \A s \in Threads : Writes(s) => threads[s].seen.id # threads[t].row.id

\* What a request knows of the row that it will write
ThreadCopies ==
    \A t \in Threads : Writes(t) =>
        LET q == threads[t]
        IN  /\ q.row \in Channel /\ q.seen \in Channel /\ q.row.id = q.seen.id
            /\ q.op = "renew" => /\ q.row.target = q.seen.target
                                 /\ q.row.config.status = q.seen.config.status
            /\ q.op = "link"  => q.row.target # NoChat /\ q.row.config.status = "active"
            /\ \A x \in channels : x.id = q.seen.id /\ q.seen.target # NoChat => x.target # NoChat

\* Unless a link overlapped, a link is alone and copies are up to date
Unmixed ==
    ~mixed =>
        /\ \A s, t \in Threads : s # t /\ Handling(s) /\ Handling(t) => threads[t].op # "link"
        /\ \A t \in Threads : Writes(t) =>
              \A x \in channels : x.id = threads[t].seen.id =>
                  /\ x.target = threads[t].seen.target
                  /\ x.config.status = threads[t].seen.config.status

ChatKnown == Stages /\ Numbered /\ Unborn /\ ThreadCopies /\ Unmixed
ChatSound == ChatTypeOK /\ ChatKnown /\ ChatStays

LEMMA NoThreadType == NoThread \in Thread /\ NoThread.stage = "idle"
  BY MessengerConstantsOK DEF NoThread, Thread

LEMMA BlankType ==
    ASSUME NEW i \in 1..MaxChannels, NEW ok \in BOOLEAN
    PROVE  LET row == [Blank EXCEPT !.id = i, !.config.hook = ok]
           IN  /\ row \in Channel /\ row.id = i /\ row.bot
               /\ row.target = NoChat /\ row.config.status = "pending_link"
  BY DEF Blank, Channel, Config

LEMMA RenewedType ==
    ASSUME NEW x \in Channel, NEW ok \in BOOLEAN
    PROVE  LET row == [x EXCEPT !.config.hook = ok]
           IN  /\ row \in Channel /\ row.id = x.id /\ row.target = x.target
               /\ row.config.status = x.config.status
  BY DEF Channel, Config

LEMMA LinkedType ==
    ASSUME NEW x \in Channel, NEW chat \in Chats
    PROVE  /\ Linked(x, chat) \in Channel /\ Linked(x, chat).id = x.id
           /\ Linked(x, chat).target = chat /\ Linked(x, chat).config.status = "active"
  BY DEF Linked, Channel, Config

LEMMA SavedType ==
    ASSUME NEW x \in Channel, NEW q, q.row \in Channel, q.seen \in Channel
    PROVE  /\ Saved(x, q) \in Channel /\ Saved(x, q).id = x.id /\ Saved(x, q).bot = x.bot
           /\ Saved(x, q).target = IF q.row.target = q.seen.target THEN x.target ELSE q.row.target
           /\ Saved(x, q).config = IF q.row.config = q.seen.config THEN x.config ELSE q.row.config
  BY DEF Saved, Channel

LEMMA ChatInitSound == ChatInit => ChatSound
<1> SUFFICES ASSUME ChatInit PROVE ChatSound
  OBVIOUS
<1>1. \A t \in Threads : threads[t] = NoThread /\ threads[t].stage = "idle"
  BY NoThreadType DEF ChatInit
<1>2. ChatTypeOK
  <2>1. threads \in [Threads -> Thread] /\ keys \in [Codes -> 0..MaxChannels]
    BY NoThreadType, MessengerConstantsOK DEF ChatInit
  <2>2. channels = {} /\ heard = {} /\ mixed \in BOOLEAN
    BY DEF ChatInit
  <2>3. made \in 0..MaxChannels
    BY MessengerConstantsOK DEF ChatInit
  <2>4. channels \subseteq Channel /\ heard \subseteq 1..MaxChannels
        /\ \A x, y \in channels : x.id = y.id => x = y
    BY <2>2
  <2> QED
    BY <2>1, <2>2, <2>3, <2>4 DEF ChatTypeOK
<1>3. ChatKnown
  BY <1>1 DEF ChatInit, ChatKnown, Stages, Numbered, Unborn, ThreadCopies, Unmixed, Making, Writes, Handling
<1> QED
  BY <1>2, <1>3 DEF ChatSound, ChatInit, ChatStays

-----------------------------------------------------------------------------
(* Steps of one request that write no connection *)

LEMMA OpenEffect ==
    ASSUME ChatSound, NEW t \in Threads, NEW q \in Thread, Open(t, q), q.stage # "idle"
    PROVE  /\ threads' = [threads EXCEPT ![t] = q] /\ threads' \in [Threads -> Thread]
           /\ threads'[t] = q /\ \A s \in Threads \ {t} : threads'[s] = threads[s]
           /\ mixed' \in BOOLEAN /\ ~Handling(t)
           /\ ~mixed' => /\ ~mixed
                         /\ \A s \in Threads : Handling(s) => "link" \notin {q.op, threads[s].op}
  BY DEF Open, ChatSound, ChatTypeOK, Handling

\* A request that begins and writes nothing yet, a link
LEMMA StepLink ==
    ASSUME ChatSound, NEW t \in Threads, NEW code \in Codes, NEW chat \in Chats,
           TelegramWebhook(t, code, chat)
    PROVE  ChatSound'
<1> DEFINE q == [NoThread EXCEPT !.op = "link", !.code = code, !.chat = chat, !.stage = "del",
                                 !.of = keys[code]]
<1>1. q \in Thread /\ q.stage = "del" /\ q.op = "link" /\ q.chat = chat
  BY MessengerConstantsOK DEF NoThread, Thread, ChatSound, ChatTypeOK
<1> HIDE DEF q
<1>2. Open(t, q) /\ UNCHANGED <<channels, made, keys, heard>>
  BY DEF TelegramWebhook, q
<1>3. /\ threads' \in [Threads -> Thread]
      /\ threads'[t] = q /\ \A s \in Threads \ {t} : threads'[s] = threads[s]
      /\ mixed' \in BOOLEAN
      /\ ~mixed' => ~mixed /\ \A s \in Threads : ~Handling(s)
  BY <1>1, <1>2, OpenEffect
<1>4. ChatTypeOK' /\ ChatStays'
  BY <1>2, <1>3 DEF ChatSound, ChatTypeOK, ChatStays
<1>5. \A s \in Threads : /\ Making(s)' <=> s # t /\ Making(s)
                         /\ Writes(s)' <=> s # t /\ Writes(s)
  BY <1>1, <1>3 DEF Making, Writes
<1>6. Stages' /\ Numbered'
  BY <1>1, <1>2, <1>3, <1>5 DEF ChatSound, ChatKnown, Stages, Numbered
<1>7. Unborn' /\ ThreadCopies'
  BY <1>2, <1>3, <1>5 DEF ChatSound, ChatKnown, Unborn, ThreadCopies
<1>8. Unmixed'
  BY <1>2, <1>3, <1>5 DEF ChatSound, ChatKnown, Unmixed, Handling
<1> QED
  BY <1>4, <1>6, <1>7, <1>8 DEF ChatSound, ChatKnown

\* The webhook of a bot is set again
LEMMA StepRenew ==
    ASSUME ChatSound, NEW t \in Threads, NEW x \in channels, RetryWebhook(t, x)
    PROVE  ChatSound'
<1>1. x \in Channel
  BY DEF ChatSound, ChatTypeOK
<1>2. PICK ok \in BOOLEAN : Open(t, [NoThread EXCEPT !.op = "renew", !.stage = "commit",
                                       !.seen = x, !.row = [x EXCEPT !.config.hook = ok]])
  BY DEF RetryWebhook, SetWebhook
<1> DEFINE row == [x EXCEPT !.config.hook = ok]
           q == [NoThread EXCEPT !.op = "renew", !.stage = "commit", !.seen = x, !.row = row]
<1>3. row \in Channel /\ row.id = x.id /\ row.target = x.target
      /\ row.config.status = x.config.status
  BY <1>1, RenewedType
<1> HIDE DEF row
<1>4. q \in Thread /\ q.stage = "commit" /\ q.op = "renew" /\ q.seen = x /\ q.row = row
  BY <1>1, <1>3, NoThreadType DEF NoThread, Thread
<1>5. Open(t, q) /\ UNCHANGED <<channels, made, keys, heard>>
  BY <1>2 DEF RetryWebhook, row
<1> HIDE DEF q
<1>6. /\ threads' \in [Threads -> Thread]
      /\ threads'[t] = q /\ \A s \in Threads \ {t} : threads'[s] = threads[s]
      /\ mixed' \in BOOLEAN
      /\ ~mixed' => ~mixed /\ \A s \in Threads : Handling(s) => threads[s].op # "link"
  BY <1>4, <1>5, OpenEffect
<1>7. ChatTypeOK' /\ ChatStays'
  BY <1>5, <1>6 DEF ChatSound, ChatTypeOK, ChatStays
<1>8. \A s \in Threads : /\ Making(s)' <=> s # t /\ Making(s)
                         /\ Writes(s)' <=> s = t \/ Writes(s)
  BY <1>4, <1>6 DEF Making, Writes
<1>9. Stages' /\ Numbered'
  BY <1>4, <1>5, <1>6, <1>8 DEF ChatSound, ChatKnown, Stages, Numbered
<1>10. Unborn'
  BY <1>4, <1>5, <1>6, <1>8 DEF ChatSound, ChatKnown, Unborn
<1>11. \A y \in channels : y.id = x.id => y = x
  BY DEF ChatSound, ChatTypeOK
<1>12. ThreadCopies'
  BY <1>1, <1>3, <1>4, <1>5, <1>6, <1>8, <1>11 DEF ChatSound, ChatKnown, ThreadCopies
<1>13. Unmixed'
  BY <1>4, <1>5, <1>6, <1>8, <1>11 DEF ChatSound, ChatKnown, Unmixed, Handling
<1> QED
  BY <1>7, <1>9, <1>10, <1>12, <1>13 DEF ChatSound, ChatKnown

\* A request goes on with the same operation, or ends
LEMMA StepOn ==
    ASSUME ChatSound, NEW t \in Threads, NEW q \in Thread,
           threads' = [threads EXCEPT ![t] = q],
           keys' \in [Codes -> 0..MaxChannels],
           UNCHANGED <<channels, made, heard, mixed>>,
           q.stage \in {"idle", "load"}
             \/ (Making(t) /\ q.stage = "commit" /\ q.row = threads[t].row),
           q.stage # "idle" => Handling(t) /\ q.op = threads[t].op /\ q.chat = threads[t].chat,
           q.stage = "load" => threads[t].stage = "del"
    PROVE  ChatSound'
<1>1. /\ threads' \in [Threads -> Thread]
      /\ threads'[t] = q /\ \A s \in Threads \ {t} : threads'[s] = threads[s]
  BY DEF ChatSound, ChatTypeOK
<1>2. ChatTypeOK' /\ ChatStays'
  BY <1>1 DEF ChatSound, ChatTypeOK, ChatStays
<1>3. \A s \in Threads : /\ Making(s)' => Making(s) /\ threads'[s].row = threads[s].row
                         /\ Writes(s)' => s # t /\ Writes(s)
                         /\ Handling(s)' => Handling(s) /\ threads'[s].op = threads[s].op
  BY <1>1 DEF Making, Writes, Handling
<1>4. Stages'
  BY <1>1 DEF ChatSound, ChatKnown, Stages, Making
<1>5. Numbered'
  BY <1>1, <1>3 DEF ChatSound, ChatKnown, Numbered
<1>6. Unborn'
  BY <1>1, <1>3 DEF ChatSound, ChatKnown, Unborn
<1>7. ThreadCopies'
  BY <1>1, <1>3 DEF ChatSound, ChatKnown, ThreadCopies
<1>8. Unmixed'
  BY <1>1, <1>3 DEF ChatSound, ChatKnown, Unmixed
<1> QED
  BY <1>2, <1>4, <1>5, <1>6, <1>7, <1>8 DEF ChatSound, ChatKnown

\* The link reads its connection
LEMMA StepLoad ==
    ASSUME ChatSound, NEW t \in Threads, NEW x \in channels, threads[t].stage = "load",
           threads' = [threads EXCEPT ![t].stage = "commit", ![t].seen = x,
                                      ![t].row = Linked(x, threads[t].chat)],
           UNCHANGED <<channels, made, keys, heard, mixed>>
    PROVE  ChatSound'
<1> DEFINE q == threads'[t]
<1>1. x \in Channel /\ threads[t] \in Thread /\ threads[t].op = "link" /\ threads[t].chat \in Chats
  BY DEF ChatSound, ChatTypeOK, ChatKnown, Stages
<1>2. Linked(x, threads[t].chat) \in Channel
  BY <1>1, LinkedType
<1>3. /\ q.stage = "commit" /\ q.op = "link" /\ q.seen = x /\ q.row = Linked(x, threads[t].chat)
      /\ q \in Thread
      /\ threads' \in [Threads -> Thread]
      /\ \A s \in Threads \ {t} : threads'[s] = threads[s]
  BY <1>1, <1>2 DEF ChatSound, ChatTypeOK, Thread
<1>4. /\ q.row \in Channel /\ q.row.id = x.id
      /\ q.row.target # NoChat /\ q.row.config.status = "active"
  BY <1>1, <1>3, LinkedType, MessengerConstantsOK
<1>5. ChatTypeOK' /\ ChatStays'
  BY <1>3 DEF ChatSound, ChatTypeOK, ChatStays
<1>6. \A s \in Threads : /\ Making(s)' <=> s # t /\ Making(s)
                         /\ Writes(s)' <=> s = t \/ Writes(s)
                         /\ Handling(s)' <=> Handling(s)
  BY <1>1, <1>3 DEF Making, Writes, Handling
<1>7. Stages' /\ Numbered'
  BY <1>3, <1>6 DEF ChatSound, ChatKnown, Stages, Numbered
<1>8. Unborn'
  BY <1>3, <1>6 DEF ChatSound, ChatKnown, Unborn
<1>9. \A y \in channels : y.id = x.id => y = x
  BY DEF ChatSound, ChatTypeOK
<1>10. ThreadCopies'
  BY <1>1, <1>3, <1>4, <1>6, <1>9 DEF ChatSound, ChatKnown, ThreadCopies
<1>11. Unmixed'
  BY <1>1, <1>3, <1>6, <1>9 DEF ChatSound, ChatKnown, Unmixed
<1> QED
  BY <1>5, <1>7, <1>8, <1>10, <1>11 DEF ChatSound, ChatKnown

-----------------------------------------------------------------------------
(* Steps that make, write or delete connections *)

LEMMA StepInit ==
    ASSUME ChatSound, NEW t \in Threads, NEW code \in Codes, TelegramInit(t, code)
    PROVE  ChatSound'
<1>1. made + 1 \in 1..MaxChannels /\ made' = made + 1 /\ made' \in 0..MaxChannels /\ made \in Nat
  BY MessengerConstantsOK DEF TelegramInit, ChatSound, ChatTypeOK
<1>2. PICK ok \in BOOLEAN : Open(t, [NoThread EXCEPT !.op = "init", !.code = code, !.stage = "key",
                                       !.row = [Blank EXCEPT !.id = made + 1, !.config.hook = ok]])
  BY DEF TelegramInit, SetWebhook
<1> DEFINE row == [Blank EXCEPT !.id = made + 1, !.config.hook = ok]
           q == [NoThread EXCEPT !.op = "init", !.code = code, !.stage = "key", !.row = row]
<1>3. row \in Channel /\ row.id = made + 1 /\ row.target = NoChat
      /\ row.config.status = "pending_link"
  BY <1>1, BlankType
<1> HIDE DEF row
<1>4. q \in Thread /\ q.stage = "key" /\ q.op = "init" /\ q.row = row
  BY <1>3, NoThreadType DEF NoThread, Thread
<1>5. Open(t, q) /\ UNCHANGED <<channels, keys, heard>>
  BY <1>2 DEF TelegramInit, row
<1> HIDE DEF q
<1>6. /\ threads' \in [Threads -> Thread]
      /\ threads'[t] = q /\ \A s \in Threads \ {t} : threads'[s] = threads[s]
      /\ mixed' \in BOOLEAN
      /\ ~mixed' => ~mixed /\ \A s \in Threads : Handling(s) => threads[s].op # "link"
  BY <1>4, <1>5, OpenEffect
<1>7. ChatTypeOK' /\ ChatStays'
  BY <1>1, <1>5, <1>6 DEF ChatSound, ChatTypeOK, ChatStays
<1>8. \A s \in Threads : /\ Making(s)' <=> s = t \/ Making(s)
                         /\ Writes(s)' <=> s # t /\ Writes(s)
  BY <1>4, <1>6 DEF Making, Writes
<1>9. Stages'
  BY <1>4, <1>6 DEF ChatSound, ChatKnown, Stages
<1>10. Numbered'
  <2>1. 1..made \subseteq 1..made' /\ row.id \in 1..made'
    BY <1>1, <1>3
  <2> QED
    BY <1>4, <1>5, <1>6, <1>8, <2>1 DEF ChatSound, ChatKnown, Numbered
<1>11. row.id \notin 1..made
  BY <1>1, <1>3
<1>12. Unborn'
  <2>1. ASSUME NEW s \in Threads \ {t}, Making(s)
        PROVE  threads[s].row.id # row.id
    BY <1>11, <2>1 DEF ChatSound, ChatKnown, Numbered
  <2>2. ASSUME NEW s \in Threads, Writes(s)
        PROVE  threads[s].seen.id # row.id
    BY <1>11, <2>2 DEF ChatSound, ChatKnown, Numbered
  <2>3. row.id \notin heard /\ \A x \in channels : x.id # row.id
    BY <1>11 DEF ChatSound, ChatKnown, Numbered
  <2> QED
    BY <1>3, <1>4, <1>5, <1>6, <1>8, <2>1, <2>2, <2>3 DEF ChatSound, ChatKnown, Unborn
<1>13. ThreadCopies'
  BY <1>5, <1>6, <1>8 DEF ChatSound, ChatKnown, ThreadCopies
<1>14. Unmixed'
  BY <1>4, <1>5, <1>6, <1>8 DEF ChatSound, ChatKnown, Unmixed, Handling
<1> QED
  BY <1>7, <1>9, <1>10, <1>12, <1>13, <1>14 DEF ChatSound, ChatKnown

LEMMA StepAdd ==
    ASSUME ChatSound, NEW target \in Chats \cup {NoChat}, Add(target)
    PROVE  ChatSound'
<1> DEFINE y == [id |-> made + 1, bot |-> FALSE, target |-> target,
                 config |-> [status |-> "active", hook |-> FALSE]]
<1>1. made + 1 \in 1..MaxChannels /\ made' = made + 1 /\ made' \in 0..MaxChannels /\ made \in Nat
  BY MessengerConstantsOK DEF Add, ChatSound, ChatTypeOK
<1>2. y \in Channel /\ y.id = made + 1 /\ y.bot = FALSE
  BY <1>1 DEF Channel, Config
<1>3. channels' = channels \cup {y} /\ UNCHANGED <<keys, threads, heard, mixed>>
  BY DEF Add
<1> HIDE DEF y
<1>4. y.id \notin 1..made /\ y.id \in 1..made' /\ 1..made \subseteq 1..made'
  BY <1>1, <1>2
<1>5. ChatTypeOK'
  BY <1>1, <1>2, <1>3, <1>4 DEF ChatSound, ChatTypeOK, ChatKnown, Numbered
<1>6. Stages' /\ Numbered'
  BY <1>3, <1>4 DEF ChatSound, ChatKnown, Stages, Numbered, Making, Writes
<1>7. Unborn'
  BY <1>3, <1>4 DEF ChatSound, ChatKnown, Unborn, Numbered, Making, Writes
<1>8. ThreadCopies'
  BY <1>3, <1>4 DEF ChatSound, ChatKnown, ThreadCopies, Numbered, Writes
<1>9. Unmixed'
  BY <1>3, <1>4 DEF ChatSound, ChatKnown, Unmixed, Numbered, Writes, Handling
<1>10. ChatStays'
  BY <1>2, <1>3 DEF ChatSound, ChatStays
<1> QED
  BY <1>5, <1>6, <1>7, <1>8, <1>9, <1>10 DEF ChatSound, ChatKnown

LEMMA StepDelete ==
    ASSUME ChatSound, NEW x \in channels, DeleteChannel(x)
    PROVE  ChatSound'
<1>1. channels' \subseteq channels /\ UNCHANGED <<made, keys, threads, heard, mixed>>
  BY DEF DeleteChannel
<1>2. ChatTypeOK' /\ ChatStays'
  BY <1>1 DEF ChatSound, ChatTypeOK, ChatStays
<1>3. ChatKnown'
  BY <1>1 DEF ChatSound, ChatKnown, Stages, Numbered, Unborn, ThreadCopies, Unmixed, Making, Writes, Handling
<1> QED
  BY <1>2, <1>3 DEF ChatSound

\* A request that commits is done, and the others go on
LEMMA CloseEffect ==
    ASSUME ChatSound, NEW t \in Threads, Close(t)
    PROVE  /\ threads' \in [Threads -> Thread]
           /\ \A s \in Threads \ {t} : threads'[s] = threads[s]
           /\ \A s \in Threads : /\ Making(s)' <=> s # t /\ Making(s)
                                 /\ Writes(s)' <=> s # t /\ Writes(s)
                                 /\ Handling(s)' <=> s # t /\ Handling(s)
           /\ threads'[t].stage = "idle"
BY NoThreadType DEF ChatSound, ChatTypeOK, Close, Making, Writes, Handling

\* A new bot
LEMMA CommitNew ==
    ASSUME ChatSound, NEW t \in Threads, CommitChannel(t), threads[t].op = "init"
    PROVE  ChatSound'
<1> DEFINE row == threads[t].row
<1>1. Making(t)
  BY DEF CommitChannel, Making
<1>2. channels' = channels \cup {row} /\ UNCHANGED <<made, keys, heard, mixed>>
  BY DEF CommitChannel
<1>3. /\ threads' \in [Threads -> Thread]
      /\ \A s \in Threads \ {t} : threads'[s] = threads[s]
      /\ \A s \in Threads : /\ Making(s)' <=> s # t /\ Making(s)
                            /\ Writes(s)' <=> s # t /\ Writes(s)
                            /\ Handling(s)' <=> s # t /\ Handling(s)
      /\ threads'[t].stage = "idle"
  BY CloseEffect DEF CommitChannel
<1>4. /\ row \in Channel /\ row.target = NoChat /\ row.config.status = "pending_link"
      /\ row.id \notin heard /\ row.id \in 1..made
      /\ \A x \in channels : x.id # row.id
      /\ \A s \in Threads \ {t} : Making(s) => threads[s].row.id # row.id
      /\ \A s \in Threads : Writes(s) => threads[s].seen.id # row.id
  BY <1>1 DEF ChatSound, ChatKnown, Unborn, Numbered
<1> HIDE DEF row
<1>5. ChatTypeOK'
  BY <1>2, <1>3, <1>4 DEF ChatSound, ChatTypeOK
<1>6. ChatStays'
  BY <1>2, <1>4 DEF ChatSound, ChatStays
<1>7. Stages' /\ Numbered'
  BY <1>2, <1>3, <1>4 DEF ChatSound, ChatKnown, Stages, Numbered
<1>8. Unborn'
  BY <1>2, <1>3, <1>4 DEF ChatSound, ChatKnown, Unborn
<1>9. ThreadCopies'
  BY <1>2, <1>3, <1>4 DEF ChatSound, ChatKnown, ThreadCopies
<1>10. Unmixed'
  BY <1>2, <1>3, <1>4 DEF ChatSound, ChatKnown, Unmixed
<1> QED
  BY <1>5, <1>6, <1>7, <1>8, <1>9, <1>10 DEF ChatSound, ChatKnown

\* What a renewal or a link makes of the committed row: it keeps a target that is
\* there. A renewal keeps the status too unless requests mixed; a link leaves a
\* target and, unless mixed, the active status.
LEMMA SavedEffect ==
    ASSUME ChatSound, NEW t \in Threads, Writes(t), NEW x \in channels, x.id = threads[t].seen.id
    PROVE  LET y == Saved(x, threads[t])
           IN  /\ y \in Channel /\ y.id = x.id /\ y.bot = x.bot
               /\ x.target # NoChat => y.target # NoChat
               /\ threads[t].op = "link" => y.target # NoChat
               /\ threads[t].op = "link" /\ ~mixed => y.config.status = "active"
               /\ threads[t].op = "renew" => y.target = x.target
               /\ threads[t].op = "renew" /\ ~mixed => y.config.status = x.config.status
<1> DEFINE q == threads[t]
           y == Saved(x, q)
<1>1. x \in Channel
  BY DEF ChatSound, ChatTypeOK
<1>2. /\ q.row \in Channel /\ q.seen \in Channel /\ q.row.id = q.seen.id
      /\ q.op \in {"renew", "link"}
      /\ q.op = "renew" => /\ q.row.target = q.seen.target
                           /\ q.row.config.status = q.seen.config.status
      /\ q.op = "link"  => q.row.target # NoChat /\ q.row.config.status = "active"
      /\ q.seen.target # NoChat => x.target # NoChat
  BY DEF ChatSound, ChatKnown, ThreadCopies, Writes
<1>3. ~mixed => x.config.status = q.seen.config.status
  BY DEF ChatSound, ChatKnown, Unmixed
<1>4. /\ y \in Channel /\ y.id = x.id /\ y.bot = x.bot
      /\ y.target = IF q.row.target = q.seen.target THEN x.target ELSE q.row.target
      /\ y.config = IF q.row.config = q.seen.config THEN x.config ELSE q.row.config
  BY <1>1, <1>2, SavedType
<1> HIDE DEF y, q
<1>5. q.op = "renew" => y.target = x.target /\ (~mixed => y.config.status = x.config.status)
  BY <1>2, <1>3, <1>4
<1>6. q.op = "link" => y.target # NoChat /\ (~mixed => y.config.status = "active")
  BY <1>2, <1>3, <1>4
<1> QED
  BY <1>2, <1>4, <1>5, <1>6 DEF q, y

LEMMA CommitOld ==
    ASSUME ChatSound, NEW t \in Threads, CommitChannel(t), threads[t].op # "init"
    PROVE  ChatSound'
<1> DEFINE q == threads[t]
           New(x) == IF x.id = q.seen.id THEN Saved(x, q) ELSE x
<1>1. Writes(t) /\ q.row.id = q.seen.id /\ q.seen.id \in 1..made
  BY DEF CommitChannel, Writes, ChatSound, ChatKnown, Stages, ThreadCopies, Numbered
<1>2. /\ channels' = {New(x) : x \in channels}
      /\ heard' = IF q.op = "link" THEN heard \cup {q.seen.id} ELSE heard
      /\ UNCHANGED <<made, keys, mixed>>
  BY <1>1 DEF CommitChannel
<1>3. /\ threads' \in [Threads -> Thread]
      /\ \A s \in Threads \ {t} : threads'[s] = threads[s]
      /\ \A s \in Threads : /\ Making(s)' <=> s # t /\ Making(s)
                            /\ Writes(s)' <=> s # t /\ Writes(s)
                            /\ Handling(s)' <=> s # t /\ Handling(s)
      /\ threads'[t].stage = "idle"
  BY CloseEffect DEF CommitChannel
<1>4. \A x \in channels :
        /\ New(x) \in Channel /\ New(x).id = x.id /\ New(x).bot = x.bot
        /\ x.target # NoChat => New(x).target # NoChat
        /\ q.op = "link" /\ x.id = q.seen.id => New(x).target # NoChat
        /\ q.op = "link" /\ x.id = q.seen.id /\ ~mixed => New(x).config.status = "active"
        /\ q.op = "renew" => New(x).target = x.target
        /\ q.op = "renew" /\ ~mixed => New(x).config.status = x.config.status
        /\ x.id # q.seen.id => New(x) = x
  BY <1>1, SavedEffect DEF ChatSound, ChatTypeOK
<1>5. q.op \in {"renew", "link"}
  BY <1>1 DEF Writes
<1> HIDE DEF New, q
<1>6. ChatTypeOK'
  <2>1. channels' \subseteq Channel
    BY <1>2, <1>4
  <2>2. ASSUME NEW x \in channels', NEW y \in channels', x.id = y.id PROVE x = y
    <3>1. PICK u \in channels, v \in channels : x = New(u) /\ y = New(v)
      BY <1>2
    <3>2. u = v
      BY <1>4, <2>2, <3>1 DEF ChatSound, ChatTypeOK
    <3> QED
      BY <3>1, <3>2
  <2>3. heard' \subseteq 1..MaxChannels
    <3>1. made \in Nat /\ made <= MaxChannels /\ q.seen.id \in 1..made
      BY <1>1, MessengerConstantsOK DEF ChatSound, ChatTypeOK
    <3>2. q.seen.id \in 1..MaxChannels
      BY <3>1, MessengerConstantsOK
    <3> QED
      BY <1>2, <3>2 DEF ChatSound, ChatTypeOK
  <2> QED
    BY <1>2, <1>3, <2>1, <2>2, <2>3 DEF ChatSound, ChatTypeOK
<1>7. Stages' /\ Numbered'
  <2>1. \A x \in channels' : x.id \in 1..made'
    BY <1>2, <1>4 DEF ChatSound, ChatKnown, Numbered
  <2>2. heard' \subseteq 1..made'
    BY <1>1, <1>2 DEF ChatSound, ChatKnown, Numbered
  <2> QED
    BY <1>2, <1>3, <2>1, <2>2 DEF ChatSound, ChatKnown, Stages, Numbered
<1>8. Unborn'
  BY <1>1, <1>2, <1>3, <1>4 DEF ChatSound, ChatKnown, Unborn, q
<1>9. ThreadCopies'
  BY <1>2, <1>3, <1>4 DEF ChatSound, ChatKnown, ThreadCopies
<1>10. Unmixed'
  <2> SUFFICES ASSUME ~mixed'
               PROVE  /\ \A s, u \in Threads : s # u /\ Handling(s)' /\ Handling(u)' => threads'[u].op # "link"
                      /\ \A s \in Threads : Writes(s)' => \A x \in channels' :
                            x.id = threads'[s].seen.id =>
                              /\ x.target = threads'[s].seen.target
                              /\ x.config.status = threads'[s].seen.config.status
    BY DEF Unmixed
  <2>1. \A s, u \in Threads : s # u /\ Handling(s)' /\ Handling(u)' => threads'[u].op # "link"
    BY <1>2, <1>3 DEF ChatSound, ChatKnown, Unmixed
  <2>2. ASSUME NEW s \in Threads, Writes(s)', NEW x \in channels', x.id = threads'[s].seen.id
        PROVE  x.target = threads'[s].seen.target /\ x.config.status = threads'[s].seen.config.status
    <3>1. s # t /\ Writes(s) /\ threads'[s] = threads[s] /\ ~mixed
      BY <1>2, <1>3, <2>2
    <3>2. q.op = "renew"
      BY <1>1, <1>5, <3>1 DEF ChatSound, ChatKnown, Unmixed, Handling, Writes, q
    <3>3. PICK z \in channels : x = New(z)
      BY <1>2
    <3> QED
      BY <1>4, <2>2, <3>1, <3>2, <3>3 DEF ChatSound, ChatKnown, Unmixed
  <2> QED
    BY <2>1, <2>2
<1>11. ChatStays'
  BY <1>2, <1>4, <1>5 DEF ChatSound, ChatStays
<1> QED
  BY <1>6, <1>7, <1>8, <1>9, <1>10, <1>11 DEF ChatSound, ChatKnown

-----------------------------------------------------------------------------
(* The theorems *)

LEMMA StepInv == ChatSound /\ [ChatNext]_chatVars => ChatSound'
<1> SUFFICES ASSUME ChatSound, [ChatNext]_chatVars PROVE ChatSound'
  OBVIOUS
<1>1. ASSUME NEW t \in Threads, StoreCode(t) PROVE ChatSound'
  <2> DEFINE q == [threads[t] EXCEPT !.stage = "commit"]
  <2>1. threads[t] \in Thread /\ threads[t].stage = "key" /\ Making(t)
    BY <1>1 DEF StoreCode, ChatSound, ChatTypeOK, ChatKnown, Stages, Making
  <2>2. q \in Thread /\ q.stage = "commit" /\ q.row = threads[t].row
        /\ q.op = threads[t].op /\ q.chat = threads[t].chat
    BY <2>1 DEF Thread
  <2>3. threads[t].row.id \in 0..MaxChannels
    BY <2>1, MessengerConstantsOK DEF ChatSound, ChatKnown, Unborn, Channel
  <2>4. keys' \in [Codes -> 0..MaxChannels] /\ UNCHANGED <<channels, made, heard, mixed>>
    BY <1>1, <2>3 DEF StoreCode, ChatSound, ChatTypeOK
  <2>5. threads' = [threads EXCEPT ![t] = q]
    BY <1>1 DEF StoreCode
  <2> HIDE DEF q
  <2> QED
    BY <2>1, <2>2, <2>4, <2>5, StepOn DEF Handling
<1>2. ASSUME NEW t \in Threads, DeleteCode(t) PROVE ChatSound'
  <2> DEFINE q == [threads[t] EXCEPT !.stage = "load"]
  <2>1. threads[t] \in Thread /\ threads[t].stage = "del"
    BY <1>2 DEF DeleteCode, ChatSound, ChatTypeOK
  <2>2. q \in Thread /\ q.stage = "load" /\ q.op = threads[t].op /\ q.chat = threads[t].chat
    BY <2>1 DEF Thread
  <2>3. keys' \in [Codes -> 0..MaxChannels] /\ UNCHANGED <<channels, made, heard, mixed>>
    <3>1. 0 \in 0..MaxChannels
      BY MessengerConstantsOK
    <3>2. keys' = [keys EXCEPT ![threads[t].code] = 0] /\ UNCHANGED <<channels, made, heard, mixed>>
      BY <1>2 DEF DeleteCode
    <3> QED
      BY <3>1, <3>2 DEF ChatSound, ChatTypeOK
  <2>4. threads' = [threads EXCEPT ![t] = q]
    BY <1>2 DEF DeleteCode
  <2> HIDE DEF q
  <2> QED
    BY <2>1, <2>2, <2>3, <2>4, StepOn DEF Handling
<1>3. ASSUME NEW t \in Threads, LoadChannel(t) PROVE ChatSound'
  <2>1. threads[t].stage = "load" /\ UNCHANGED <<channels, made, keys, heard, mixed>>
    BY <1>3 DEF LoadChannel
  <2>2. ASSUME NEW x \in channels,
               threads' = [threads EXCEPT ![t].stage = "commit", ![t].seen = x,
                                          ![t].row = Linked(x, threads[t].chat)]
        PROVE  ChatSound'
    BY <2>1, <2>2, StepLoad
  <2>3. CASE Close(t)
    BY <2>1, <2>3, StepOn, NoThreadType DEF Close, ChatSound, ChatTypeOK
  <2> QED
    BY <1>3, <2>2, <2>3 DEF LoadChannel
<1>4. ASSUME NEW t \in Threads, DropThread(t) PROVE ChatSound'
  BY <1>4, StepOn, NoThreadType DEF DropThread, Close, ChatSound, ChatTypeOK
<1>5. ASSUME NEW t \in Threads, CommitChannel(t) PROVE ChatSound'
  BY <1>5, CommitNew, CommitOld
<1>6. ASSUME NEW t \in Threads, NEW x \in channels, RetryWebhook(t, x) \/ TestNotification(t, x)
      PROVE  ChatSound'
  BY <1>6, StepRenew DEF TestNotification
<1>7. CASE AddSlack \/ AddMatrix
  BY <1>7, StepAdd DEF AddSlack, AddMatrix
<1>8. ASSUME NEW c \in Codes, ExpireCode(c) PROVE ChatSound'
  <2>1. keys' \in [Codes -> 0..MaxChannels] /\ UNCHANGED <<channels, made, threads, heard, mixed>>
    BY <1>8, MessengerConstantsOK DEF ExpireCode, ChatSound, ChatTypeOK
  <2> QED
    BY <2>1 DEF ChatSound, ChatTypeOK, ChatStays, ChatKnown, Stages, Numbered, Unborn, ThreadCopies, Unmixed,
                Making, Writes, Handling
<1>9. CASE UNCHANGED chatVars
  BY <1>9 DEF chatVars, ChatSound, ChatTypeOK, ChatStays, ChatKnown, Stages, Numbered, Unborn, ThreadCopies,
              Unmixed, Making, Writes, Handling
<1> QED
  BY <1>1, <1>2, <1>3, <1>4, <1>5, <1>6, <1>7, <1>8, <1>9, StepLink, StepInit, StepDelete
  DEF ChatNext

LEMMA ChatInv == ChatSpec => []ChatSound
  BY ChatInitSound, StepInv, PTL DEF ChatSpec

\* The types of the messenger connections.
THEOREM ChatTyped == ChatSpec => []ChatTypeOK
  BY ChatInv, PTL DEF ChatSound

\* A bot whose chat was told that it is linked keeps a target, however links,
\* retries and tests overlap, and its status agrees with the target unless a link
\* overlapped with another request.
THEOREM ChatsStay == ChatSpec => []ChatStays
  BY ChatInv, PTL DEF ChatSound

-----------------------------------------------------------------------------
(* The components side by side *)

\* A behaviour of Integrations is one of every component: they share no variable,
\* so that a step of one is none of the others
THEOREM ComponentsAlone == IntegrationsSpec => FlowSpec /\ GroupSpec /\ TeamSpec /\ ChatSpec
<1>1. IntegrationsInit => FlowInit /\ GroupInit /\ TeamInit /\ ChatInit
  BY DEF IntegrationsInit
<1>2. [IntegrationsNext]_integrationVars =>
        [FlowNext]_flowVars /\ [GroupNext]_groupVars /\ [TeamNext]_teamVars /\ [ChatNext]_chatVars
  BY DEF IntegrationsNext, integrationVars
<1> QED
  BY <1>1, <1>2, PTL DEF IntegrationsSpec, FlowSpec, GroupSpec, TeamSpec, ChatSpec

\* Every component's state keeps its type, for any number of connections, requests,
\* flows, tokens, people, processes, channels and chats (integrations_gitlab.py,
\* gitlab_group.py, tenants.py, init_db.py, integrations_messengers.py)
THEOREM IntegrationsTyped == IntegrationsSpec => []IntegrationsTypeOK
<1>1. FlowTypeOK /\ GroupTypeOK /\ TeamTypeOK /\ ChatTypeOK => IntegrationsTypeOK
  BY DEF IntegrationsTypeOK
<1> QED
  BY <1>1, ComponentsAlone, FlowTypeCorrect, GroupTyped, TeamTyped, ChatTyped, PTL

\* What each component promises it keeps next to the others: the specification that
\* TLC checks has the safety properties that are proved of its parts
THEOREM IntegrationsSafe ==
    IntegrationsSpec => /\ [](ToldTrue /\ AppAgrees /\ GroupUsable)
                        /\ [](RemovedStaysOut /\ BootOnce /\ AdminStays /\ ChatStays)
                        /\ ErrorOnlyExhausted /\ GroupAgrees
BY ComponentsAlone, AlwaysToldTrue, AppAlwaysAgrees, GroupStaysUsable, ErrorsOnlyExhausted,
   GroupsAgree, RemovedStayOut, OneBootstrap, AnAdminStays, ChatsStay, PTL
=============================================================================
