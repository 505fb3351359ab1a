-------------------------- MODULE CIConnectionProofs --------------------------
(***************************************************************************)
(* What is proved of the connections of a project, at any of the five      *)
(* providers, for any number of requests, hooks and faults: the types      *)
(* (TypeOK), that a stale commit does not switch a row on (OffStaysOff),   *)
(* that GitLab gets no second hook (OneHook), that a hook that a row knows *)
(* was registered with the row's secret where the code keeps them together *)
(* (SecretAgrees), and, as long as no call fails and no two requests       *)
(* overlap, that an active connection has a hook (ActiveHasHook) and that  *)
(* GitLab's hook has a row (HooksKnown).                                   *)
(*                                                                         *)
(* Typed says that what is remembered is finite, so that Unused is free,   *)
(* and that a row in the making has an id of its own.                      *)
(*                                                                         *)
(* A request handles its row by one of many branches, each a set of        *)
(* answers. Follows is what every branch does to the hooks and the row;    *)
(* Safe, that a row and the hook it knows share a secret afterwards if     *)
(* they did before; Single, that a request with the true list of hooks     *)
(* leaves one; Settles, that a row which promises a hook afterwards has    *)
(* one if it had one before. They are proved of each provider's branches   *)
(* and once for Handled, which the step Call takes.                        *)
(*                                                                         *)
(* Listing follows the list of hooks of a lone request. Agreement follows  *)
(* every copy of a row: a commit writes only what its request has changed  *)
(* over what another one has committed, so the copies of all requests must *)
(* agree with the hooks, and each request changes hook and secret together *)
(* (Paces). Service looks ahead: between its call and its commit a request *)
(* has changed the hooks and not yet the row, so the rows must be sound as *)
(* its commit will leave them (Left), though a delivery may still come     *)
(* between (SameRow).                                                      *)
(***************************************************************************)
EXTENDS CIConnection, FiniteSetTheorems, TLAPS

\* A work record; the numbers of its hooks are in use
WorkType == [row : Row, hooks : SUBSET Hook, listed : SUBSET Hook, used : SUBSET Nat,
             faults : Nat, lost : BOOLEAN, raised : BOOLEAN]

Fits(w) ==
    /\ w \in WorkType /\ IsFiniteSet(w.used)
    /\ \A h \in w.hooks \cup w.listed : h.id # 0 /\ {h.id, h.secret} \subseteq w.used

\* What a call may do to the hooks and the row
Follows(w, x) ==
    /\ Fits(x) /\ x.listed = w.listed /\ w.used \subseteq x.used
    /\ x.row.id = w.row.id /\ x.row.seen = w.row.seen
    /\ x.faults >= w.faults /\ (w.lost => x.lost) /\ (w.raised => x.raised)
    /\ \A h \in x.hooks : h \in w.hooks \/ (h.by = "app" /\ h.id \notin w.used)

-----------------------------------------------------------------------------
(* Lemmas about the calls *)

\* There is a number that is not in use
LEMMA UnusedIsFree ==
    ASSUME NEW S, IsFiniteSet(S)
    PROVE  Unused(S) \in Nat /\ Unused(S) # 0 /\ Unused(S) \notin S
<1> DEFINE n == Cardinality(S)
           I == 1..n + 1
<1>1. n \in Nat
  BY FS_CardinalityType
<1>2. IsFiniteSet(I) /\ Cardinality(I) = n + 1
  <2> HIDE DEF n
  <2>1. 1 \in Int /\ n + 1 \in Int
    BY <1>1
  <2> QED BY <1>1, <2>1, FS_Interval
<1>3. \E i \in I : i \notin S
  <2> SUFFICES ASSUME I \subseteq S
               PROVE  FALSE
    OBVIOUS
  <2>1. Cardinality(I) <= n
    BY FS_Subset
  <2> HIDE DEF n, I
  <2> QED BY <1>1, <1>2, <2>1
<1>4. Unused(S) \in I /\ Unused(S) \notin S
  BY <1>3 DEF Unused
<1>5. I \subseteq Nat \ {0}
  <2> HIDE DEF n
  <2> QED BY <1>1
<1> QED BY <1>4, <1>5

LEMMA FollowsItself ==
    ASSUME NEW w, Fits(w)
    PROVE  Follows(w, w)
BY DEF Follows, Fits, WorkType

LEMMA FollowsOn ==
    ASSUME NEW w, NEW x, NEW y, Fits(w), Follows(w, x), Follows(x, y)
    PROVE  Follows(w, y)
BY DEF Follows, Fits, WorkType

\* A secret that is made is free
LEMMA SecretIsFree ==
    ASSUME NEW w, Fits(w)
    PROVE  /\ Secret(w) \in Nat \ {0} /\ Secret(w) \notin w.used
           /\ Made(w) \in Nat \ {0} /\ Made(w) \notin w.used /\ Made(w) # Secret(w)
<1>1. IsFiniteSet(w.used) /\ IsFiniteSet(w.used \cup {Secret(w)})
  BY FS_AddElement DEF Fits
<1> QED BY <1>1, UnusedIsFree DEF Secret, Made

\* A hook is made: the hooks and what it has used
LEMMA Adds ==
    ASSUME NEW w, Fits(w), NEW s \in Nat
    PROVE  /\ Follows(w, Add(w, s)) /\ Add(w, s).row = w.row
           /\ Add(w, s).raised = w.raised /\ Add(w, s).lost = w.lost
           /\ Add(w, s).faults = w.faults
           /\ s \in Add(w, s).used /\ Made(w) \in Add(w, s).used
           /\ \E h \in Hook : /\ h.id = Made(w) /\ h.secret = s /\ h.by = "app"
                              /\ Add(w, s).hooks = w.hooks \cup {h}
<1>1. PICK id : id = Made(w)
  OBVIOUS
<1>2. id \in Nat \ {0} /\ id \notin w.used
  BY <1>1, SecretIsFree
<1>3. PICK h \in Hook : h = [id |-> id, secret |-> s, by |-> "app"]
  BY <1>2 DEF Hook
<1>4. PICK x : x = [w EXCEPT !.hooks = w.hooks \cup {h}, !.used = w.used \cup {id, s}]
  OBVIOUS
<1>5. x = Add(w, s)
  BY <1>1, <1>3, <1>4 DEF Add
<1>6. IsFiniteSet(w.used \cup {id, s})
  <2>1. w.used \cup {id, s} = (w.used \cup {id}) \cup {s}
    OBVIOUS
  <2> QED BY <2>1, FS_AddElement DEF Fits
<1>7. /\ x \in WorkType /\ x.row = w.row /\ x.listed = w.listed
      /\ x.raised = w.raised /\ x.lost = w.lost /\ x.faults = w.faults
      /\ x.hooks = w.hooks \cup {h} /\ x.used = w.used \cup {id, s}
  BY <1>2, <1>4 DEF Fits, WorkType
<1>8. Fits(x)
  BY <1>2, <1>3, <1>6, <1>7 DEF Fits
<1>9. Follows(w, x)
  BY <1>2, <1>3, <1>7, <1>8 DEF Follows, Fits, WorkType
<1> QED BY <1>1, <1>3, <1>5, <1>7, <1>9

\* Records that differ in what is counted
LEMMA Faults ==
    ASSUME NEW w, Fits(w)
    PROVE  /\ Follows(w, Fault(w)) /\ Fault(w).row = w.row /\ Fault(w).hooks = w.hooks
           /\ Fault(w).faults = w.faults + 1 /\ Fault(w).lost = w.lost
           /\ Fault(w).raised = w.raised /\ Fault(w).used = w.used
<1>1. /\ Fault(w) \in WorkType /\ Fault(w).used = w.used /\ Fault(w).listed = w.listed
      /\ Fault(w).row = w.row /\ Fault(w).hooks = w.hooks /\ Fault(w).faults = w.faults + 1
      /\ Fault(w).lost = w.lost /\ Fault(w).raised = w.raised
  BY DEF Fault, Fits, WorkType
<1> QED BY <1>1 DEF Follows, Fits, WorkType

LEMMA Loses ==
    ASSUME NEW w, Fits(w)
    PROVE  /\ Follows(w, Lose(w)) /\ Lose(w).row = w.row /\ Lose(w).hooks = w.hooks
           /\ Lose(w).faults = w.faults + 1 /\ Lose(w).lost = TRUE
           /\ Lose(w).raised = w.raised /\ Lose(w).used = w.used
<1>1. Fault(w) \in WorkType /\ Fault(w).listed = w.listed
  BY Faults DEF Follows, Fits
<1>2. /\ Lose(w) \in WorkType /\ Lose(w).used = w.used /\ Lose(w).listed = w.listed
      /\ Lose(w).row = w.row /\ Lose(w).hooks = w.hooks /\ Lose(w).faults = w.faults + 1
      /\ Lose(w).lost = TRUE /\ Lose(w).raised = w.raised
  BY <1>1, Faults DEF Lose, WorkType
<1> QED BY <1>2 DEF Follows, Fits, WorkType

LEMMA Raises ==
    ASSUME NEW w, Fits(w)
    PROVE  /\ Follows(w, Raise(w)) /\ Raise(w).row = w.row /\ Raise(w).hooks = w.hooks
           /\ Raise(w).faults = w.faults /\ Raise(w).lost = w.lost /\ Raise(w).raised = TRUE
<1>1. /\ Raise(w) \in WorkType /\ Raise(w).used = w.used /\ Raise(w).listed = w.listed
      /\ Raise(w).row = w.row /\ Raise(w).hooks = w.hooks /\ Raise(w).faults = w.faults
      /\ Raise(w).lost = w.lost /\ Raise(w).raised = TRUE
  BY DEF Raise, Fits, WorkType
<1> QED BY <1>1 DEF Follows, Fits, WorkType

\* An answer to a POST: what was made carries the secret and has a free number
Answers(w, s, a) ==
    /\ Follows(w, a.w) /\ a.w.row = w.row /\ a.w.raised = w.raised
    /\ a.id # 0 => a.id \in a.w.used \ w.used
    /\ w.hooks \subseteq a.w.hooks
    /\ \A h \in a.w.hooks : h \in w.hooks \/ h.secret = s
    /\ a.id # 0 => s \in a.w.used /\ \E h \in a.w.hooks : h.id = a.id
    /\ \/ a.w.lost /\ a.w.faults > w.faults
       \/ a.w.lost = w.lost /\ a.w.faults > w.faults /\ a.id = 0 /\ a.w.hooks = w.hooks
       \/ /\ a.w.lost = w.lost /\ a.w.faults = w.faults
          /\ \E h \in Hook : h.id = a.id /\ a.w.hooks = w.hooks \cup {h}

LEMMA PostAnswers ==
    ASSUME NEW w, Fits(w), NEW s \in Nat, NEW a \in Posted(w, s)
    PROVE  a.id \in Nat /\ Answers(w, s, a)
<1>1. PICK made : made = Add(w, s)
  OBVIOUS
<1>2. /\ Follows(w, made) /\ made.row = w.row /\ made.raised = w.raised /\ made.lost = w.lost
      /\ made.faults = w.faults /\ s \in made.used /\ Made(w) \in made.used /\ Fits(made)
      /\ \E h \in Hook : /\ h.id = Made(w) /\ h.secret = s /\ h.by = "app"
                         /\ made.hooks = w.hooks \cup {h}
  BY <1>1, Adds DEF Follows
<1>3. Made(w) \in Nat \ {0} /\ Made(w) \notin w.used
  BY SecretIsFree
<1>4. PICK twice : twice = Add(made, s)
  OBVIOUS
<1>5. /\ Follows(made, twice) /\ twice.row = w.row /\ twice.raised = w.raised
      /\ twice.lost = w.lost /\ twice.faults = w.faults /\ s \in twice.used
      /\ Made(made) \in twice.used /\ Fits(twice) /\ Follows(w, twice)
      /\ \E h \in Hook : /\ h.id = Made(made) /\ h.secret = s /\ h.by = "app"
                         /\ twice.hooks = made.hooks \cup {h}
  BY <1>2, <1>4, Adds, FollowsOn DEF Follows
<1>6. Made(made) \in Nat \ {0} /\ Made(made) \notin w.used
  BY <1>2, SecretIsFree DEF Follows
<1>7. \/ a = [w |-> made, id |-> Made(w)]
      \/ a = [w |-> Fault(w), id |-> 0]
      \/ a = [w |-> Lose(made), id |-> 0]
      \/ a = [w |-> Lose(twice), id |-> Made(made)]
  BY <1>1, <1>4 DEF Posted
<1>8. CASE a = [w |-> made, id |-> Made(w)]
  BY <1>2, <1>3, <1>8 DEF Answers
<1>9. CASE a = [w |-> Fault(w), id |-> 0]
  <2>1. a.w = Fault(w) /\ a.id = 0 /\ w.faults \in Nat
    BY <1>9 DEF Fits, WorkType
  <2>2. /\ Follows(w, a.w) /\ a.w.row = w.row /\ a.w.hooks = w.hooks /\ a.w.lost = w.lost
        /\ a.w.faults = w.faults + 1 /\ a.w.raised = w.raised
    BY <2>1, Faults
  <2> QED BY <2>1, <2>2 DEF Answers
<1>10. CASE a = [w |-> Lose(made), id |-> 0]
  <2>1. a.w = Lose(made) /\ a.id = 0 /\ w.faults \in Nat
    BY <1>10 DEF Fits, WorkType
  <2>2. /\ Follows(made, a.w) /\ a.w.row = w.row /\ a.w.hooks = made.hooks
        /\ a.w.faults = w.faults + 1 /\ a.w.raised = w.raised /\ a.w.lost = TRUE
    BY <1>2, <2>1, Loses
  <2>3. Follows(w, a.w)
    BY <1>2, <2>2, FollowsOn
  <2> QED BY <1>2, <2>1, <2>2, <2>3 DEF Answers
<1>11. CASE a = [w |-> Lose(twice), id |-> Made(made)]
  <2>1. a.w = Lose(twice) /\ a.id = Made(made) /\ w.faults \in Nat
    BY <1>11 DEF Fits, WorkType
  <2>2. /\ Follows(twice, a.w) /\ a.w.row = twice.row /\ a.w.hooks = twice.hooks
        /\ a.w.faults = twice.faults + 1 /\ a.w.raised = twice.raised /\ a.w.used = twice.used
        /\ a.w.lost = TRUE
    BY <1>5, <2>1, Loses
  <2>3. Follows(w, a.w)
    BY <1>5, <2>2, FollowsOn
  <2> QED BY <1>2, <1>5, <1>6, <2>1, <2>2, <2>3 DEF Answers
<1> QED BY <1>7, <1>8, <1>9, <1>10, <1>11

\* An answer that is none
Unheard(w, a) ==
    /\ Follows(w, a.w) /\ a.w.row = w.row /\ a.w.hooks = w.hooks /\ a.w.lost = w.lost
    /\ a.w.faults > w.faults /\ a.id = 0

\* GitLab's client answers with a hook of the list, or with the hook it has made
\* where a list was empty, or cannot list them
LEMMA GitLabAnswers ==
    ASSUME NEW w, Fits(w), NEW s \in Nat, NEW a \in GitLabRegister(w, s)
    PROVE  /\ a.id \in Nat
           /\ \/ (w.listed = {} \/ w.hooks = {}) /\ Answers(w, s, a)
              \/ a.w = w /\ \E h \in w.listed \cup w.hooks : a.id = h.id
              \/ Unheard(w, a)
<1>1. CASE a = [w |-> Fault(w), id |-> 0]
  <2>1. a.w = Fault(w) /\ a.id = 0 /\ w.faults \in Nat
    BY <1>1 DEF Fits, WorkType
  <2>2. /\ Follows(w, a.w) /\ a.w.row = w.row /\ a.w.hooks = w.hooks /\ a.w.lost = w.lost
        /\ a.w.faults = w.faults + 1
    BY <2>1, Faults
  <2> QED BY <2>1, <2>2 DEF Unheard
<1>2. CASE a # [w |-> Fault(w), id |-> 0]
  <2>1. PICK list \in {w.listed, w.hooks} :
          a \in IF list = {} THEN Posted(w, s) ELSE {[w |-> w, id |-> h.id] : h \in list}
    BY <1>2 DEF GitLabRegister, Unlisted
  <2>2. CASE list = {}
    BY <2>1, <2>2, PostAnswers
  <2>3. CASE list # {}
    <3>1. PICK h \in list : a = [w |-> w, id |-> h.id]
      BY <2>1, <2>3
    <3>2. h \in Hook /\ h \in w.listed \cup w.hooks
      BY <3>1 DEF Fits, WorkType
    <3> QED BY <3>1, <3>2 DEF Hook
  <2> QED BY <2>2, <2>3
<1> QED BY <1>1, <1>2

\* An answer to a DELETE: nothing else is removed
Removes(w, d) ==
    /\ Follows(w, d.w) /\ d.w.row = w.row /\ d.w.raised = w.raised
    /\ d.w.used = w.used /\ d.w.lost = w.lost /\ d.w.hooks \subseteq w.hooks
    /\ \A h \in w.hooks : h.id # w.row.hook => h \in d.w.hooks
    /\ d.says = "ok" => \A h \in d.w.hooks : h.id # w.row.hook
    /\ d.w.faults = w.faults => d.says = "ok"

LEMMA DeleteRemoves ==
    ASSUME NEW w, Fits(w), NEW d \in Deleted(w)
    PROVE  Removes(w, d) /\ d.says \in {"ok", "status", "exception"}
<1>1. PICK left : left = {h \in w.hooks : h.id # w.row.hook}
  OBVIOUS
<1>2. PICK gone : gone = [w EXCEPT !.hooks = left]
  OBVIOUS
<1>3. /\ gone \in WorkType /\ gone.hooks = left /\ gone.row = w.row /\ gone.used = w.used
      /\ gone.listed = w.listed /\ gone.faults = w.faults /\ gone.lost = w.lost
      /\ gone.raised = w.raised
  BY <1>1, <1>2 DEF Fits, WorkType
<1>4. Fits(gone) /\ Follows(w, gone)
  BY <1>1, <1>3 DEF Follows, Fits, WorkType
<1>5. \/ d = [w |-> gone, says |-> "ok"]
      \/ d = [w |-> Fault(w), says |-> "status"]
      \/ d = [w |-> Fault(w), says |-> "exception"]
      \/ d = [w |-> Fault(gone), says |-> "exception"]
  BY <1>1, <1>2 DEF Deleted
<1>6. CASE d = [w |-> gone, says |-> "ok"]
  BY <1>1, <1>3, <1>4, <1>6 DEF Removes
<1>7. CASE d.w = Fault(w) /\ d.says \in {"status", "exception"}
  <2>1. /\ Follows(w, d.w) /\ d.w.row = w.row /\ d.w.hooks = w.hooks /\ d.w.lost = w.lost
        /\ d.w.faults = w.faults + 1 /\ d.w.raised = w.raised /\ d.w.used = w.used
    BY <1>7, Faults
  <2>2. d.w.faults # w.faults
    BY <2>1 DEF Fits, WorkType
  <2> QED BY <1>7, <2>1, <2>2 DEF Removes
<1>8. CASE d = [w |-> Fault(gone), says |-> "exception"]
  <2>1. d.w = Fault(gone) /\ d.says = "exception"
    BY <1>8
  <2>2. /\ Follows(gone, d.w) /\ d.w.row = w.row /\ d.w.hooks = left /\ d.w.lost = w.lost
        /\ d.w.faults = w.faults + 1 /\ d.w.raised = w.raised /\ d.w.used = w.used
    BY <1>3, <1>4, <2>1, Faults
  <2>3. Follows(w, d.w) /\ d.w.faults # w.faults
    BY <1>4, <2>2, FollowsOn DEF Fits, WorkType
  <2> QED BY <1>1, <2>1, <2>2, <2>3 DEF Removes
<1> QED BY <1>5, <1>6, <1>7, <1>8

LEMMA GitLabRemoves ==
    ASSUME NEW w, Fits(w), NEW d \in GitLabDelete(w)
    PROVE  Removes(w, d)
<1>1. CASE d \in Deleted(w)
  BY <1>1, DeleteRemoves
<1>2. CASE d \notin Deleted(w)
  <2>1. PICK e \in Deleted(w) :
          /\ e.says = "status" /\ w.row.hook \notin {h.id : h \in e.w.hooks}
          /\ d = [w |-> e.w, says |-> "ok"]
    BY <1>2 DEF GitLabDelete
  <2>2. Removes(w, e)
    BY DeleteRemoves
  <2>3. d.w = e.w /\ d.says = "ok" /\ \A h \in d.w.hooks : h.id # w.row.hook
    BY <2>1
  <2> QED BY <2>2, <2>3 DEF Removes
<1> QED BY <1>1, <1>2

\* The row is written and nothing else
Rewrites(w, x) ==
    /\ Follows(w, x) /\ x.hooks = w.hooks /\ x.used = w.used /\ x.faults = w.faults
    /\ x.lost = w.lost /\ x.raised = w.raised

WithRow(w, y) == [w EXCEPT !.row = y]

LEMMA RowRewritten ==
    ASSUME NEW w, Fits(w), NEW y \in Row, y.id = w.row.id, y.seen = w.row.seen
    PROVE  Rewrites(w, WithRow(w, y)) /\ WithRow(w, y).row = y
<1>1. PICK x : x = WithRow(w, y)
  OBVIOUS
<1>2. /\ x \in WorkType /\ x.row = y /\ x.hooks = w.hooks /\ x.used = w.used
      /\ x.listed = w.listed /\ x.faults = w.faults /\ x.lost = w.lost /\ x.raised = w.raised
  BY <1>1 DEF WithRow, Fits, WorkType
<1>3. Follows(w, x)
  BY <1>2 DEF Follows, Fits, WorkType
<1> QED BY <1>1, <1>2, <1>3 DEF Rewrites

Statuses == {"pending_manual", "active", "error", "disabled"}

LEMMA StatusRewritten ==
    ASSUME NEW w, Fits(w), NEW status \in Statuses
    PROVE  Rewrites(w, Is(w, status)) /\ Is(w, status).row = [w.row EXCEPT !.status = status]
<1>1. PICK y : y = [w.row EXCEPT !.status = status]
  OBVIOUS
<1>2. y \in Row /\ y.id = w.row.id /\ y.seen = w.row.seen
  BY <1>1 DEF Statuses, Row, Fits, WorkType
<1>3. Is(w, status) = WithRow(w, y)
  BY <1>1 DEF Is, WithRow
<1>4. Rewrites(w, WithRow(w, y)) /\ WithRow(w, y).row = y
  BY <1>2, RowRewritten
<1> QED BY <1>1, <1>3, <1>4

LEMMA Switched ==
    ASSUME NEW w, Fits(w)
    PROVE  /\ Rewrites(w, On(w))
           /\ On(w).row = [w.row EXCEPT !.enabled = TRUE, !.status = "active"]
           /\ Rewrites(w, Off(w))
           /\ Off(w).row = [w.row EXCEPT !.enabled = FALSE, !.status = "disabled"]
           /\ Rewrites(w, Cleared(w))
           /\ Cleared(w).row = [w.row EXCEPT !.hook = 0, !.secret = 0]
<1>1. PICK y : y = [w.row EXCEPT !.enabled = TRUE, !.status = "active"]
  OBVIOUS
<1>2. PICK z : z = [w.row EXCEPT !.enabled = FALSE, !.status = "disabled"]
  OBVIOUS
<1>3. PICK u : u = [w.row EXCEPT !.hook = 0, !.secret = 0]
  OBVIOUS
<1>4. /\ y \in Row /\ y.id = w.row.id /\ y.seen = w.row.seen
      /\ z \in Row /\ z.id = w.row.id /\ z.seen = w.row.seen
      /\ u \in Row /\ u.id = w.row.id /\ u.seen = w.row.seen
  BY <1>1, <1>2, <1>3 DEF Row, Fits, WorkType
<1>5. On(w) = WithRow(w, y)
  BY <1>1 DEF WithRow, On, Fits, WorkType
<1>6. Off(w) = WithRow(w, z)
  BY <1>2 DEF WithRow, Off, Fits, WorkType
<1>7. Cleared(w) = WithRow(w, u)
  BY <1>3 DEF WithRow, Cleared, Fits, WorkType
<1>8. Rewrites(w, On(w)) /\ On(w).row = y
  BY <1>4, <1>5, RowRewritten
<1>9. Rewrites(w, Off(w)) /\ Off(w).row = z
  BY <1>4, <1>6, RowRewritten
<1>10. Rewrites(w, Cleared(w)) /\ Cleared(w).row = u
  BY <1>4, <1>7, RowRewritten
<1> QED BY <1>1, <1>2, <1>3, <1>8, <1>9, <1>10

LEMMA HookStored ==
    ASSUME NEW a, Fits(a.w), a.id \in Nat, NEW s \in Nat
    PROVE  /\ Rewrites(a.w, Stored(a, s))
           /\ Stored(a, s).row = [a.w.row EXCEPT !.hook = a.id, !.secret = s]
<1>1. PICK w, i : w = a.w /\ i = a.id
  OBVIOUS
<1>2. PICK y : y = [w.row EXCEPT !.hook = i, !.secret = s]
  OBVIOUS
<1>3. y \in Row /\ y.id = w.row.id /\ y.seen = w.row.seen
  BY <1>1, <1>2 DEF Row, Fits, WorkType
<1>4. Stored(a, s) = WithRow(w, y)
  BY <1>1, <1>2 DEF WithRow, Stored, Fits, WorkType
<1>5. Fits(w)
  BY <1>1
<1>6. Rewrites(w, Stored(a, s)) /\ Stored(a, s).row = y
  BY <1>3, <1>4, <1>5, RowRewritten
<1> QED BY <1>1, <1>2, <1>6

LEMMA RewritesOn ==
    ASSUME NEW w, NEW x, NEW y, Fits(w), Rewrites(w, x), Rewrites(x, y)
    PROVE  Rewrites(w, y)
BY FollowsOn DEF Rewrites

LEMMA FollowsRewritten ==
    ASSUME NEW w, NEW x, NEW y, Fits(w), Follows(w, x), Rewrites(x, y)
    PROVE  Follows(w, y)
BY FollowsOn DEF Rewrites

-----------------------------------------------------------------------------
(* Hooks and secrets of the row that a request works on *)

\* The numbers of the row are in use, and its hook has its secret
Owns(w) == {w.row.hook, w.row.secret} \subseteq w.used \cup {0}
Keeps(w) == \A h \in w.hooks : w.row.hook = h.id => w.row.secret = h.secret

\* Hook and secret change together, or both are forgotten
Together(w, x) ==
    \/ x.row.hook = w.row.hook /\ x.row.secret = w.row.secret
    \/ /\ x.row.hook = 0 /\ x.row.secret = 0
       /\ w.row.hook # 0 \/ provider = "github"
    \/ x.row.hook \notin w.used \cup {0} /\ x.row.secret \notin w.used \cup {0}

Safe(w, x) ==
    /\ Follows(w, x)
    /\ Owns(w) /\ Keeps(w) => Owns(x) /\ Keeps(x) /\ Together(w, x)

LEMMA SafeWhenSame ==
    ASSUME NEW w, NEW x, Fits(w), Follows(w, x),
           x.row.hook = w.row.hook, x.row.secret = w.row.secret
    PROVE  Safe(w, x)
<1>1. \A h \in x.hooks : h \in w.hooks \/ h.id \notin w.used \cup {0}
  BY DEF Follows, Fits
<1> QED BY <1>1 DEF Safe, Owns, Keeps, Together, Follows

LEMMA SafeWhenCleared ==
    ASSUME NEW w, NEW x, Fits(w), Follows(w, x), w.row.hook # 0,
           x.row.hook = 0, x.row.secret = 0
    PROVE  Safe(w, x)
<1>1. \A h \in x.hooks : h.id # 0
  BY DEF Follows, Fits
<1> QED BY <1>1 DEF Safe, Owns, Keeps, Together

LEMMA SafeWhenStored ==
    ASSUME NEW w, NEW x, NEW a, NEW s, Fits(w), s = Secret(w), Answers(w, s, a), a.id # 0,
           Rewrites(a.w, x), x.row.hook = a.id, x.row.secret = s
    PROVE  Safe(w, x)
<1>1. Follows(w, x) /\ x.used = a.w.used /\ x.hooks = a.w.hooks
  BY FollowsRewritten DEF Answers, Rewrites
<1>2. s \notin w.used \cup {0} /\ a.id \in a.w.used \ w.used /\ s \in a.w.used
  BY SecretIsFree DEF Answers
<1>3. \A h \in w.hooks : h.id \in w.used
  BY DEF Fits
<1>4. \A h \in x.hooks : h.id = a.id => h.secret = s
  BY <1>1, <1>2, <1>3 DEF Answers
<1> QED BY <1>1, <1>2, <1>4 DEF Safe, Owns, Keeps, Together

LEMMA SafeOn ==
    ASSUME NEW w, NEW x, NEW y, Fits(w), Safe(w, x), Safe(x, y), provider = "github"
    PROVE  Safe(w, y)
<1>1. Follows(w, y) /\ w.used \subseteq x.used
  BY FollowsOn DEF Safe, Follows
<1>2. ASSUME Owns(w), Keeps(w)
      PROVE  Owns(y) /\ Keeps(y) /\ Together(w, y)
  <2>1. Together(w, x) /\ Together(x, y) /\ Owns(y) /\ Keeps(y)
    BY <1>2 DEF Safe
  <2> QED BY <1>1, <2>1 DEF Together
<1> QED BY <1>1, <1>2 DEF Safe

-----------------------------------------------------------------------------
(* What the operations make of the answers *)

Replies(w, answers) ==
    \A a \in answers : a.id \in Nat /\ Follows(w, a.w) /\ a.w.row = w.row

\* The row keeps its hook and its secret
Alike(x, y) == y.hook = x.hook /\ y.secret = x.secret /\ y.key = x.key

\* What a watch makes of an answer
WatchedTo(w, a, x) ==
    /\ Rewrites(a.w, x) /\ x.row.key = w.row.key
    /\ a.id = 0 => x.row.hook = w.row.hook
    /\ a.id # 0 => x.row.hook = a.id /\ x.row.secret = Secret(w)

LEMMA WatchedByIs ==
    ASSUME NEW w, Fits(w), NEW answers, Replies(w, answers), NEW x \in WatchedBy(w, answers)
    PROVE  \/ Rewrites(w, x) /\ Alike(w.row, x.row)
           \/ \E a \in answers : WatchedTo(w, a, x)
<1>1. CASE w.row.mode \notin HookModes
  <2>1. x = Is(w, "active")
    BY <1>1 DEF WatchedBy
  <2>2. Rewrites(w, x) /\ x.row = [w.row EXCEPT !.status = "active"]
    BY <2>1, StatusRewritten DEF Statuses
  <2>3. Alike(w.row, x.row)
    BY <2>2 DEF Alike, Fits, WorkType, Row
  <2> QED BY <2>2, <2>3
<1>2. CASE w.row.mode \in HookModes
  <2>1. PICK s \in Nat : s = Secret(w)
    BY SecretIsFree
  <2>2. PICK a \in answers :
          x = IF a.id = 0 THEN Is([a.w EXCEPT !.row.secret = s], "error")
              ELSE Is(Stored(a, s), "active")
    BY <1>2, <2>1 DEF WatchedBy
  <2>3. PICK v : v = a.w
    OBVIOUS
  <2>4. a.id \in Nat /\ Fits(v) /\ v.row = w.row
    BY <2>3 DEF Replies, Follows
  <2>5. CASE a.id = 0
    <3>1. PICK y : y = [v.row EXCEPT !.secret = s]
      OBVIOUS
    <3>2. PICK u : u = [v EXCEPT !.row.secret = s]
      OBVIOUS
    <3>3. y \in Row /\ y.id = v.row.id /\ y.seen = v.row.seen /\ u = WithRow(v, y)
      BY <2>4, <3>1, <3>2 DEF WithRow, Row, Fits, WorkType
    <3>4. Rewrites(v, u) /\ u.row = y /\ Fits(u)
      BY <2>4, <3>3, RowRewritten DEF Rewrites, Follows
    <3>5. x = Is(u, "error")
      BY <2>2, <2>3, <2>5, <3>2
    <3>6. Rewrites(u, x) /\ x.row = [u.row EXCEPT !.status = "error"]
      BY <3>4, <3>5, StatusRewritten DEF Statuses
    <3>7. Rewrites(v, x)
      BY <2>4, <3>4, <3>6, RewritesOn
    <3>8. x.row = [w.row EXCEPT !.secret = s, !.status = "error"]
      BY <2>4, <3>1, <3>4, <3>6
    <3>9. x.row.key = w.row.key /\ x.row.hook = w.row.hook
      BY <3>8 DEF Fits, WorkType, Row
    <3> QED BY <2>2, <2>3, <2>5, <3>7, <3>9 DEF WatchedTo
  <2>6. CASE a.id # 0
    <3>1. PICK u : u = Stored(a, s)
      OBVIOUS
    <3>2. Rewrites(v, u) /\ u.row = [v.row EXCEPT !.hook = a.id, !.secret = s] /\ Fits(u)
      <4>1. Fits(a.w)
        BY <2>3, <2>4
      <4>2. Rewrites(a.w, u) /\ u.row = [a.w.row EXCEPT !.hook = a.id, !.secret = s]
        BY <2>4, <3>1, <4>1, HookStored
      <4> QED BY <2>3, <4>2 DEF Rewrites, Follows
    <3>3. Rewrites(u, x) /\ x.row = [u.row EXCEPT !.status = "active"]
      BY <2>2, <2>6, <3>1, <3>2, StatusRewritten DEF Statuses
    <3>4. Rewrites(v, x)
      BY <2>4, <3>2, <3>3, RewritesOn
    <3>5. x.row = [w.row EXCEPT !.hook = a.id, !.secret = s, !.status = "active"]
      BY <2>4, <3>2, <3>3
    <3>6. x.row.key = w.row.key /\ x.row.hook = a.id /\ x.row.secret = s
      BY <2>4, <3>5 DEF Fits, WorkType, Row
    <3> QED BY <2>1, <2>2, <2>3, <2>6, <3>4, <3>6 DEF WatchedTo
  <2> QED BY <2>5, <2>6
<1> QED BY <1>1, <1>2

\* What webhook/init makes of an answer
InitedTo(w, a, x) ==
    /\ a.id = 0 => x = a.w
    /\ a.id # 0 => /\ Rewrites(a.w, x) /\ x.row.key = w.row.key
                   /\ x.row.hook = a.id /\ x.row.secret = w.row.secret

LEMMA InitByIs ==
    ASSUME NEW w, Fits(w), NEW answers, Replies(w, answers), NEW x \in InitBy(w, answers)
    PROVE  x = w \/ \E a \in answers : InitedTo(w, a, x)
<1>1. CASE x # w
  <2>1. PICK a \in answers :
          x = IF a.id = 0 THEN a.w ELSE Is([a.w EXCEPT !.row.hook = a.id], "active")
    BY <1>1 DEF InitBy
  <2>2. PICK v, i : v = a.w /\ i = a.id
    OBVIOUS
  <2>3. i \in Nat /\ Fits(v) /\ v.row = w.row
    BY <2>2 DEF Replies, Follows
  <2>4. CASE i # 0
    <3>1. PICK y : y = [v.row EXCEPT !.hook = i]
      OBVIOUS
    <3>2. PICK u : u = [v EXCEPT !.row.hook = i]
      OBVIOUS
    <3>3. y \in Row /\ y.id = v.row.id /\ y.seen = v.row.seen /\ u = WithRow(v, y)
      BY <2>3, <3>1, <3>2 DEF WithRow, Row, Fits, WorkType
    <3>4. Rewrites(v, u) /\ u.row = y /\ Fits(u)
      BY <2>3, <3>3, RowRewritten DEF Rewrites, Follows
    <3>5. x = Is(u, "active")
      BY <2>1, <2>2, <2>4, <3>2
    <3>6. Rewrites(u, x) /\ x.row = [u.row EXCEPT !.status = "active"]
      BY <3>4, <3>5, StatusRewritten DEF Statuses
    <3>7. Rewrites(v, x)
      BY <2>3, <3>4, <3>6, RewritesOn
    <3>8. x.row = [w.row EXCEPT !.hook = i, !.status = "active"]
      BY <2>3, <3>1, <3>4, <3>6
    <3>9. x.row.key = w.row.key /\ x.row.hook = i /\ x.row.secret = w.row.secret
      BY <2>3, <3>8 DEF Fits, WorkType, Row
    <3> QED BY <2>2, <2>4, <3>7, <3>9 DEF InitedTo
  <2> QED BY <2>1, <2>2, <2>4 DEF InitedTo
<1> QED BY <1>1

-----------------------------------------------------------------------------
(* What an operation may do *)

\* A secret was made for a hook that was refused
Parted(w, x) ==
    /\ Follows(w, x) /\ x.row.hook = w.row.hook /\ x.faults > w.faults
    /\ \/ provider = "github"
       \/ provider = "bitbucket" /\ w.row.key = "path" /\ x.row.key = "uuid"

Only(set) == \A g, h \in set : g.by = "app" /\ h.by = "app" => g = h

\* One hook of the application, unless an answer was lost
Single(w, x) ==
    Follows(w, x) /\ (w.listed = w.hooks /\ Only(w.hooks) /\ ~x.lost => Only(x.hooks))

LEMMA SingleWhenFewer ==
    ASSUME NEW w, NEW x, Follows(w, x), x.hooks \subseteq w.hooks
    PROVE  Single(w, x)
BY DEF Single, Only

LEMMA SingleWhenRegistered ==
    ASSUME NEW w, NEW x, Fits(w), NEW s \in Nat, NEW a \in GitLabRegister(w, s), Follows(w, x),
           x.hooks = a.w.hooks, x.lost = a.w.lost
    PROVE  Single(w, x)
<1>1. CASE a.w = w \/ Unheard(w, a)
  BY <1>1, SingleWhenFewer DEF Unheard
<1>2. CASE ~(a.w = w \/ Unheard(w, a))
  <2>1. (w.listed = {} \/ w.hooks = {}) /\ Answers(w, s, a)
    BY <1>2, GitLabAnswers
  <2>2. SUFFICES ASSUME w.listed = w.hooks, Only(w.hooks), ~x.lost
                 PROVE  Only(x.hooks)
    BY DEF Single
  <2>3. w.hooks = {} /\ ~a.w.lost
    BY <2>1, <2>2
  <2>4. a.w.hooks = w.hooks \/ \E h \in Hook : a.w.hooks = w.hooks \cup {h}
    BY <2>1, <2>3 DEF Answers
  <2> QED BY <2>3, <2>4 DEF Only
<1> QED BY <1>1, <1>2

\* What GitLab's client answers
LEMMA GitLabReplies ==
    ASSUME NEW w, Fits(w), NEW s \in Nat
    PROVE  Replies(w, GitLabRegister(w, s))
<1> SUFFICES ASSUME NEW a \in GitLabRegister(w, s)
             PROVE  a.id \in Nat /\ Follows(w, a.w) /\ a.w.row = w.row
  BY DEF Replies
<1> QED BY GitLabAnswers, FollowsItself DEF Answers, Unheard

LEMMA PostReplies ==
    ASSUME NEW w, Fits(w), NEW s \in Nat
    PROVE  Replies(w, Posted(w, s)) /\ \A a \in Posted(w, s) : Answers(w, s, a)
BY PostAnswers DEF Replies, Answers

LEMMA LookupFaults ==
    ASSUME NEW w, Fits(w), NEW x \in LookupFails(w)
    PROVE  x = Fault(w)
BY DEF LookupFails

\* A secret is made and its hook registered or refused
LEMMA WatchedSafe ==
    ASSUME NEW w, Fits(w), NEW x \in WatchedBy(w, Posted(w, Secret(w)))
    PROVE  \/ Safe(w, x)
           \/ /\ Follows(w, x) /\ x.row.hook = w.row.hook /\ x.faults > w.faults
              /\ x.row.key = w.row.key
<1>1. PICK s \in Nat : s = Secret(w)
  BY SecretIsFree
<1>2. Replies(w, Posted(w, s)) /\ \A a \in Posted(w, s) : Answers(w, s, a)
  BY PostReplies
<1>3. CASE Rewrites(w, x) /\ Alike(w.row, x.row)
  BY <1>3, SafeWhenSame DEF Alike, Rewrites
<1>4. ASSUME NEW a \in Posted(w, s), WatchedTo(w, a, x), a.id = 0
      PROVE  /\ Follows(w, x) /\ x.row.hook = w.row.hook /\ x.faults > w.faults
             /\ x.row.key = w.row.key
  <2>1. Answers(w, s, a)
    BY <1>2
  <2>2. Follows(w, x)
    BY <1>4, <2>1, FollowsRewritten DEF Answers, WatchedTo
  <2>3. a.w.faults > w.faults
    <3>1. \A h \in a.w.hooks : h.id # 0
      BY <2>1 DEF Answers, Follows, Fits
    <3> QED BY <1>4, <2>1, <3>1 DEF Answers
  <2> QED BY <1>4, <2>2, <2>3 DEF WatchedTo, Rewrites
<1>5. ASSUME NEW a \in Posted(w, s), WatchedTo(w, a, x), a.id # 0
      PROVE  Safe(w, x)
  BY <1>1, <1>2, <1>5, SafeWhenStored DEF WatchedTo
<1>6. \/ Rewrites(w, x) /\ Alike(w.row, x.row)
      \/ \E a \in Posted(w, s) : WatchedTo(w, a, x)
  BY <1>1, <1>2, WatchedByIs
<1> QED BY <1>3, <1>4, <1>5, <1>6

\* An operation of a provider other than GitLab
Careful(w, x) == Safe(w, x) \/ Parted(w, x)

LEMMA SafeOnceCounted ==
    ASSUME NEW w, Fits(w), NEW v, Follows(w, v), v.row = w.row,
           NEW x, Rewrites(v, x), x.row.hook = w.row.hook, x.row.secret = w.row.secret
    PROVE  Safe(w, x)
<1>1. Follows(w, x)
  BY FollowsRewritten
<1> QED BY <1>1, SafeWhenSame

LEMMA LookupSafe ==
    ASSUME NEW w, Fits(w), NEW v \in LookupFails(w), NEW x, x = Is(v, "error")
    PROVE  Safe(w, x)
<1>1. v = Fault(w) /\ Follows(w, v) /\ v.row = w.row /\ Fits(v)
  BY LookupFaults, Faults DEF Follows
<1>2. Rewrites(v, x) /\ x.row = [v.row EXCEPT !.status = "error"]
  BY <1>1, StatusRewritten DEF Statuses
<1>3. x.row.hook = w.row.hook /\ x.row.secret = w.row.secret
  BY <1>1, <1>2 DEF Fits, WorkType, Row
<1> QED BY <1>1, <1>2, <1>3, SafeOnceCounted

LEMMA GitHubWatchCareful ==
    ASSUME provider = "github", NEW w, Fits(w), NEW x \in GitHubWatch(w)
    PROVE  Careful(w, x)
<1>1. CASE \E v \in LookupFails(w) : x = Is(v, "error")
  BY <1>1, LookupSafe DEF Careful
<1>2. CASE x \in WatchedBy(w, Posted(w, Secret(w)))
  BY <1>2, WatchedSafe DEF Careful, Parted
<1> QED BY <1>1, <1>2 DEF GitHubWatch, GitHubRegister

LEMMA BitbucketWatchCareful ==
    ASSUME provider = "bitbucket", NEW w, Fits(w), NEW x \in BitbucketWatch(w)
    PROVE  Careful(w, x)
<1>1. CASE w.row.key = "uuid"
  <2>1. x = Is(w, "error")
    BY <1>1 DEF BitbucketWatch
  <2>2. Rewrites(w, x) /\ x.row = [w.row EXCEPT !.status = "error"]
    BY <2>1, StatusRewritten DEF Statuses
  <2>3. x.row.hook = w.row.hook /\ x.row.secret = w.row.secret
    BY <2>2 DEF Fits, WorkType, Row
  <2> QED BY <2>2, <2>3, SafeWhenSame DEF Careful, Rewrites
<1>2. CASE \E v \in LookupFails(w) : x = Is(v, "error")
  BY <1>2, LookupSafe DEF Careful
<1>3. PICK found : found = [w EXCEPT !.row.key = "uuid"]
  OBVIOUS
<1>4. CASE x \in WatchedBy(found, Posted(found, Secret(found))) /\ w.row.key # "uuid"
  <2>1. PICK y : y = [w.row EXCEPT !.key = "uuid"]
    OBVIOUS
  <2>2. y \in Row /\ y.id = w.row.id /\ y.seen = w.row.seen /\ found = WithRow(w, y)
    BY <1>3, <2>1 DEF WithRow, Row, Key, Fits, WorkType
  <2>3. Rewrites(w, found) /\ found.row = y /\ Fits(found)
    BY <2>2, RowRewritten DEF Rewrites, Follows
  <2>4. /\ y.hook = w.row.hook /\ y.secret = w.row.secret /\ y.key = "uuid"
        /\ w.row.key = "path"
    BY <1>4, <2>1 DEF Row, Key, Fits, WorkType
  <2>5. /\ found.row.hook = w.row.hook /\ found.row.secret = w.row.secret
        /\ found.row.key = "uuid" /\ found.used = w.used /\ found.hooks = w.hooks
        /\ found.faults = w.faults /\ Follows(w, found)
    BY <2>3, <2>4 DEF Rewrites
  <2>6. CASE Safe(found, x)
    <3>1. Follows(w, x)
      BY <2>5, <2>6, FollowsOn DEF Safe
    <3> QED BY <2>5, <2>6, <3>1 DEF Careful, Safe, Owns, Keeps, Together
  <2>7. CASE /\ Follows(found, x) /\ x.row.hook = found.row.hook /\ x.faults > found.faults
             /\ x.row.key = found.row.key
    <3>1. Follows(w, x)
      BY <2>5, <2>7, FollowsOn
    <3> QED BY <2>4, <2>5, <2>7, <3>1 DEF Careful, Parted
  <2> QED BY <1>4, <2>3, <2>6, <2>7, WatchedSafe
<1> QED BY <1>1, <1>2, <1>3, <1>4 DEF BitbucketWatch, BitbucketRegister

LEMMA GitFlicWatchSafe ==
    ASSUME NEW w, Fits(w), NEW x \in GitFlicWatch(w)
    PROVE  Safe(w, x)
<1>1. CASE x = w
  BY <1>1, FollowsItself, SafeWhenSame
<1>2. CASE x # w
  <2>1. PICK s \in Nat : s = Secret(w)
    BY SecretIsFree
  <2>2. PICK a \in Posted(w, s) :
          x = IF a.id = 0 THEN a.w ELSE Is(Stored(a, s), "active")
    BY <1>2, <2>1 DEF GitFlicWatch, GitFlicRegister
  <2>3. /\ Answers(w, s, a) /\ a.id \in Nat
        /\ Follows(w, a.w) /\ Fits(a.w) /\ a.w.row = w.row
    BY PostAnswers DEF Answers, Follows
  <2>4. CASE a.id = 0
    <3>1. x = a.w /\ x.row.hook = w.row.hook /\ x.row.secret = w.row.secret
      BY <2>2, <2>3, <2>4
    <3> QED BY <2>3, <3>1, SafeWhenSame
  <2>5. CASE a.id # 0
    <3>1. PICK u : u = Stored(a, s)
      OBVIOUS
    <3>2. Rewrites(a.w, u) /\ u.row = [a.w.row EXCEPT !.hook = a.id, !.secret = s] /\ Fits(u)
      BY <2>3, <3>1, HookStored DEF Rewrites, Follows
    <3>3. Rewrites(u, x) /\ x.row = [u.row EXCEPT !.status = "active"]
      BY <2>2, <2>5, <3>1, <3>2, StatusRewritten DEF Statuses
    <3>4. Rewrites(a.w, x)
      BY <2>3, <3>2, <3>3, RewritesOn
    <3>5. x.row.hook = a.id /\ x.row.secret = s
      BY <2>3, <3>2, <3>3 DEF Fits, WorkType, Row
    <3> QED BY <2>1, <2>3, <2>5, <3>4, <3>5, SafeWhenStored
  <2> QED BY <2>4, <2>5
<1> QED BY <1>1, <1>2

\* The row is written before or after, with its hook and its secret as they are
LEMMA SafeRewritten ==
    ASSUME NEW w, Fits(w), NEW x, Safe(w, x), NEW y, Rewrites(x, y),
           y.row.hook = x.row.hook, y.row.secret = x.row.secret
    PROVE  Safe(w, y)
<1>1. Follows(w, y)
  BY FollowsRewritten DEF Safe
<1> QED BY <1>1 DEF Safe, Owns, Keeps, Together, Rewrites

LEMMA RewrittenSafe ==
    ASSUME NEW w, Fits(w), NEW x, Rewrites(w, x), NEW y, Safe(x, y),
           x.row.hook = w.row.hook, x.row.secret = w.row.secret
    PROVE  Safe(w, y)
<1>1. Follows(w, y)
  BY FollowsOn DEF Safe, Rewrites
<1> QED BY <1>1 DEF Safe, Owns, Keeps, Together, Rewrites

LEMMA SingleRewritten ==
    ASSUME NEW w, Fits(w), NEW x, Single(w, x), NEW y, Rewrites(x, y)
    PROVE  Single(w, y)
<1>1. Follows(w, y)
  BY FollowsRewritten DEF Single
<1> QED BY <1>1 DEF Single, Rewrites

\* A registration outside of a watch
RegisteredTo(w, a, s, x) ==
    /\ Follows(w, x) /\ x.hooks = a.w.hooks /\ x.lost = a.w.lost
    /\ x.row.key = w.row.key /\ x.row.mode = w.row.mode
    /\ a.id = 0 => x.row = w.row /\ x.raised = TRUE
    /\ a.id # 0 => Rewrites(a.w, x) /\ x.row.hook = a.id /\ x.row.secret = s

LEMMA StoredOrRaisedIs ==
    ASSUME NEW w, Fits(w), NEW s \in Nat, NEW a, a.id \in Nat, Follows(w, a.w), a.w.row = w.row,
           NEW x, x = StoredOrRaised(a, s)
    PROVE  RegisteredTo(w, a, s, x)
<1>1. PICK v : v = a.w
  OBVIOUS
<1>2. Fits(v) /\ Fits(a.w) /\ Follows(w, v) /\ v.row = w.row
  BY <1>1 DEF Follows
<1>3. CASE a.id = 0
  <2>1. x = Raise(v)
    BY <1>1, <1>3 DEF StoredOrRaised
  <2>2. Follows(v, x) /\ x.row = v.row /\ x.hooks = v.hooks /\ x.lost = v.lost /\ x.raised = TRUE
    BY <1>2, <2>1, Raises
  <2> QED BY <1>1, <1>2, <1>3, <2>2, FollowsOn DEF RegisteredTo
<1>4. CASE a.id # 0
  <2>1. x = Stored(a, s)
    BY <1>4 DEF StoredOrRaised
  <2>2. Rewrites(a.w, x) /\ x.row = [a.w.row EXCEPT !.hook = a.id, !.secret = s]
    BY <1>2, <2>1, HookStored
  <2>3. Rewrites(v, x) /\ x.row = [v.row EXCEPT !.hook = a.id, !.secret = s]
    BY <1>1, <2>2
  <2>4. /\ x.row.hook = a.id /\ x.row.secret = s
        /\ x.row.key = v.row.key /\ x.row.mode = v.row.mode
    BY <1>2, <2>3 DEF Fits, WorkType, Row
  <2>5. Follows(w, x)
    BY <1>2, <2>3, FollowsRewritten
  <2> QED BY <1>1, <1>2, <1>4, <2>3, <2>4, <2>5 DEF Rewrites, RegisteredTo
<1> QED BY <1>3, <1>4

LEMMA RegisteredSafe ==
    ASSUME NEW w, Fits(w), NEW s, s = Secret(w), NEW a \in Posted(w, s),
           NEW x, x = StoredOrRaised(a, s)
    PROVE  Safe(w, x) /\ Fits(x)
<1>1. s \in Nat
  BY SecretIsFree
<1>2. a.id \in Nat /\ Answers(w, s, a) /\ Follows(w, a.w) /\ a.w.row = w.row
  BY <1>1, PostAnswers DEF Answers
<1>3. RegisteredTo(w, a, s, x)
  BY <1>1, <1>2, StoredOrRaisedIs
<1>4. CASE a.id = 0
  BY <1>3, <1>4, SafeWhenSame DEF Follows, RegisteredTo
<1>5. CASE a.id # 0
  BY <1>2, <1>3, <1>5, SafeWhenStored DEF Follows, RegisteredTo
<1> QED BY <1>4, <1>5

LEMMA RegisteredSingle ==
    ASSUME NEW w, Fits(w), NEW s \in Nat, NEW a \in GitLabRegister(w, s),
           NEW x, x = StoredOrRaised(a, s)
    PROVE  Single(w, x) /\ Fits(x)
<1>1. a.id \in Nat /\ Follows(w, a.w) /\ a.w.row = w.row
  BY GitLabReplies DEF Replies
<1>2. RegisteredTo(w, a, s, x)
  BY <1>1, StoredOrRaisedIs
<1> QED BY <1>2, SingleWhenRegistered DEF Follows, RegisteredTo

-----------------------------------------------------------------------------
(* GitLab's operations *)

LEMMA GitLabWatchSingle ==
    ASSUME NEW w, Fits(w), NEW x \in GitLabWatch(w)
    PROVE  Single(w, x)
<1>1. CASE \E v \in LookupFails(w) : x = Raise(v)
  <2>1. PICK v : v = Fault(w) /\ x = Raise(v)
    BY <1>1, LookupFaults
  <2>2. Follows(w, v) /\ v.hooks = w.hooks /\ Fits(v)
    BY <2>1, Faults DEF Follows
  <2>3. Follows(v, x) /\ x.hooks = v.hooks
    BY <2>1, <2>2, Raises
  <2> QED BY <2>2, <2>3, FollowsOn, SingleWhenFewer
<1>2. CASE x \in WatchedBy(w, GitLabRegister(w, Secret(w)))
  <2>1. PICK s \in Nat : s = Secret(w)
    BY SecretIsFree
  <2>2. Replies(w, GitLabRegister(w, s))
    BY GitLabReplies
  <2>3. \/ Rewrites(w, x)
        \/ \E a \in GitLabRegister(w, s) : Rewrites(a.w, x)
    BY <1>2, <2>1, <2>2, WatchedByIs DEF WatchedTo
  <2>4. CASE Rewrites(w, x)
    BY <2>4, SingleWhenFewer DEF Rewrites
  <2>5. ASSUME NEW a \in GitLabRegister(w, s), Rewrites(a.w, x)
        PROVE  Single(w, x)
    <3>1. Follows(w, a.w)
      BY <2>2 DEF Replies
    <3>2. Follows(w, x) /\ x.hooks = a.w.hooks /\ x.lost = a.w.lost
      BY <2>5, <3>1, FollowsRewritten DEF Rewrites
    <3> QED BY <3>2, SingleWhenRegistered
  <2> QED BY <2>3, <2>4, <2>5
<1> QED BY <1>1, <1>2 DEF GitLabWatch

LEMMA GitLabInitSingle ==
    ASSUME NEW w, Fits(w), NEW x \in GitLabInit(w)
    PROVE  Single(w, x)
<1>1. CASE \E v \in LookupFails(w) : x = Raise(v)
  <2>1. PICK v : v = Fault(w) /\ x = Raise(v)
    BY <1>1, LookupFaults
  <2>2. Follows(w, v) /\ v.hooks = w.hooks /\ Fits(v)
    BY <2>1, Faults DEF Follows
  <2>3. Follows(v, x) /\ x.hooks = v.hooks
    BY <2>1, <2>2, Raises
  <2> QED BY <2>2, <2>3, FollowsOn, SingleWhenFewer
<1>2. CASE x \in InitBy(w, GitLabRegister(w, w.row.secret))
  <2>1. PICK s \in Nat : s = w.row.secret
    BY DEF Fits, WorkType, Row
  <2>2. Replies(w, GitLabRegister(w, s))
    BY GitLabReplies
  <2>3. \/ x = w
        \/ \E a \in GitLabRegister(w, s) : x = a.w \/ Rewrites(a.w, x)
    BY <1>2, <2>1, <2>2, InitByIs DEF InitedTo
  <2>4. CASE x = w
    BY <2>4, FollowsItself, SingleWhenFewer
  <2>5. ASSUME NEW a \in GitLabRegister(w, s), x = a.w \/ Rewrites(a.w, x)
        PROVE  Single(w, x)
    <3>1. Follows(w, a.w)
      BY <2>2 DEF Replies
    <3>2. Follows(w, x) /\ x.hooks = a.w.hooks /\ x.lost = a.w.lost
      BY <2>5, <3>1, FollowsRewritten DEF Rewrites
    <3> QED BY <3>2, SingleWhenRegistered
  <2> QED BY <2>3, <2>4, <2>5
<1> QED BY <1>1, <1>2 DEF GitLabInit

LEMMA GitLabEnableSingle ==
    ASSUME NEW w, Fits(w), NEW x \in GitLabEnable(w)
    PROVE  Single(w, x)
<1>1. CASE x = w
  BY <1>1, FollowsItself, SingleWhenFewer
<1>2. CASE x = On(w)
  <2>1. Rewrites(w, x)
    BY <1>2, Switched
  <2> QED BY <2>1, SingleWhenFewer DEF Rewrites
<1>3. CASE \E a \in GitLabRegister(w, Secret(w)) : x = On(StoredOrRaised(a, Secret(w)))
  <2>1. PICK s \in Nat : s = Secret(w)
    BY SecretIsFree
  <2>2. PICK a \in GitLabRegister(w, s) : x = On(StoredOrRaised(a, s))
    BY <1>3, <2>1
  <2>3. PICK u : u = StoredOrRaised(a, s)
    OBVIOUS
  <2>4. Single(w, u) /\ Fits(u)
    BY <2>3, RegisteredSingle
  <2>5. Rewrites(u, x)
    BY <2>2, <2>3, <2>4, Switched
  <2> QED BY <2>4, <2>5, SingleRewritten
<1> QED BY <1>1, <1>2, <1>3 DEF GitLabEnable

\* A change of GitLab's mode moves the row
LEMMA ModeMoved ==
    ASSUME NEW w, Fits(w), NEW m \in Mode,
           NEW x, x = [w EXCEPT !.row.mode = m, !.row.enabled = TRUE,
                              !.row.status = IF @ = "disabled" THEN "active" ELSE @]
    PROVE  Rewrites(w, x)
<1>1. PICK t : t = IF w.row.status = "disabled" THEN "active" ELSE w.row.status
  OBVIOUS
<1>2. PICK y : y = [w.row EXCEPT !.mode = m, !.enabled = TRUE, !.status = t]
  OBVIOUS
<1>3. y \in Row /\ y.id = w.row.id /\ y.seen = w.row.seen
  BY <1>1, <1>2 DEF Fits, WorkType, Row
<1>4. x = WithRow(w, y)
  BY <1>1, <1>2 DEF WithRow, Fits, WorkType, Row
<1> QED BY <1>3, <1>4, RowRewritten

LEMMA GitLabChangeModeSingle ==
    ASSUME NEW w, Fits(w), NEW m \in Mode, NEW x \in GitLabChangeMode(w, m)
    PROVE  Single(w, x)
<1> DEFINE Moved(v) == [v EXCEPT !.row.mode = m, !.row.enabled = TRUE,
                              !.row.status = IF @ = "disabled" THEN "active" ELSE @]
<1>1. \/ x = w
      \/ x = Moved(w)
      \/ \E a \in GitLabRegister(w, Secret(w)) : x = Moved(StoredOrRaised(a, Secret(w)))
      \/ \E d \in GitLabDelete(w) : x = Moved(IF d.says = "ok" THEN Cleared(d.w) ELSE d.w)
  BY DEF GitLabChangeMode
<1>2. ASSUME NEW u, Single(w, u), x = Moved(u)
      PROVE  Single(w, x)
  <2>1. Fits(u)
    BY <1>2 DEF Single, Follows
  <2>2. Rewrites(u, x)
    BY <1>2, <2>1, ModeMoved
  <2> QED BY <1>2, <2>2, SingleRewritten
<1>3. Single(w, w)
  BY FollowsItself, SingleWhenFewer
<1> HIDE DEF Moved
<1>4. CASE \E a \in GitLabRegister(w, Secret(w)) : x = Moved(StoredOrRaised(a, Secret(w)))
  <2>1. PICK s \in Nat : s = Secret(w)
    BY SecretIsFree
  <2>2. PICK a \in GitLabRegister(w, s) : x = Moved(StoredOrRaised(a, s))
    BY <1>4, <2>1
  <2>3. PICK u : u = StoredOrRaised(a, s)
    OBVIOUS
  <2>4. Single(w, u)
    BY <2>3, RegisteredSingle
  <2> QED BY <1>2, <2>2, <2>3, <2>4
<1>5. CASE \E d \in GitLabDelete(w) : x = Moved(IF d.says = "ok" THEN Cleared(d.w) ELSE d.w)
  <2>1. PICK d \in GitLabDelete(w) : x = Moved(IF d.says = "ok" THEN Cleared(d.w) ELSE d.w)
    BY <1>5
  <2>2. Removes(w, d) /\ Fits(d.w)
    BY GitLabRemoves DEF Removes, Follows
  <2>3. PICK v : v = d.w
    OBVIOUS
  <2>4. Single(w, v) /\ Fits(v)
    BY <2>2, <2>3, SingleWhenFewer DEF Removes
  <2>5. Rewrites(v, Cleared(v))
    BY <2>4, Switched
  <2>6. Single(w, Cleared(v))
    BY <2>4, <2>5, SingleRewritten
  <2> QED BY <1>2, <2>1, <2>3, <2>4, <2>6
<1> QED BY <1>1, <1>2, <1>3, <1>4, <1>5

-----------------------------------------------------------------------------
(* A row that is revoked *)

LEMMA RevokedSafe ==
    ASSUME NEW w, Fits(w), NEW answers, \A d \in answers : Removes(w, d),
           NEW x \in Revoked(w, answers)
    PROVE  /\ Safe(w, x) /\ Single(w, x)
           /\ x.row.key = w.row.key /\ x.row.hook \in {w.row.hook, 0}
<1>1. CASE x = w
  BY <1>1, FollowsItself, SafeWhenSame, SingleWhenFewer
<1>2. CASE x # w
  <2>1. PICK d \in answers : x = IF d.says = "ok" THEN Cleared(d.w) ELSE d.w
    BY <1>2 DEF Revoked
  <2>2. w.row.hook # 0
    BY <1>2 DEF Revoked
  <2>3. PICK v : v = d.w
    OBVIOUS
  <2>4. Follows(w, v) /\ v.row = w.row /\ v.hooks \subseteq w.hooks /\ Fits(v)
    BY <2>3 DEF Removes, Follows
  <2>5. CASE x = v
    BY <2>4, <2>5, SafeWhenSame, SingleWhenFewer
  <2>6. CASE x = Cleared(v)
    <3>1. Rewrites(v, x) /\ x.row = [v.row EXCEPT !.hook = 0, !.secret = 0]
      BY <2>4, <2>6, Switched
    <3>2. x.row.hook = 0 /\ x.row.secret = 0 /\ x.row.key = w.row.key
      BY <2>4, <3>1 DEF Fits, WorkType, Row
    <3>3. Follows(w, x) /\ x.hooks \subseteq w.hooks
      BY <2>4, <3>1, FollowsRewritten DEF Rewrites
    <3> QED BY <2>2, <3>2, <3>3, SafeWhenCleared, SingleWhenFewer
  <2> QED BY <2>1, <2>3, <2>5, <2>6
<1> QED BY <1>1, <1>2

\* What a DELETE of a row does before the row is switched off or removed
LEMMA RevokeSafe ==
    ASSUME NEW w, Fits(w), NEW x \in Revoke(w)
    PROVE  /\ Safe(w, x) /\ Single(w, x)
           /\ x.row.key = w.row.key /\ x.row.hook \in {w.row.hook, 0}
<1>1. \A d \in Deleted(w) : Removes(w, d)
  BY DeleteRemoves
<1>2. \A d \in GitLabDelete(w) : Removes(w, d)
  BY GitLabRemoves
<1>3. x \in Revoked(w, Deleted(w)) \/ x \in Revoked(w, GitLabDelete(w))
  BY DEF Revoke, GitLabRevoke, GitHubRevoke, BitbucketRevoke, GitFlicRevoke,
         GitHubDelete, BitbucketDelete, GitFlicDelete
<1> QED BY <1>1, <1>2, <1>3, RevokedSafe

-----------------------------------------------------------------------------
(* A PATCH at the other providers *)

LEMMA AwakeRewrites ==
    ASSUME NEW w, Fits(w), NEW x, x = Awake(w)
    PROVE  Rewrites(w, x) /\ Alike(w.row, x.row)
<1>1. CASE x = w
  BY <1>1, FollowsItself DEF Rewrites, Alike
<1>2. CASE x = Is(w, "active")
  <2>1. Rewrites(w, x) /\ x.row = [w.row EXCEPT !.status = "active"]
    BY <1>2, StatusRewritten DEF Statuses
  <2> QED BY <2>1 DEF Alike, Fits, WorkType, Row
<1> QED BY <1>1, <1>2 DEF Awake

WithMode(w, m) == [w EXCEPT !.row.mode = m]

LEMMA ModeRewrites ==
    ASSUME NEW w, Fits(w), NEW m \in Mode
    PROVE  Rewrites(w, WithMode(w, m)) /\ Alike(w.row, WithMode(w, m).row)
<1>1. PICK y : y = [w.row EXCEPT !.mode = m]
  OBVIOUS
<1>2. y \in Row /\ y.id = w.row.id /\ y.seen = w.row.seen /\ Alike(w.row, y)
  BY <1>1 DEF Alike, Fits, WorkType, Row
<1>3. WithMode(w, m) = WithRow(w, y)
  BY <1>1 DEF WithMode, WithRow, Fits, WorkType
<1>4. Rewrites(w, WithRow(w, y)) /\ WithRow(w, y).row = y
  BY <1>2, RowRewritten
<1> QED BY <1>2, <1>3, <1>4

LEMMA GitHubEnableSafe ==
    ASSUME NEW w, Fits(w), NEW x \in GitHubEnable(w)
    PROVE  Safe(w, x)
<1>1. CASE x = w
  BY <1>1, FollowsItself, SafeWhenSame
<1>2. ASSUME NEW u, Safe(w, u), Fits(u), x = On(u)
      PROVE  Safe(w, x)
  <2>1. Rewrites(u, x) /\ x.row = [u.row EXCEPT !.enabled = TRUE, !.status = "active"]
    BY <1>2, Switched
  <2>2. x.row.hook = u.row.hook /\ x.row.secret = u.row.secret
    BY <1>2, <2>1 DEF Fits, WorkType, Row
  <2> QED BY <1>2, <2>1, <2>2, SafeRewritten
<1>3. CASE x = On(w)
  BY <1>2, <1>3, FollowsItself, SafeWhenSame
<1>4. CASE \E a \in Posted(w, Secret(w)) : x = On(StoredOrRaised(a, Secret(w)))
  <2>1. PICK s : s = Secret(w)
    OBVIOUS
  <2>2. PICK a \in Posted(w, s) : x = On(StoredOrRaised(a, s))
    BY <1>4, <2>1
  <2>3. PICK u : u = StoredOrRaised(a, s)
    OBVIOUS
  <2>4. Safe(w, u) /\ Fits(u)
    BY <2>1, <2>3, RegisteredSafe
  <2> QED BY <1>2, <2>2, <2>3, <2>4
<1> QED BY <1>1, <1>3, <1>4 DEF GitHubEnable, GitHubRegister

LEMMA GitHubChangeModeSafe ==
    ASSUME NEW w, Fits(w), NEW m \in Mode, NEW y \in GitHubChangeMode(w, m)
    PROVE  Safe(w, y)
<1>1. PICK x : x = WithMode(w, m)
  OBVIOUS
<1>2. /\ Rewrites(w, x) /\ Fits(x)
      /\ x.row.hook = w.row.hook /\ x.row.secret = w.row.secret
  BY <1>1, ModeRewrites DEF Rewrites, Follows, Alike
<1>3. \/ y = x
      \/ \E a \in Posted(x, Secret(x)) : y = StoredOrRaised(a, Secret(x))
      \/ /\ x.row.hook # 0
         /\ \E d \in Deleted(x) : y = IF d.says = "exception" THEN Raise(d.w) ELSE Cleared(d.w)
  <2>1. x.row.hook = w.row.hook
    BY <1>2
  <2> QED BY <1>1, <2>1 DEF WithMode, GitHubChangeMode, GitHubRegister, GitHubDelete
<1>4. ASSUME y = x
      PROVE  Safe(x, y)
  <2>1. Fits(x) /\ Follows(x, x)
    BY <1>2, FollowsItself
  <2> QED BY <1>4, <2>1, SafeWhenSame
<1>5. ASSUME NEW a \in Posted(x, Secret(x)), y = StoredOrRaised(a, Secret(x))
      PROVE  Safe(x, y)
  <2>1. Fits(x)
    BY <1>2
  <2> QED BY <1>5, <2>1, RegisteredSafe
<1>6. ASSUME x.row.hook # 0, NEW d \in Deleted(x),
             y = IF d.says = "exception" THEN Raise(d.w) ELSE Cleared(d.w)
      PROVE  Safe(x, y)
  <2>1. PICK v : v = d.w
    OBVIOUS
  <2>2. Follows(x, v) /\ v.row = x.row /\ Fits(v)
    BY <1>2, <1>6, <2>1, DeleteRemoves DEF Removes, Follows
  <2>3. CASE y = Raise(v)
    <3>1. Follows(v, y) /\ y.row = x.row
      BY <2>2, <2>3, Raises
    <3> QED BY <1>2, <2>2, <3>1, FollowsOn, SafeWhenSame
  <2>4. CASE y = Cleared(v)
    <3>1. Rewrites(v, y) /\ y.row = [v.row EXCEPT !.hook = 0, !.secret = 0]
      BY <2>2, <2>4, Switched
    <3>2. y.row.hook = 0 /\ y.row.secret = 0
      BY <2>2, <3>1 DEF Fits, WorkType, Row
    <3>3. Follows(x, y)
      BY <1>2, <2>2, <3>1, FollowsRewritten
    <3> QED BY <1>2, <1>6, <3>2, <3>3, SafeWhenCleared
  <2> QED BY <1>6, <2>1, <2>3, <2>4
<1>7. Safe(x, y)
  BY <1>3, <1>4, <1>5, <1>6
<1> QED BY <1>2, <1>7, RewrittenSafe

LEMMA GitHubPatchSafe ==
    ASSUME provider = "github", NEW w, Fits(w), NEW on, NEW m \in Mode \cup {None},
           NEW y \in GitHubPatch(w, on, m)
    PROVE  Safe(w, y)
<1>1. PICK x \in (IF on = TRUE THEN GitHubEnable(w) ELSE {w}) :
        \E v \in (IF x.raised \/ m = None \/ m = x.row.mode THEN {x} ELSE GitHubChangeMode(x, m)) :
           y = Awake(v)
  BY DEF GitHubPatch
<1>2. Safe(w, x) /\ Fits(x)
  BY <1>1, GitHubEnableSafe, FollowsItself, SafeWhenSame DEF Safe, Follows
<1>3. PICK v \in (IF x.raised \/ m = None \/ m = x.row.mode THEN {x} ELSE GitHubChangeMode(x, m)) :
        y = Awake(v)
  BY <1>1
<1>4. Safe(x, v) /\ Fits(v)
  BY <1>2, <1>3, GitHubChangeModeSafe, FollowsItself, SafeWhenSame DEF Safe, Follows
<1>5. Safe(w, v)
  BY <1>2, <1>4, SafeOn
<1>6. Rewrites(v, y) /\ y.row.hook = v.row.hook /\ y.row.secret = v.row.secret
  BY <1>3, <1>4, AwakeRewrites DEF Alike
<1> QED BY <1>4, <1>5, <1>6, SafeRewritten

LEMMA BitbucketPatchRewrites ==
    ASSUME NEW w, Fits(w), NEW m \in Mode, NEW y \in BitbucketPatch(w, m)
    PROVE  Rewrites(w, y) /\ Alike(w.row, y.row)
<1>1. PICK x : x = WithMode(w, m)
  OBVIOUS
<1>2. Rewrites(w, x) /\ Alike(w.row, x.row) /\ Fits(x)
  BY <1>1, ModeRewrites DEF Rewrites, Follows
<1>3. Rewrites(x, y) /\ Alike(x.row, y.row)
  BY <1>1, <1>2, AwakeRewrites DEF BitbucketPatch, WithMode
<1> QED BY <1>2, <1>3, RewritesOn DEF Alike

LEMMA GitFlicPatchRewrites ==
    ASSUME NEW w, Fits(w), NEW on \in BOOLEAN \cup {None}, NEW m \in Mode \cup {None},
           NEW x \in GitFlicPatch(w, on, m)
    PROVE  Rewrites(w, x) /\ Alike(w.row, x.row)
<1>1. PICK mode : mode = IF m = None THEN w.row.mode ELSE m
  OBVIOUS
<1>2. PICK enabled : enabled = IF on = None THEN w.row.enabled ELSE on
  OBVIOUS
<1>3. mode \in Mode /\ enabled \in BOOLEAN
  BY <1>1, <1>2 DEF Fits, WorkType, Row
<1>4. PICK y : y = [w.row EXCEPT !.mode = mode, !.enabled = enabled]
  OBVIOUS
<1>5. y \in Row /\ y.id = w.row.id /\ y.seen = w.row.seen /\ Alike(w.row, y)
  BY <1>3, <1>4 DEF Alike, Fits, WorkType, Row
<1>6. x = WithRow(w, y)
  BY <1>1, <1>2, <1>4 DEF WithRow, GitFlicPatch, Fits, WorkType, Row
<1>7. Rewrites(w, x) /\ x.row = y
  BY <1>5, <1>6, RowRewritten
<1> QED BY <1>5, <1>7

-----------------------------------------------------------------------------
(* The work of a request *)

\* The row's hook and secret agree after the work when they did before
Joined(w, x) == Follows(w, x) /\ (Owns(w) /\ Keeps(w) => Owns(x) /\ Keeps(x))

LEMMA InitJoined ==
    ASSUME NEW w, Fits(w), NEW x \in BitbucketInit(w)
    PROVE  Joined(w, x)
<1>1. PICK s \in Nat : s = w.row.secret
  BY DEF Fits, WorkType, Row
<1>2. Replies(w, Posted(w, s)) /\ \A a \in Posted(w, s) : Answers(w, s, a)
  BY PostReplies
<1>3. x = w \/ \E a \in Posted(w, s) : InitedTo(w, a, x)
  BY <1>1, <1>2, InitByIs DEF BitbucketInit, BitbucketRegister
<1>4. CASE x = w
  BY <1>4, FollowsItself DEF Joined
<1>5. ASSUME NEW a \in Posted(w, s), InitedTo(w, a, x), a.id = 0
      PROVE  Joined(w, x)
  <2>1. Follows(w, x) /\ x.row = w.row
    BY <1>2, <1>5 DEF InitedTo, Answers
  <2> QED BY <2>1, SafeWhenSame DEF Safe, Joined
<1>6. ASSUME NEW a \in Posted(w, s), InitedTo(w, a, x), a.id # 0
      PROVE  Joined(w, x)
  <2>1. Answers(w, s, a)
    BY <1>2
  <2>2. /\ Rewrites(a.w, x) /\ x.row.hook = a.id /\ x.row.secret = s
        /\ x.used = a.w.used /\ x.hooks = a.w.hooks
    BY <1>1, <1>6 DEF InitedTo, Rewrites
  <2>3. Follows(w, x)
    BY <2>1, <2>2, FollowsRewritten DEF Answers
  <2>4. Owns(x)
    BY <1>6, <2>1, <2>2 DEF Owns, Answers
  <2>5. \A h \in w.hooks : h.id # a.id
    BY <1>6, <2>1 DEF Answers, Fits
  <2>6. Keeps(x)
    BY <2>1, <2>2, <2>5 DEF Keeps, Answers
  <2> QED BY <2>3, <2>4, <2>6 DEF Joined
<1> QED BY <1>3, <1>4, <1>5, <1>6

\* A row that is still known by its path has no new hook
PathKept(w, x) ==
    x.row.key = "path" => w.row.key = "path" /\ x.row.hook \in {w.row.hook, 0}

LEMMA BitbucketWatchPath ==
    ASSUME NEW w, Fits(w), NEW x \in BitbucketWatch(w)
    PROVE  PathKept(w, x)
<1>1. CASE x = Is(w, "error")
  <2>1. x.row = [w.row EXCEPT !.status = "error"]
    BY <1>1, StatusRewritten DEF Statuses
  <2> QED BY <2>1 DEF PathKept, Fits, WorkType, Row
<1>2. CASE \E v \in LookupFails(w) : x = Is(v, "error")
  <2>1. PICK v : v = Fault(w) /\ x = Is(v, "error")
    BY <1>2, LookupFaults
  <2>2. v.row = w.row /\ Fits(v)
    BY <2>1, Faults DEF Follows
  <2>3. x.row = [v.row EXCEPT !.status = "error"]
    BY <2>1, <2>2, StatusRewritten DEF Statuses
  <2> QED BY <2>2, <2>3 DEF PathKept, Fits, WorkType, Row
<1>3. PICK found : found = [w EXCEPT !.row.key = "uuid"]
  OBVIOUS
<1>4. CASE x \in WatchedBy(found, Posted(found, Secret(found)))
  <2>1. PICK y : y = [w.row EXCEPT !.key = "uuid"]
    OBVIOUS
  <2>2. y \in Row /\ y.id = w.row.id /\ y.seen = w.row.seen /\ found = WithRow(w, y)
    BY <1>3, <2>1 DEF WithRow, Row, Key, Fits, WorkType
  <2>3. Fits(found) /\ found.row = y
    BY <2>2, RowRewritten DEF Rewrites, Follows
  <2>4. found.row.key = "uuid"
    BY <2>1, <2>3 DEF Row, Fits, WorkType
  <2>5. PICK s \in Nat : s = Secret(found)
    BY <2>3, SecretIsFree
  <2>6. Replies(found, Posted(found, s))
    BY <2>3, PostReplies
  <2>7. x.row.key = found.row.key
    BY <1>4, <2>3, <2>5, <2>6, WatchedByIs DEF WatchedTo, Alike
  <2> QED BY <2>4, <2>7 DEF PathKept
<1> QED BY <1>1, <1>2, <1>3, <1>4 DEF BitbucketWatch, BitbucketRegister

\* The requests whose work has not been done
Asked(q) ==
    /\ q \in Request /\ q.row \in Row
    /\ q.op = "watch" => provider # "bitbucket_dc"
    /\ q.op = "init" => provider \in {"gitlab", "bitbucket_dc"}
    /\ q.op = "patch" => \/ q.mode \in Mode
                         \/ q.mode = None /\ provider = "gitlab" /\ q.on = TRUE
                         \/ q.mode = None /\ provider \in {"github", "gitflic"}

\* What the work does, before a purge drops the row
Handling(q, w, y) ==
    /\ Follows(w, y)
    /\ provider = "gitlab" => Single(w, y)
    /\ provider = "bitbucket" => PathKept(w, y)
    /\ provider # "gitlab" =>
          Safe(w, y) \/ Parted(w, y) \/ (q.op = "init" /\ Joined(w, y))

LEMMA HandlingWhenAlike ==
    ASSUME NEW q, NEW w, Fits(w), NEW y, Rewrites(w, y), Alike(w.row, y.row)
    PROVE  Handling(q, w, y)
<1>1. Safe(w, y)
  BY SafeWhenSame DEF Rewrites, Alike
<1>2. Single(w, y)
  BY SingleWhenFewer DEF Rewrites
<1> QED BY <1>1, <1>2 DEF Handling, Safe, PathKept, Alike

LEMMA HandlingWhenCareful ==
    ASSUME NEW q, NEW w, NEW y, provider # "gitlab", Careful(w, y),
           provider = "bitbucket" => PathKept(w, y)
    PROVE  Handling(q, w, y)
BY DEF Handling, Careful, Safe, Parted

LEMMA HandlingWhenSingle ==
    ASSUME NEW q, NEW w, NEW y, provider = "gitlab", Single(w, y)
    PROVE  Handling(q, w, y)
BY DEF Handling, Single

LEMMA WatchHandles ==
    ASSUME NEW q, NEW w, Fits(w), provider \in Provider \ {"bitbucket_dc"}, NEW x \in Watch(w)
    PROVE  Handling(q, w, x)
<1>1. CASE provider = "gitlab"
  BY <1>1, GitLabWatchSingle, HandlingWhenSingle DEF Watch
<1>2. CASE provider = "github"
  BY <1>2, GitHubWatchCareful, HandlingWhenCareful DEF Watch
<1>3. CASE provider = "bitbucket"
  BY <1>3, BitbucketWatchCareful, BitbucketWatchPath, HandlingWhenCareful DEF Watch
<1>4. CASE provider = "gitflic"
  BY <1>4, GitFlicWatchSafe, HandlingWhenCareful DEF Watch, Careful
<1> QED BY <1>1, <1>2, <1>3, <1>4 DEF Provider

LEMMA PatchHandles ==
    ASSUME NEW q, Asked(q), q.op = "patch", NEW w, Fits(w), provider \in Provider,
           NEW x \in Patch(w, q.on, q.mode)
    PROVE  Handling(q, w, x)
<1>1. q.mode \in Mode \cup {None} /\ q.on \in BOOLEAN \cup {None}
  BY DEF Asked, Request
<1>2. CASE provider = "gitlab"
  <2>1. x \in GitLabEnable(w) \/ (q.mode \in Mode /\ x \in GitLabChangeMode(w, q.mode))
    BY <1>2 DEF Patch, GitLabPatch, Asked
  <2> QED BY <1>2, <2>1, GitLabEnableSingle, GitLabChangeModeSingle, HandlingWhenSingle
<1>3. CASE provider = "github"
  <2>1. x \in GitHubPatch(w, q.on, q.mode)
    BY <1>3 DEF Patch
  <2>2. Safe(w, x)
    BY <1>1, <1>3, <2>1, GitHubPatchSafe
  <2> QED BY <1>3, <2>2, HandlingWhenCareful DEF Careful
<1>4. CASE provider = "gitflic"
  <2>1. x \in GitFlicPatch(w, q.on, q.mode)
    BY <1>4 DEF Patch
  <2>2. Rewrites(w, x) /\ Alike(w.row, x.row)
    BY <1>1, <2>1, GitFlicPatchRewrites
  <2> QED BY <2>2, HandlingWhenAlike
<1>5. CASE provider \in {"bitbucket", "bitbucket_dc"}
  <2>1. q.mode \in Mode /\ x \in BitbucketPatch(w, q.mode)
    BY <1>5 DEF Patch, Asked
  <2>2. Rewrites(w, x) /\ Alike(w.row, x.row)
    BY <2>1, BitbucketPatchRewrites
  <2> QED BY <2>2, HandlingWhenAlike
<1> QED BY <1>2, <1>3, <1>4, <1>5 DEF Provider

LEMMA RevokeHandles ==
    ASSUME NEW q, NEW w, Fits(w), NEW x \in Revoke(w)
    PROVE  Handling(q, w, x)
<1>1. /\ Safe(w, x) /\ Single(w, x)
      /\ x.row.key = w.row.key /\ x.row.hook \in {w.row.hook, 0}
  BY RevokeSafe
<1> QED BY <1>1 DEF Handling, PathKept, Safe

LEMMA DisableHandles ==
    ASSUME NEW q, NEW w, Fits(w), NEW y \in Disable(w)
    PROVE  Handling(q, w, y)
<1>1. PICK x \in Revoke(w) : y = Off(x)
  BY DEF Disable
<1>2. /\ Safe(w, x) /\ Single(w, x) /\ Fits(x)
      /\ x.row.key = w.row.key /\ x.row.hook \in {w.row.hook, 0}
  BY RevokeSafe DEF Safe, Follows
<1>3. Rewrites(x, y) /\ y.row = [x.row EXCEPT !.enabled = FALSE, !.status = "disabled"]
  BY <1>1, <1>2, Switched
<1>4. y.row.key = x.row.key /\ y.row.hook = x.row.hook /\ y.row.secret = x.row.secret
  BY <1>2, <1>3 DEF Fits, WorkType, Row
<1>5. Safe(w, y) /\ Single(w, y)
  BY <1>2, <1>3, <1>4, SafeRewritten, SingleRewritten
<1> QED BY <1>2, <1>4, <1>5 DEF Handling, PathKept, Safe

LEMMA VerifyHandles ==
    ASSUME NEW q, NEW w, Fits(w), NEW x \in Verify(w)
    PROVE  Handling(q, w, x)
<1>1. CASE x = w
  BY <1>1, FollowsItself, HandlingWhenAlike DEF Rewrites, Alike
<1>2. CASE x = Is(w, "active")
  <2>1. Rewrites(w, x) /\ x.row = [w.row EXCEPT !.status = "active"]
    BY <1>2, StatusRewritten DEF Statuses
  <2>2. Alike(w.row, x.row)
    BY <2>1 DEF Alike, Fits, WorkType, Row
  <2> QED BY <2>1, <2>2, HandlingWhenAlike
<1> QED BY <1>1, <1>2 DEF Verify

LEMMA InitHandles ==
    ASSUME NEW q, q.op = "init", NEW w, Fits(w), provider \in {"gitlab", "bitbucket_dc"},
           NEW x \in (IF provider = "gitlab" THEN GitLabInit(w) ELSE BitbucketInit(w))
    PROVE  Handling(q, w, x)
<1>1. CASE provider = "gitlab"
  BY <1>1, GitLabInitSingle, HandlingWhenSingle
<1>2. CASE provider = "bitbucket_dc"
  <2>1. Joined(w, x)
    BY <1>2, InitJoined
  <2> QED BY <1>2, <2>1 DEF Handling, Joined
<1> QED BY <1>1, <1>2

LEMMA HandledIs ==
    ASSUME NEW q, Asked(q), provider \in Provider, NEW w, w = Work(q), Fits(w),
           NEW x \in Handled(q)
    PROVE  \E y : /\ Handling(q, w, y)
                  /\ x = y \/ (q.op = "purge" /\ x = [y EXCEPT !.row = None])
<1>1. q.op \in {"watch", "init", "patch", "disable", "purge", "verify"}
  BY DEF Asked, Request
<1>2. CASE q.op = "watch"
  <2>1. x \in Watch(w) /\ provider \in Provider \ {"bitbucket_dc"}
    BY <1>2 DEF Handled, Asked
  <2> QED BY <2>1, WatchHandles
<1>3. CASE q.op = "init"
  <2>1. /\ x \in (IF provider = "gitlab" THEN GitLabInit(w) ELSE BitbucketInit(w))
        /\ provider \in {"gitlab", "bitbucket_dc"}
    BY <1>3 DEF Handled, Asked
  <2> QED BY <1>3, <2>1, InitHandles
<1>4. CASE q.op = "patch"
  <2>1. x \in Patch(w, q.on, q.mode)
    BY <1>4 DEF Handled
  <2> QED BY <1>4, <2>1, PatchHandles
<1>5. CASE q.op = "disable"
  <2>1. x \in Disable(w)
    BY <1>5 DEF Handled
  <2> QED BY <2>1, DisableHandles
<1>6. CASE q.op = "purge"
  <2>1. x \in Purge(w)
    BY <1>6 DEF Handled
  <2>2. PICK y \in Revoke(w) : x = [y EXCEPT !.row = None]
    BY <2>1 DEF Purge
  <2> QED BY <1>6, <2>2, RevokeHandles
<1>7. CASE q.op = "verify"
  <2>1. x \in Verify(w)
    BY <1>7 DEF Handled
  <2> QED BY <2>1, VerifyHandles
<1> QED BY <1>1, <1>2, <1>3, <1>4, <1>5, <1>6, <1>7

-----------------------------------------------------------------------------
(* The inductive invariant for the types *)

\* A request at work has what its operation needs
Ordered(q) ==
    /\ q \in Request
    /\ q.op \notin {"watch", "init"} => q.seen # None
    /\ q.op = "init" => q.seen = None /\ provider \in {"gitlab", "bitbucket_dc"}
    /\ q.op = "watch" => provider # "bitbucket_dc" /\ (q.stage # "called" => q.mode \in Mode)
    /\ q.stage = "read" => q.op \in {"watch", "init"}
    /\ q.stage # "read" /\ q.row = None => q.stage = "called" /\ q.op = "purge"
    /\ q.stage = "flushed" /\ q.op = "patch" =>
          \/ q.mode \in Mode
          \/ q.mode = None /\ provider = "gitlab" /\ q.on = TRUE
          \/ q.mode = None /\ provider \in {"github", "gitflic"}

Ids == {x.id : x \in Copies}

\* The request has made a row that is not committed
Inserting(q) == q # None /\ q.seen = None /\ q.stage # "read"

\* No row has the number of a new one, and no two new ones have one number
IdsAreNew ==
    /\ \A r \in Req : Inserting(req[r]) => \A x \in rows : x.id # req[r].row.id
    /\ \A r, s \in Req :
          Inserting(req[r]) /\ Inserting(req[s]) /\ req[r].row.id = req[s].row.id => r = s

Typed ==
    /\ TypeOK
    /\ \A r \in Working : Ordered(req[r])
    /\ IsFiniteSet(Used) /\ IsFiniteSet(Ids)
    /\ \A h \in Known : h.id # 0
    /\ IdsAreNew

\* One request changes: what is remembered afterwards
Remembers(p) == IF p = None THEN {} ELSE {p.seen, p.row} \ {None}
Lists(p) == IF p = None THEN {} ELSE p.listed

LEMMA OneRequest ==
    ASSUME NEW r \in Req, req \in [Req -> Request \cup {None}], NEW p,
           req' = [req EXCEPT ![r] = p]
    PROVE  /\ Copies' \subseteq rows' \cup Copies \cup Remembers(p)
           /\ Known' \subseteq hooks' \cup Known \cup Lists(p)
           /\ Working' \subseteq Working \cup {r} /\ req'[r] = p
           /\ \A s \in Req : s # r => req'[s] = req[s]
<1>1. req'[r] = p /\ \A s \in Req : s # r => req'[s] = req[s]
  OBVIOUS
<1>2. Working' \subseteq Working \cup {r}
  BY <1>1 DEF Working
<1>3. ASSUME NEW x \in Copies'
      PROVE  x \in rows' \cup Copies \cup Remembers(p)
  <2>1. CASE x \in rows'
    BY <2>1
  <2>2. ASSUME NEW s \in Working', x \in {req'[s].seen, req'[s].row} \ {None}
        PROVE  x \in Copies \cup Remembers(p)
    <3>1. s \in Req /\ req'[s] # None
      BY DEF Working
    <3>2. CASE s = r
      BY <1>1, <2>2, <3>1, <3>2 DEF Remembers
    <3>3. CASE s # r
      BY <1>1, <2>2, <3>1, <3>3 DEF Copies, Working
    <3> QED BY <3>2, <3>3
  <2> QED BY <1>3, <2>1, <2>2 DEF Copies
<1>4. ASSUME NEW h \in Known'
      PROVE  h \in hooks' \cup Known \cup Lists(p)
  <2>1. CASE h \in hooks'
    BY <2>1
  <2>2. ASSUME NEW s \in Working', h \in req'[s].listed
        PROVE  h \in Known \cup Lists(p)
    <3>1. s \in Req /\ req'[s] # None
      BY DEF Working
    <3>2. CASE s = r
      BY <1>1, <2>2, <3>1, <3>2 DEF Lists
    <3>3. CASE s # r
      BY <1>1, <2>2, <3>1, <3>3 DEF Known, Working
    <3> QED BY <3>2, <3>3
  <2> QED BY <1>4, <2>1, <2>2 DEF Known
<1> QED BY <1>1, <1>2, <1>3, <1>4

\* Finitely many numbers are added
Numbers(K, C) == (UNION {{h.id, h.secret} : h \in K}) \cup (UNION {{x.hook, x.secret} : x \in C})

LEMMA NumbersFinite ==
    ASSUME NEW U, IsFiniteSet(U), NEW F, IsFiniteSet(F), NEW K, NEW C,
           \A h \in K : {h.id, h.secret} \subseteq U \cup F,
           \A x \in C : {x.hook, x.secret} \subseteq U \cup F
    PROVE  IsFiniteSet(Numbers(K, C))
<1>1. IsFiniteSet(U \cup F)
  BY FS_Union
<1>2. Numbers(K, C) \subseteq U \cup F
  BY DEF Numbers
<1> QED BY <1>1, <1>2, FS_Subset

LEMMA IdsFinite ==
    ASSUME NEW U, IsFiniteSet(U), NEW i, NEW C, \A x \in C : x.id \in U \cup {i}
    PROVE  IsFiniteSet({x.id : x \in C})
<1>1. IsFiniteSet(U \cup {i})
  BY FS_AddElement
<1>2. {x.id : x \in C} \subseteq U \cup {i}
  OBVIOUS
<1> QED BY <1>1, <1>2, FS_Subset

\* The numbers of what is remembered are in use
LEMMA InUse ==
    /\ \A h \in Known : {h.id, h.secret} \subseteq Used
    /\ \A x \in Copies : {x.hook, x.secret} \subseteq Used /\ x.id \in Ids
BY DEF Used, Ids

LEMMA Remembered ==
    /\ rows \subseteq Copies /\ hooks \subseteq Known
    /\ \A r \in Req : req[r] # None =>
          /\ req[r].seen # None => req[r].seen \in Copies
          /\ req[r].row # None => req[r].row \in Copies
          /\ req[r].listed \subseteq Known
BY DEF Copies, Known, Working

\* A request's step that adds finitely many numbers and one row's number at most
StepFits(r, p, F, i) ==
    /\ p = None \/ Ordered(p)
    /\ req' = [req EXCEPT ![r] = p] /\ provider' = provider
    /\ rows' \subseteq Row /\ KeysUnique(rows') /\ \A x, y \in rows' : x.id = y.id => x = y
    /\ hooks' \subseteq Hook /\ sent' \in Nat /\ faults' \in Nat
    /\ lost' \in BOOLEAN /\ overlap' \in BOOLEAN /\ clashed' \in BOOLEAN
    /\ IsFiniteSet(F) /\ Lists(p) \subseteq Known
    /\ \A h \in hooks' : h.id # 0 /\ {h.id, h.secret} \subseteq Used \cup F
    /\ \A x \in rows' \cup Remembers(p) :
          {x.hook, x.secret} \subseteq Used \cup F /\ x.id \in Ids \cup {i}
    /\ IdsAreNew'

LEMMA TypedAfter ==
    ASSUME Typed, NEW r \in Req, NEW p, NEW F, NEW i, StepFits(r, p, F, i)
    PROVE  Typed'
<1>1. /\ Copies' \subseteq rows' \cup Copies \cup Remembers(p)
      /\ Known' \subseteq hooks' \cup Known \cup Lists(p)
      /\ Working' \subseteq Working \cup {r} /\ req'[r] = p
      /\ \A s \in Req : s # r => req'[s] = req[s]
  BY OneRequest DEF StepFits, Typed, TypeOK
<1>2. TypeOK'
  BY DEF StepFits, Typed, TypeOK, Ordered
<1>3. ASSUME NEW s \in Working'
      PROVE  Ordered(req[s])'
  <2>1. CASE s = r
    BY <1>1, <2>1 DEF StepFits, Working, Ordered
  <2>2. CASE s # r
    <3>1. s \in Req /\ s \in Working /\ req'[s] = req[s]
      BY <1>1, <2>2 DEF Working
    <3> QED BY <3>1 DEF StepFits, Ordered, Typed
  <2> QED BY <2>1, <2>2
<1>4. PICK U, D, C, K : U = Used /\ D = Ids /\ C = Copies' /\ K = Known'
  OBVIOUS
<1>5. \A h \in K : {h.id, h.secret} \subseteq U \cup F
  BY <1>1, <1>4, InUse DEF StepFits
<1>6. \A x \in C : {x.hook, x.secret} \subseteq U \cup F /\ x.id \in D \cup {i}
  BY <1>1, <1>4, InUse DEF StepFits
<1>7. IsFiniteSet(Used')
  <2>1. Used' = Numbers(K, C)
    BY <1>4 DEF Used, Numbers
  <2>2. IsFiniteSet(U) /\ \A x \in C : {x.hook, x.secret} \subseteq U \cup F
    BY <1>4, <1>6 DEF Typed
  <2>3. IsFiniteSet(Numbers(K, C))
    BY <1>5, <2>2, NumbersFinite DEF StepFits
  <2> QED BY <2>1, <2>3
<1>8. IsFiniteSet(Ids')
  <2>1. Ids' = {x.id : x \in C}
    BY <1>4 DEF Ids
  <2> QED BY <1>4, <1>6, <2>1, IdsFinite DEF Typed
<1>9. \A h \in Known' : h.id # 0
  BY <1>1 DEF StepFits, Typed
<1> QED BY <1>2, <1>3, <1>7, <1>8, <1>9 DEF StepFits, Typed

\* The bodies that a request may have
LEMMA BodiesFit ==
    ASSUME provider \in Provider, NEW op, NEW b \in Bodies(op)
    PROVE  /\ b[1] \in Mode \cup {None} /\ b[2] \in BOOLEAN \cup {None}
           /\ op = "watch" => b[1] \in Mode
           /\ op = "patch" => \/ b[1] \in Mode
                              \/ b[1] = None /\ provider = "gitlab" /\ b[2] = TRUE
                              \/ b[1] = None /\ provider \in {"github", "gitflic"}
<1>1. \A m \in Modes : m \in Mode
  BY ConstantsOK
<1>2. "webhook" \in Mode
  BY DEF Mode, HookModes
<1>3. CASE op = "watch"
  <2>1. PICK m \in Modes : b = <<m, None>>
    BY <1>3 DEF Bodies
  <2> QED BY <1>1, <1>3, <2>1
<1>4. CASE op = "patch"
  <2>1. b \in PatchBodies
    BY <1>4 DEF Bodies
  <2>2. CASE provider = "gitlab"
    <3>1. b = <<None, TRUE>> \/ \E m \in Modes : b = <<m, None>>
      BY <2>1, <2>2 DEF PatchBodies
    <3>2. CASE b = <<None, TRUE>>
      <4>1. b[1] = None /\ b[2] = TRUE
        BY <3>2
      <4> QED BY <1>4, <2>2, <4>1
    <3>3. CASE \E m \in Modes : b = <<m, None>>
      BY <1>1, <1>4, <3>3
    <3> QED BY <3>1, <3>2, <3>3
  <2>3. CASE provider = "github"
    <3>1. b = <<None, TRUE>> \/ \E m \in Modes : b = <<m, None>> \/ b = <<m, TRUE>>
      BY <2>1, <2>3 DEF PatchBodies
    <3>2. CASE b = <<None, TRUE>>
      <4>1. b[1] = None /\ b[2] = TRUE
        BY <3>2
      <4> QED BY <1>4, <2>3, <4>1
    <3>3. CASE \E m \in Modes : b = <<m, None>>
      BY <1>1, <1>4, <3>3
    <3>4. CASE \E m \in Modes : b = <<m, TRUE>>
      <4>1. b[1] \in Modes /\ b[2] = TRUE
        BY <3>4
      <4> QED BY <1>1, <1>4, <4>1
    <3> QED BY <3>1, <3>2, <3>3, <3>4
  <2>4. CASE provider = "gitflic"
    <3>1. b \in (Modes \cup {None}) \X (BOOLEAN \cup {None})
      BY <2>1, <2>4 DEF PatchBodies
    <3>2. b[1] \in Modes \cup {None} /\ b[2] \in BOOLEAN \cup {None}
      BY <3>1
    <3> QED BY <1>1, <1>4, <2>4, <3>2
  <2>5. CASE provider = "bitbucket"
    <3>1. \E m \in Modes : b = <<m, None>>
      BY <2>1, <2>5 DEF PatchBodies
    <3> QED BY <1>1, <1>4, <3>1
  <2>6. CASE provider = "bitbucket_dc"
    <3>1. b = <<"webhook", None>>
      BY <2>1, <2>6 DEF PatchBodies
    <3> QED BY <1>2, <1>4, <3>1
  <2> QED BY <2>2, <2>3, <2>4, <2>5, <2>6 DEF Provider
<1>5. CASE op # "watch" /\ op # "patch"
  <2>1. b = <<None, None>>
    BY <1>5 DEF Bodies
  <2> QED BY <1>5, <2>1
<1> QED BY <1>3, <1>4, <1>5

LEMMA TargetsFit ==
    ASSUME rows \subseteq Row, NEW op, NEW t \in Targets(op)
    PROVE  /\ t[1] \in Key /\ t[2] \in rows \cup {None}
           /\ op \notin {"watch", "init"} => t[2] \in rows
           /\ op = "init" => t[2] = None
<1>1. CASE op = "watch"
  <2>1. PICK k \in (IF provider = "bitbucket" THEN Key ELSE {"uuid"}) :
          t = <<k, IF \E x \in rows : x.key = k THEN CHOOSE x \in rows : x.key = k ELSE None>>
    BY <1>1 DEF Targets
  <2>2. k \in Key
    BY DEF Key
  <2>3. CASE \E x \in rows : x.key = k
    <3>1. (CHOOSE x \in rows : x.key = k) \in rows
      BY <2>3
    <3> QED BY <1>1, <2>1, <2>2, <2>3, <3>1
  <2>4. CASE ~\E x \in rows : x.key = k
    BY <1>1, <2>1, <2>2, <2>4
  <2> QED BY <2>3, <2>4
<1>2. CASE op = "init"
  BY <1>2 DEF Targets, Key
<1>3. CASE op \notin {"watch", "init"}
  <2>1. PICK x \in rows : t = <<x.key, x>>
    BY <1>3 DEF Targets
  <2> QED BY <1>3, <2>1 DEF Row
<1> QED BY <1>1, <1>2, <1>3

\* A request as it is read
LEMMA ReadIs ==
    ASSUME Typed, NEW r \in Req, Read(r)
    PROVE  \E p : /\ req' = [req EXCEPT ![r] = p] /\ Ordered(p)
                  /\ p.seen \in rows \cup {None} /\ p.row = p.seen /\ p.listed = Listed
                  /\ p.seen = None => p.stage = "read"
                  /\ p.stage \in {"read", "flushed"}
<1>1. PICK op \in {o \in {"watch", "init", "patch", "disable", "purge", "verify"} : Served(o)} :
        \E b \in Bodies(op), t \in Targets(op) :
          req' = [req EXCEPT ![r] =
               [op |-> op, mode |-> b[1], on |-> b[2], key |-> t[1], seen |-> t[2],
                row |-> t[2], listed |-> Listed, locks |-> FALSE,
                stage |-> IF op \in {"watch", "init"} THEN "read" ELSE "flushed"]]
  BY DEF Read
<1>2. PICK b \in Bodies(op), t \in Targets(op) :
          req' = [req EXCEPT ![r] =
               [op |-> op, mode |-> b[1], on |-> b[2], key |-> t[1], seen |-> t[2],
                row |-> t[2], listed |-> Listed, locks |-> FALSE,
                stage |-> IF op \in {"watch", "init"} THEN "read" ELSE "flushed"]]
  BY <1>1
<1>3. PICK mode, on, key, row : mode = b[1] /\ on = b[2] /\ key = t[1] /\ row = t[2]
  OBVIOUS
<1>4. PICK list, stage : /\ list = Listed
                         /\ stage = IF op \in {"watch", "init"} THEN "read" ELSE "flushed"
  OBVIOUS
<1>5. PICK p : p = [op |-> op, mode |-> mode, on |-> on, key |-> key, seen |-> row,
                    row |-> row, listed |-> list, locks |-> FALSE, stage |-> stage]
  OBVIOUS
<1>6. req' = [req EXCEPT ![r] = p]
  BY <1>2, <1>3, <1>4, <1>5
<1>7. /\ mode \in Mode \cup {None} /\ on \in BOOLEAN \cup {None}
      /\ op = "watch" => mode \in Mode
      /\ op = "patch" => \/ mode \in Mode
                         \/ mode = None /\ provider = "gitlab" /\ on = TRUE
                         \/ mode = None /\ provider \in {"github", "gitflic"}
  <2>1. provider \in Provider
    BY ConstantsOK DEF Typed, TypeOK
  <2> QED BY <1>3, <2>1, BodiesFit
<1>8. /\ key \in Key /\ row \in rows \cup {None}
      /\ op \notin {"watch", "init"} => row \in rows
      /\ op = "init" => row = None
  BY <1>3, TargetsFit DEF Typed, TypeOK
<1>9. list \subseteq Hook /\ rows \subseteq Row
  BY <1>4 DEF Listed, Typed, TypeOK
<1>10. /\ op = "watch" => provider # "bitbucket_dc"
       /\ op = "init" => provider \in {"gitlab", "bitbucket_dc"}
  BY DEF Served
<1>11. p \in Request
  BY <1>4, <1>5, <1>7, <1>8, <1>9 DEF Request
<1>12. Ordered(p)
  BY <1>4, <1>5, <1>7, <1>8, <1>9, <1>10, <1>11, NoneIsNone DEF Ordered
<1>13. p.seen = row /\ p.row = row /\ p.listed = list /\ p.stage = stage
  BY <1>5
<1>14. row = None => stage = "read"
  BY <1>4, <1>8, <1>9, NoneIsNone
<1> QED BY <1>4, <1>6, <1>8, <1>12, <1>13, <1>14

LEMMA ReadTyped ==
    ASSUME Typed, NEW r \in Req, Read(r)
    PROVE  Typed'
<1>1. PICK p : /\ req' = [req EXCEPT ![r] = p] /\ Ordered(p)
               /\ p.seen \in rows \cup {None} /\ p.row = p.seen /\ p.listed = Listed
               /\ p.seen = None => p.stage = "read"
  BY ReadIs
<1>2. /\ provider' = provider /\ rows' = rows /\ hooks' = hooks /\ faults' = faults
      /\ lost' = lost /\ clashed' = clashed /\ sent' \in Nat /\ overlap' \in BOOLEAN
  BY DEF Read, Typed, TypeOK
<1>3. Lists(p) \subseteq Known
  BY <1>1, Remembered DEF Lists, Listed
<1>4. rows' \cup Remembers(p) \subseteq Copies
  BY <1>1, <1>2, Remembered DEF Remembers
<1>5. req'[r] = p /\ \A s \in Req : s # r => req'[s] = req[s]
  BY <1>1 DEF Typed, TypeOK
<1>6. ~Inserting(p)
  BY <1>1 DEF Inserting
<1>7. IdsAreNew'
  BY <1>2, <1>5, <1>6 DEF IdsAreNew, Inserting, Typed
<1>0. PICK F, i : F = {} /\ i = 0
  OBVIOUS
<1>8. \A h \in hooks' : h.id # 0 /\ {h.id, h.secret} \subseteq Used \cup F
  BY <1>2, InUse, Remembered DEF Typed
<1>9. \A x \in rows' \cup Remembers(p) :
         {x.hook, x.secret} \subseteq Used \cup F /\ x.id \in Ids \cup {i}
  BY <1>4, InUse
<1>10. /\ rows' \subseteq Row /\ KeysUnique(rows') /\ \A x, y \in rows' : x.id = y.id => x = y
       /\ hooks' \subseteq Hook /\ faults' \in Nat /\ lost' \in BOOLEAN /\ clashed' \in BOOLEAN
  BY <1>2 DEF Typed, TypeOK, KeysUnique
<1>11. IsFiniteSet(F)
  BY <1>0, FS_EmptySet
<1>12. StepFits(r, p, F, i)
  BY <1>1, <1>2, <1>3, <1>7, <1>8, <1>9, <1>10, <1>11 DEF StepFits
<1> QED BY <1>12, TypedAfter

\* The row as it is flushed
LEMMA UpsertedIs ==
    ASSUME Typed, NEW q, Ordered(q), q.stage = "read"
    PROVE  /\ Upserted(q) \in Row
           /\ q.seen # None => /\ Upserted(q).id = q.seen.id /\ Upserted(q).seen = q.seen.seen
                               /\ Alike(q.seen, Upserted(q))
           /\ q.seen = None => /\ Upserted(q).id \notin Ids
                               /\ Upserted(q).key = q.key /\ Upserted(q).hook = 0
                               /\ Upserted(q).secret \in Nat
                               /\ q.op = "watch" => Upserted(q).secret = 0
<1>1. q \in Request /\ q.op \in {"watch", "init"}
  BY DEF Ordered
<1>2. CASE q.seen # None
  <2>1. q.seen \in Row /\ q.mode \in Mode
    BY <1>1, <1>2 DEF Ordered, Request
  <2>2. PICK x : x = q.seen
    OBVIOUS
  <2>3. Upserted(q) = [x EXCEPT !.mode = q.mode, !.enabled = TRUE]
    BY <1>2, <2>2 DEF Upserted
  <2> QED BY <1>2, <2>1, <2>2, <2>3 DEF Alike, Row
<1>3. CASE q.seen = None
  <2>1. PICK i, n : i = Unused(Ids) /\ n = Unused(Used)
    OBVIOUS
  <2>2. i \in Nat /\ i \notin Ids /\ n \in Nat
    BY <2>1, UnusedIsFree DEF Typed
  <2>3. PICK mode, secret : /\ mode = IF q.op = "init" THEN "webhook" ELSE q.mode
                            /\ secret = IF q.op = "init" THEN n ELSE 0
    OBVIOUS
  <2>4. mode \in Mode /\ secret \in Nat /\ (q.op = "watch" => secret = 0)
    BY <1>1, <2>2, <2>3 DEF Ordered, Mode, HookModes
  <2>5. Upserted(q) = [id |-> i, key |-> q.key, mode |-> mode, enabled |-> TRUE,
                       status |-> "pending_manual", hook |-> 0, secret |-> secret,
                       seen |-> FALSE]
    BY <1>3, <2>1, <2>3 DEF Upserted, Ids
  <2>6. q.key \in Key
    BY <1>1 DEF Request
  <2>7. Upserted(q) \in Row
    BY <2>2, <2>4, <2>5, <2>6 DEF Row
  <2> QED BY <1>3, <2>2, <2>4, <2>5, <2>7
<1> QED BY <1>2, <1>3

\* A flush ends the request or writes its row
LEMMA FlushIs ==
    ASSUME Typed, NEW r \in Req, Flush(r)
    PROVE  \/ req' = [req EXCEPT ![r] = None]
           \/ \E p : /\ req' = [req EXCEPT ![r] = p] /\ Ordered(p)
                     /\ p.op = req[r].op /\ p.seen = req[r].seen
                     /\ p.row = Upserted(req[r]) /\ p.row \in Row
                     /\ p.listed = Listed /\ p.stage = "flushed"
<1>1. PICK q : q = req[r]
  OBVIOUS
<1>2. q # None /\ q.stage = "read" /\ Ordered(q)
  BY <1>1 DEF Flush, Typed, Working
<1>3. CASE End(r)
  BY <1>3 DEF End
<1>4. CASE ~End(r)
  <2>1. PICK row, locks, list : row = Upserted(q) /\ locks = Flushes(q) /\ list = Listed
    OBVIOUS
  <2>2. PICK p : p = [q EXCEPT !.row = row, !.stage = "flushed", !.locks = locks,
                               !.listed = list]
    OBVIOUS
  <2>3. req' = [req EXCEPT ![r] = p]
    BY <1>1, <1>4, <2>1, <2>2 DEF Flush, Typed, TypeOK
  <2>4. row \in Row
    BY <1>2, <2>1, UpsertedIs
  <2>5. list \subseteq Hook
    BY <2>1 DEF Listed, Typed, TypeOK
  <2>6. locks \in BOOLEAN
    BY <2>1 DEF Flushes
  <2>7. /\ p \in Request /\ p.op = q.op /\ p.mode = q.mode /\ p.on = q.on /\ p.seen = q.seen
        /\ p.row = row /\ p.stage = "flushed" /\ p.listed = list
    BY <1>2, <2>2, <2>4, <2>5, <2>6 DEF Ordered, Request
  <2>8. Ordered(p)
    BY <1>2, <2>4, <2>7, NoneIsNone DEF Ordered
  <2> QED BY <1>1, <2>1, <2>3, <2>4, <2>7, <2>8
<1> QED BY <1>3, <1>4

LEMMA EndTyped ==
    ASSUME Typed, NEW r \in Req, req' = [req EXCEPT ![r] = None],
           UNCHANGED <<provider, rows, hooks>>, sent' \in Nat, faults' \in Nat,
           lost' \in BOOLEAN, overlap' \in BOOLEAN, clashed' \in BOOLEAN
    PROVE  Typed'
<1>1. PICK F, i, p : F = {} /\ i = 0 /\ p = None
  OBVIOUS
<1>2. req' = [req EXCEPT ![r] = p] /\ IsFiniteSet(F)
  BY <1>1, FS_EmptySet
<1>3. req'[r] = None /\ \A s \in Req : s # r => req'[s] = req[s]
  BY DEF Typed, TypeOK
<1>4. IdsAreNew'
  BY <1>3 DEF IdsAreNew, Inserting, Typed
<1>5. \A h \in hooks' : h.id # 0 /\ {h.id, h.secret} \subseteq Used \cup F
  BY InUse, Remembered DEF Typed
<1>6. \A x \in rows' \cup Remembers(p) :
         {x.hook, x.secret} \subseteq Used \cup F /\ x.id \in Ids \cup {i}
  BY <1>1, InUse, Remembered DEF Remembers
<1>7. Lists(p) \subseteq Known
  BY <1>1 DEF Lists
<1>8. /\ rows' \subseteq Row /\ KeysUnique(rows') /\ \A x, y \in rows' : x.id = y.id => x = y
      /\ hooks' \subseteq Hook
  BY DEF Typed, TypeOK, KeysUnique
<1>9. provider' = provider /\ (p = None \/ Ordered(p))
  BY <1>1
<1>10. StepFits(r, p, F, i)
  BY <1>2, <1>4, <1>5, <1>6, <1>7, <1>8, <1>9 DEF StepFits
<1> QED BY <1>10, TypedAfter

LEMMA FlushTyped ==
    ASSUME Typed, NEW r \in Req, Flush(r)
    PROVE  Typed'
<1>1. /\ UNCHANGED <<provider, rows, hooks, sent, faults, lost, overlap, clashed>>
      /\ sent' \in Nat /\ faults' \in Nat
      /\ lost' \in BOOLEAN /\ overlap' \in BOOLEAN /\ clashed' \in BOOLEAN
  BY DEF Flush, Typed, TypeOK
<1>2. CASE req' = [req EXCEPT ![r] = None]
  BY <1>1, <1>2, EndTyped
<1>3. CASE req' # [req EXCEPT ![r] = None]
  <2>1. PICK q : q = req[r]
    OBVIOUS
  <2>2. q # None /\ q.stage = "read" /\ Ordered(q)
    BY <2>1 DEF Flush, Typed, Working
  <2>3. PICK p : /\ req' = [req EXCEPT ![r] = p] /\ Ordered(p)
                 /\ p.op = q.op /\ p.seen = q.seen /\ p.row = Upserted(q) /\ p.row \in Row
                 /\ p.listed = Listed /\ p.stage = "flushed"
    BY <1>3, <2>1, FlushIs
  <2>4. PICK F, i : F = {p.row.hook, p.row.secret} /\ i = p.row.id
    OBVIOUS
  <2>5. IsFiniteSet(F)
    <3>1. F = ({} \cup {p.row.hook}) \cup {p.row.secret}
      BY <2>4
    <3> QED BY <3>1, FS_EmptySet, FS_AddElement
  <2>6. Lists(p) \subseteq Known
    BY <2>3, Remembered DEF Lists, Listed
  <2>7. \A h \in hooks' : h.id # 0 /\ {h.id, h.secret} \subseteq Used \cup F
    BY <1>1, InUse, Remembered DEF Typed
  <2>8. rows' \subseteq Copies /\ Remembers(p) \subseteq Copies \cup {p.row}
    BY <1>1, <2>1, <2>2, <2>3, Remembered DEF Remembers
  <2>9. \A x \in rows' \cup Remembers(p) :
           {x.hook, x.secret} \subseteq Used \cup F /\ x.id \in Ids \cup {i}
    BY <2>4, <2>8, InUse
  <2>10. req'[r] = p /\ \A s \in Req : s # r => req'[s] = req[s]
    BY <2>3 DEF Typed, TypeOK
  <2>11. Inserting(p) => p.row.id \notin Ids
    BY <2>2, <2>3, UpsertedIs DEF Inserting
  <2>12. \A s \in Req : Inserting(req[s]) => req[s].row.id \in Ids
    <3> SUFFICES ASSUME NEW s \in Req, Inserting(req[s])
                 PROVE  req[s].row.id \in Ids
      OBVIOUS
    <3>1. req[s] # None /\ req[s].row # None
      BY DEF Inserting, Typed, Working, Ordered
    <3> QED BY <3>1, Remembered, InUse
  <2>13. \A x \in rows : x.id \in Ids
    BY Remembered, InUse
  <2>14. IdsAreNew'
    BY <1>1, <2>10, <2>11, <2>12, <2>13 DEF IdsAreNew, Inserting, Typed
  <2>15. /\ rows' \subseteq Row /\ KeysUnique(rows') /\ \A x, y \in rows' : x.id = y.id => x = y
         /\ hooks' \subseteq Hook
    BY <1>1 DEF Typed, TypeOK, KeysUnique
  <2>16. StepFits(r, p, F, i)
    BY <1>1, <2>3, <2>5, <2>6, <2>7, <2>9, <2>14, <2>15 DEF StepFits
  <2> QED BY <2>16, TypedAfter
<1> QED BY <1>2, <1>3

\* The work record of a request that is about to call the provider
LEMMA WorkFits ==
    ASSUME Typed, NEW r \in Req, NEW q, q = req[r], q # None, q.stage = "flushed",
           NEW w, w = Work(q)
    PROVE  /\ Ordered(q) /\ Asked(q) /\ provider \in Provider /\ Fits(w)
           /\ w.row = q.row /\ w.hooks = hooks /\ w.listed = q.listed /\ w.used = Used
           /\ w.faults = faults /\ w.lost = lost
<1>1. Ordered(q) /\ provider \in Provider
  BY ConstantsOK DEF Typed, TypeOK, Working
<1>2. q \in Request /\ q.row \in Row
  BY <1>1 DEF Ordered, Request
<1>3. Asked(q)
  BY <1>1, <1>2 DEF Asked, Ordered
<1>4. /\ w.row = q.row /\ w.hooks = hooks /\ w.listed = q.listed /\ w.used = Used
      /\ w.faults = faults /\ w.lost = lost /\ w.raised = FALSE
  BY DEF Work
<1>5. Used \subseteq Nat
  <2>1. \A x \in Copies : x.hook \in Nat /\ x.secret \in Nat
    <3>1. \A x \in rows : x.hook \in Nat /\ x.secret \in Nat
      BY DEF Typed, TypeOK, Row
    <3>2. \A s \in Working : Ordered(req[s])
      BY DEF Typed
    <3>3. \A s \in Working : {req[s].seen, req[s].row} \ {None} \subseteq Row
      BY <3>2 DEF Ordered, Request
    <3>4. \A s \in Working : \A x \in {req[s].seen, req[s].row} \ {None} :
             x.hook \in Nat /\ x.secret \in Nat
      BY <3>3 DEF Row
    <3> QED BY <3>1, <3>4 DEF Copies
  <2>2. \A h \in Known : h.id \in Nat /\ h.secret \in Nat
    <3>1. Known \subseteq Hook
      BY DEF Known, Typed, TypeOK, Ordered, Request
    <3> QED BY <3>1 DEF Hook
  <2> QED BY <2>1, <2>2 DEF Used
<1>6. w \in WorkType
  <2>1. hooks \in SUBSET Hook /\ q.listed \in SUBSET Hook /\ faults \in Nat /\ lost \in BOOLEAN
    BY <1>2 DEF Request, Typed, TypeOK
  <2> QED BY <1>2, <1>5, <2>1 DEF Work, WorkType
<1>7. \A h \in hooks \cup q.listed : h.id # 0 /\ {h.id, h.secret} \subseteq Used
  BY InUse, Remembered DEF Typed
<1>8. Fits(w)
  BY <1>4, <1>6, <1>7 DEF Fits, Typed
<1> QED BY <1>1, <1>3, <1>4, <1>8

\* A call makes of the row and the hooks what the work does
LEMMA CallIs ==
    ASSUME Typed, NEW r \in Req, Call(r), NEW q, q = req[r], NEW w, w = Work(q)
    PROVE  \E y :
              /\ Handling(q, w, y) /\ y \in WorkType
              /\ hooks' = y.hooks /\ faults' = y.faults /\ lost' = y.lost
              /\ \/ req' = [req EXCEPT ![r] = None]
                 \/ \E p : /\ req' = [req EXCEPT ![r] = p] /\ Ordered(p)
                           /\ p.op = q.op /\ p.seen = q.seen /\ p.stage = "called"
                           /\ p.listed = {}
                           /\ p.row = y.row \/ (p.row = None /\ q.op = "purge")
<1>1. q # None /\ q.stage = "flushed"
  BY DEF Call
<1>2. Ordered(q) /\ Asked(q) /\ provider \in Provider /\ Fits(w)
  BY <1>1, WorkFits
<1>3. PICK x \in Handled(q) :
          /\ hooks' = x.hooks /\ faults' = x.faults /\ lost' = x.lost
          /\ IF x.raised THEN End(r)
             ELSE req' = [req EXCEPT ![r].row = x.row, ![r].stage = "called",
                                     ![r].mode = None, ![r].on = None, ![r].listed = {}]
  BY DEF Call
<1>4. PICK y : /\ Handling(q, w, y)
               /\ x = y \/ (q.op = "purge" /\ x = [y EXCEPT !.row = None])
  BY <1>2, HandledIs
<1>5. y \in WorkType
  BY <1>4 DEF Handling, Follows, Fits
<1>6. /\ x.hooks = y.hooks /\ x.faults = y.faults /\ x.lost = y.lost
      /\ x.row = y.row \/ (x.row = None /\ q.op = "purge")
  BY <1>4, <1>5 DEF WorkType
<1>7. CASE End(r)
  BY <1>3, <1>4, <1>5, <1>6, <1>7 DEF End
<1>8. CASE ~End(r)
  <2>1. PICK row : row = x.row
    OBVIOUS
  <2>2. PICK p : p = [q EXCEPT !.row = row, !.stage = "called", !.mode = None, !.on = None,
                               !.listed = {}]
    OBVIOUS
  <2>3. req' = [req EXCEPT ![r] = p]
    BY <1>3, <1>8, <2>1, <2>2 DEF Typed, TypeOK
  <2>4. row \in Row \/ (row = None /\ q.op = "purge")
    BY <1>5, <1>6, <2>1 DEF WorkType
  <2>5. /\ p \in Request /\ p.op = q.op /\ p.seen = q.seen /\ p.row = row
        /\ p.stage = "called" /\ p.listed = {}
    BY <1>2, <2>2, <2>4 DEF Ordered, Request
  <2>6. Ordered(p)
    BY <1>2, <2>4, <2>5, NoneIsNone DEF Ordered
  <2>7. p.row = y.row \/ (p.row = None /\ q.op = "purge")
    BY <1>6, <2>1, <2>5
  <2>8. hooks' = y.hooks /\ faults' = y.faults /\ lost' = y.lost
    BY <1>3, <1>6
  <2> QED BY <1>4, <1>5, <2>3, <2>5, <2>6, <2>7, <2>8
<1> QED BY <1>7, <1>8

LEMMA CallTyped ==
    ASSUME Typed, NEW r \in Req, Call(r)
    PROVE  Typed'
<1>1. PICK q : q = req[r]
  OBVIOUS
<1>2. PICK w : w = Work(q)
  OBVIOUS
<1>3. PICK y : /\ Handling(q, w, y) /\ y \in WorkType
               /\ hooks' = y.hooks /\ faults' = y.faults /\ lost' = y.lost
               /\ \/ req' = [req EXCEPT ![r] = None]
                  \/ \E p : /\ req' = [req EXCEPT ![r] = p] /\ Ordered(p)
                            /\ p.op = q.op /\ p.seen = q.seen /\ p.stage = "called"
                            /\ p.listed = {}
                            /\ p.row = y.row \/ (p.row = None /\ q.op = "purge")
  BY <1>1, <1>2, CallIs
<1>4. PICK p : /\ req' = [req EXCEPT ![r] = p] /\ (p = None \/ Ordered(p))
               /\ p # None => /\ p.op = q.op /\ p.seen = q.seen /\ p.listed = {}
                              /\ p.row = y.row \/ (p.row = None /\ q.op = "purge")
  <2>1. CASE req' = [req EXCEPT ![r] = None]
    <3>1. PICK p : p = None
      OBVIOUS
    <3> QED BY <2>1, <3>1
  <2> QED BY <1>3, <2>1
<1>5. /\ UNCHANGED <<provider, rows, sent, overlap, clashed>>
      /\ q # None /\ q.stage = "flushed"
  BY <1>1 DEF Call
<1>6. /\ Ordered(q) /\ w.row = q.row /\ w.hooks = hooks /\ w.used = Used /\ q.row \in Row
  BY <1>1, <1>2, <1>5, WorkFits DEF Asked
<1>7. Follows(w, y)
  BY <1>3 DEF Handling
<1>8. PICK F, i : F = y.used \cup {y.row.hook, y.row.secret} /\ i = 0
  OBVIOUS
<1>9. IsFiniteSet(F)
  <2>1. F = (y.used \cup {y.row.hook}) \cup {y.row.secret}
    BY <1>8
  <2>2. IsFiniteSet(y.used)
    BY <1>7 DEF Follows, Fits
  <2> QED BY <2>1, <2>2, FS_AddElement
<1>10. Lists(p) \subseteq Known
  BY <1>4 DEF Lists
<1>11. \A h \in hooks' : h.id # 0 /\ {h.id, h.secret} \subseteq Used \cup F
  BY <1>3, <1>7, <1>8 DEF Follows, Fits
<1>12. q.seen # None => q.seen \in Copies
  BY <1>1, <1>5, Remembered
<1>13. q.row \in Copies
  BY <1>1, <1>5, <1>6, Remembered, NoneIsNone
<1>14. y.row.id = q.row.id
  BY <1>6, <1>7 DEF Follows
<1>15. \A x \in rows' \cup Remembers(p) :
          {x.hook, x.secret} \subseteq Used \cup F /\ x.id \in Ids \cup {i}
  <2>1. rows' \cup Remembers(p) \subseteq Copies \cup {y.row}
    BY <1>4, <1>5, <1>12, Remembered DEF Remembers
  <2>2. y.row.id \in Ids
    BY <1>13, <1>14, InUse
  <2> QED BY <1>8, <2>1, <2>2, InUse
<1>16. req'[r] = p /\ \A s \in Req : s # r => req'[s] = req[s]
  BY <1>4 DEF Typed, TypeOK
<1>17. Inserting(p) => Inserting(q) /\ p.row.id = q.row.id
  <2> SUFFICES ASSUME Inserting(p)
               PROVE  Inserting(q) /\ p.row.id = q.row.id
    OBVIOUS
  <2>1. q.seen = None /\ p.row = y.row
    BY <1>4, <1>6 DEF Inserting, Ordered
  <2> QED BY <1>5, <1>14, <2>1 DEF Inserting
<1>18. IdsAreNew'
  BY <1>1, <1>5, <1>16, <1>17 DEF IdsAreNew, Inserting, Typed
<1>19. /\ rows' \subseteq Row /\ KeysUnique(rows') /\ \A x, z \in rows' : x.id = z.id => x = z
       /\ sent' \in Nat /\ overlap' \in BOOLEAN /\ clashed' \in BOOLEAN
  BY <1>5 DEF Typed, TypeOK, KeysUnique
<1>20. hooks' \subseteq Hook /\ faults' \in Nat /\ lost' \in BOOLEAN
  BY <1>3 DEF WorkType
<1>21. StepFits(r, p, F, i)
  BY <1>4, <1>5, <1>9, <1>10, <1>11, <1>15, <1>18, <1>19, <1>20 DEF StepFits
<1> QED BY <1>21, TypedAfter

\* A commit leaves a row as it was, adds the new one or writes the changed columns
CommittedTo(q, x) ==
    \/ x \in rows
    \/ q.seen = None /\ q.row \in Row /\ x = q.row
    \/ /\ q.seen \in Row /\ q.row \in Row
       /\ \E old \in rows : old.id = q.seen.id /\ x = Written(old, q.seen, q.row)

LEMMA CommitIs ==
    ASSUME Typed, NEW r \in Req, Commit(r), NEW q, q = req[r]
    PROVE  /\ q # None /\ q.stage = "called" /\ Ordered(q)
           /\ req' = [req EXCEPT ![r] = None]
           /\ UNCHANGED <<provider, hooks, sent, faults, lost, overlap>>
           /\ clashed' \in BOOLEAN
           /\ rows' = rows \/ (rows' = Committed(q) /\ KeysUnique(Committed(q)))
<1>1. q # None /\ q.stage = "called"
  BY DEF Commit
<1>2. Ordered(q)
  BY <1>1 DEF Typed, Working
<1>3. /\ req' = [req EXCEPT ![r] = None]
      /\ UNCHANGED <<provider, hooks, sent, faults, lost, overlap>>
  BY DEF Commit, End
<1>4. IF q.row = q.seen THEN UNCHANGED <<rows, clashed>>
      ELSE IF Refused(q) THEN clashed' = TRUE /\ UNCHANGED rows
      ELSE rows' = Committed(q) /\ UNCHANGED clashed
  BY DEF Commit
<1>5. clashed \in BOOLEAN
  BY DEF Typed, TypeOK
<1>6. CASE rows' = rows
  BY <1>1, <1>2, <1>3, <1>4, <1>5, <1>6
<1>7. CASE rows' # rows
  <2>1. rows' = Committed(q) /\ UNCHANGED clashed /\ ~Refused(q)
    BY <1>4, <1>7
  <2>2. KeysUnique(Committed(q))
    BY <2>1 DEF Refused
  <2> QED BY <1>1, <1>2, <1>3, <1>5, <2>1, <2>2
<1> QED BY <1>6, <1>7

LEMMA CommittedIs ==
    ASSUME rows \subseteq Row, NEW q, Ordered(q), q.stage = "called"
    PROVE  \A x \in Committed(q) : CommittedTo(q, x)
<1> SUFFICES ASSUME NEW x \in Committed(q)
             PROVE  CommittedTo(q, x)
  OBVIOUS
<1>1. q \in Request
  BY DEF Ordered
<1>2. CASE q.row = None
  BY <1>2 DEF Committed, CommittedTo
<1>3. CASE q.row # None /\ q.seen = None
  BY <1>1, <1>3 DEF Committed, CommittedTo, Request
<1>4. CASE q.row # None /\ q.seen # None
  <2>1. q.row \in Row /\ q.seen \in Row
    BY <1>1, <1>4 DEF Request
  <2>2. PICK old \in rows :
          x = IF old.id = q.seen.id THEN Written(old, q.seen, q.row) ELSE old
    BY <1>4 DEF Committed
  <2> QED BY <2>1, <2>2 DEF CommittedTo
<1> QED BY <1>2, <1>3, <1>4

LEMMA WrittenIs ==
    ASSUME NEW old \in Row, NEW seen \in Row, NEW new \in Row
    PROVE  /\ Written(old, seen, new) \in Row /\ Written(old, seen, new).id = old.id
           /\ Written(old, seen, new).hook = Column(old.hook, seen.hook, new.hook)
           /\ Written(old, seen, new).secret = Column(old.secret, seen.secret, new.secret)
           /\ Written(old, seen, new).key = Column(old.key, seen.key, new.key)
           /\ Written(old, seen, new).enabled = Column(old.enabled, seen.enabled, new.enabled)
<1>1. /\ Column(old.key, seen.key, new.key) \in Key
      /\ Column(old.mode, seen.mode, new.mode) \in Mode
      /\ Column(old.enabled, seen.enabled, new.enabled) \in BOOLEAN
      /\ Column(old.status, seen.status, new.status) \in Statuses
      /\ Column(old.hook, seen.hook, new.hook) \in Nat
      /\ Column(old.secret, seen.secret, new.secret) \in Nat
      /\ Column(old.seen, seen.seen, new.seen) \in BOOLEAN
  BY DEF Column, Row, Statuses
<1>2. PICK key, mode, enabled, status, hook, secret, told :
         /\ key = Column(old.key, seen.key, new.key)
         /\ mode = Column(old.mode, seen.mode, new.mode)
         /\ enabled = Column(old.enabled, seen.enabled, new.enabled)
         /\ status = Column(old.status, seen.status, new.status)
         /\ hook = Column(old.hook, seen.hook, new.hook)
         /\ secret = Column(old.secret, seen.secret, new.secret)
         /\ told = Column(old.seen, seen.seen, new.seen)
  OBVIOUS
<1>3. Written(old, seen, new) =
        [id |-> old.id, key |-> key, mode |-> mode, enabled |-> enabled, status |-> status,
         hook |-> hook, secret |-> secret, seen |-> told]
  BY <1>2 DEF Written
<1>4. old.id \in Nat
  BY DEF Row
<1> HIDE DEF Written
<1> QED BY <1>1, <1>2, <1>3, <1>4 DEF Row, Statuses

\* No two committed rows have one number
LEMMA CommittedIds ==
    ASSUME Typed, NEW r \in Req, NEW q, q = req[r], q # None, q.stage = "called", Ordered(q),
           NEW x \in Committed(q), NEW y \in Committed(q), x.id = y.id
    PROVE  x = y
<1>1. q \in Request /\ rows \subseteq Row /\ \A u, v \in rows : u.id = v.id => u = v
  BY DEF Ordered, Typed, TypeOK
<1>2. CASE q.row = None
  BY <1>1, <1>2 DEF Committed
<1>3. CASE q.row # None /\ q.seen = None
  <2>1. \A u \in rows : u.id # q.row.id
    BY <1>3 DEF Typed, IdsAreNew, Inserting
  <2>2. x \in rows \cup {q.row} /\ y \in rows \cup {q.row}
    BY <1>3 DEF Committed
  <2> QED BY <1>1, <2>1, <2>2
<1>4. CASE q.row # None /\ q.seen # None
  <2>1. q.row \in Row /\ q.seen \in Row
    BY <1>1, <1>4 DEF Request
  <2>2. PICK u \in rows : x = IF u.id = q.seen.id THEN Written(u, q.seen, q.row) ELSE u
    BY <1>4 DEF Committed
  <2>3. PICK v \in rows : y = IF v.id = q.seen.id THEN Written(v, q.seen, q.row) ELSE v
    BY <1>4 DEF Committed
  <2>4. x.id = u.id
    BY <1>1, <2>1, <2>2, WrittenIs
  <2>5. y.id = v.id
    BY <1>1, <2>1, <2>3, WrittenIs
  <2> QED BY <1>1, <2>2, <2>3, <2>4, <2>5
<1> QED BY <1>2, <1>3, <1>4

LEMMA CommitTyped ==
    ASSUME Typed, NEW r \in Req, Commit(r)
    PROVE  Typed'
<1>1. PICK q, p, F, i : q = req[r] /\ p = None /\ F = {} /\ i = 0
  OBVIOUS
<1>2. /\ q # None /\ q.stage = "called" /\ Ordered(q)
      /\ req' = [req EXCEPT ![r] = p]
      /\ UNCHANGED <<provider, hooks, sent, faults, lost, overlap>>
      /\ clashed' \in BOOLEAN
      /\ rows' = rows \/ (rows' = Committed(q) /\ KeysUnique(Committed(q)))
  BY <1>1, CommitIs
<1>3. /\ rows \subseteq Row /\ KeysUnique(rows) /\ \A x, y \in rows : x.id = y.id => x = y
      /\ hooks' \subseteq Hook /\ sent' \in Nat /\ faults' \in Nat
      /\ lost' \in BOOLEAN /\ overlap' \in BOOLEAN
  BY <1>2 DEF Typed, TypeOK
<1>4. \A x \in rows' : CommittedTo(q, x)
  <2>1. CASE rows' = rows
    BY <2>1 DEF CommittedTo
  <2>2. CASE rows' = Committed(q)
    BY <1>2, <1>3, <2>2, CommittedIs
  <2> QED BY <1>2, <2>1, <2>2
<1>5. rows' \subseteq Row
  BY <1>3, <1>4, WrittenIs DEF CommittedTo
<1>6. KeysUnique(rows')
  BY <1>2, <1>3
<1>7. \A x, y \in rows' : x.id = y.id => x = y
  BY <1>1, <1>2, <1>3, CommittedIds
<1>8. (q.seen # None => q.seen \in Copies) /\ (q.row # None => q.row \in Copies)
  BY <1>1, <1>2, Remembered
<1>9. \A x \in rows' : /\ {x.hook, x.secret} \subseteq Used /\ x.id \in Ids
                       /\ x \in rows \/ (Inserting(q) /\ x.id = q.row.id)
                            \/ \E old \in rows : x.id = old.id
  <2> SUFFICES ASSUME NEW x \in rows'
               PROVE  /\ {x.hook, x.secret} \subseteq Used /\ x.id \in Ids
                      /\ x \in rows \/ (Inserting(q) /\ x.id = q.row.id)
                           \/ \E old \in rows : x.id = old.id
    OBVIOUS
  <2>1. CASE x \in rows
    BY <2>1, Remembered, InUse
  <2>2. CASE q.seen = None /\ q.row \in Row /\ x = q.row
    BY <1>2, <1>8, <2>2, InUse, NoneIsNone DEF Inserting
  <2>3. ASSUME q.seen \in Row, q.row \in Row, NEW old \in rows, old.id = q.seen.id,
               x = Written(old, q.seen, q.row)
        PROVE  {x.hook, x.secret} \subseteq Used /\ x.id \in Ids /\ x.id = old.id
    <3>1. /\ x.id = old.id /\ x.hook \in {old.hook, q.row.hook}
          /\ x.secret \in {old.secret, q.row.secret}
      BY <1>3, <2>3, WrittenIs DEF Column
    <3>2. q.row \in Copies /\ old \in Copies
      BY <1>8, <2>3, Remembered, NoneIsNone
    <3> QED BY <3>1, <3>2, InUse
  <2> QED BY <1>4, <2>1, <2>2, <2>3 DEF CommittedTo
<1>10. req'[r] = None /\ \A s \in Req : s # r => req'[s] = req[s]
  BY <1>1, <1>2 DEF Typed, TypeOK
<1>11. IdsAreNew'
  <2>1. IdsAreNew
    BY DEF Typed
  <2>2. ASSUME NEW s \in Req, Inserting(req[s])', NEW x \in rows'
        PROVE  x.id # req'[s].row.id
    <3>1. s # r /\ req'[s] = req[s] /\ Inserting(req[s])
      BY <1>10, <2>2 DEF Inserting
    <3>2. CASE x \in rows \/ \E old \in rows : x.id = old.id
      BY <2>1, <3>1, <3>2 DEF IdsAreNew
    <3>3. CASE Inserting(q) /\ x.id = q.row.id
      BY <1>1, <2>1, <3>1, <3>3 DEF IdsAreNew
    <3> QED BY <1>9, <3>2, <3>3
  <2>3. ASSUME NEW s \in Req, NEW t \in Req, Inserting(req[s])', Inserting(req[t])',
               req'[s].row.id = req'[t].row.id
        PROVE  s = t
    BY <1>10, <2>1, <2>3 DEF IdsAreNew, Inserting
  <2> QED BY <2>2, <2>3 DEF IdsAreNew
<1>12. \A h \in hooks' : h.id # 0 /\ {h.id, h.secret} \subseteq Used \cup F
  BY <1>2, InUse, Remembered DEF Typed
<1>13. \A x \in rows' \cup Remembers(p) :
          {x.hook, x.secret} \subseteq Used \cup F /\ x.id \in Ids \cup {i}
  BY <1>1, <1>9 DEF Remembers
<1>14. Lists(p) \subseteq Known /\ IsFiniteSet(F)
  BY <1>1, FS_EmptySet DEF Lists
<1>15. provider' = provider /\ (p = None \/ Ordered(p))
  BY <1>1, <1>2
<1>16. StepFits(r, p, F, i)
  BY <1>2, <1>3, <1>5, <1>6, <1>7, <1>11, <1>12, <1>13, <1>14, <1>15 DEF StepFits
<1> QED BY <1>16, TypedAfter

LEMMA RollbackTyped ==
    ASSUME Typed, NEW r \in Req, Rollback(r)
    PROVE  Typed'
<1>1. req' = [req EXCEPT ![r] = None] /\ UNCHANGED <<provider, rows, hooks>>
  BY DEF Rollback, End
<1>2. /\ sent' \in Nat /\ faults' \in Nat
      /\ lost' \in BOOLEAN /\ overlap' \in BOOLEAN /\ clashed' \in BOOLEAN
  BY DEF Rollback, Typed, TypeOK
<1> QED BY <1>1, <1>2, EndTyped

\* A step that leaves the requests alone
LEMMA TypedStill ==
    ASSUME Typed, TypeOK', UNCHANGED <<provider, req>>, NEW F, IsFiniteSet(F),
           \A h \in hooks' : h.id # 0 /\ {h.id, h.secret} \subseteq Used \cup F,
           \A x \in rows' : \E y \in rows : x.id = y.id /\ x.hook = y.hook /\ x.secret = y.secret
    PROVE  Typed'
<1>1. Working' = Working /\ \A r \in Req : req'[r] = req[r]
  BY DEF Working
<1>2. Known' \subseteq hooks' \cup Known
  BY <1>1 DEF Known
<1>3. Copies' \subseteq rows' \cup Copies
  BY <1>1 DEF Copies
<1>4. \A r \in Working' : Ordered(req[r])'
  BY <1>1 DEF Ordered, Typed
<1>5. PICK U, D, C, K : U = Used /\ D = Ids /\ C = Copies' /\ K = Known'
  OBVIOUS
<1>6. \A h \in K : {h.id, h.secret} \subseteq U \cup F
  BY <1>2, <1>5, InUse
<1>7. \A x \in C : {x.hook, x.secret} \subseteq U \cup F /\ x.id \in D \cup {0}
  <2>1. \A y \in rows : {y.hook, y.secret} \subseteq U /\ y.id \in D
    BY <1>5, InUse, Remembered
  <2> QED BY <1>3, <1>5, <2>1, InUse
<1>8. IsFiniteSet(Used')
  <2>1. Used' = Numbers(K, C)
    BY <1>5 DEF Used, Numbers
  <2>2. IsFiniteSet(U) /\ \A x \in C : {x.hook, x.secret} \subseteq U \cup F
    BY <1>5, <1>7 DEF Typed
  <2>3. IsFiniteSet(Numbers(K, C))
    BY <1>6, <2>2, NumbersFinite
  <2> QED BY <2>1, <2>3
<1>9. IsFiniteSet(Ids')
  <2>1. Ids' = {x.id : x \in C}
    BY <1>5 DEF Ids
  <2>2. IsFiniteSet(D) /\ \A x \in C : x.id \in D \cup {0}
    BY <1>5, <1>7 DEF Typed
  <2>3. IsFiniteSet({x.id : x \in C})
    BY <2>2, IdsFinite
  <2> QED BY <2>1, <2>3
<1>10. \A h \in Known' : h.id # 0
  BY <1>2 DEF Typed
<1>11. IdsAreNew'
  <2>1. IdsAreNew
    BY DEF Typed
  <2>2. ASSUME NEW r \in Req, Inserting(req[r])', NEW x \in rows'
        PROVE  x.id # req'[r].row.id
    <3>1. Inserting(req[r]) /\ req'[r] = req[r]
      BY <1>1, <2>2 DEF Inserting
    <3>2. PICK y \in rows : x.id = y.id
      OBVIOUS
    <3> QED BY <2>1, <3>1, <3>2 DEF IdsAreNew
  <2>3. ASSUME NEW s \in Req, NEW t \in Req, Inserting(req[s])', Inserting(req[t])',
               req'[s].row.id = req'[t].row.id
        PROVE  s = t
    BY <1>1, <2>1, <2>3 DEF IdsAreNew, Inserting
  <2> QED BY <2>2, <2>3 DEF IdsAreNew
<1> QED BY <1>4, <1>8, <1>9, <1>10, <1>11 DEF Typed

LEMMA AddByHandTyped ==
    ASSUME Typed, AddByHand
    PROVE  Typed'
<1>1. PICK x \in rows : hooks' = {[id |-> Unused(Used), secret |-> x.secret, by |-> "admin"]}
  BY DEF AddByHand
<1>2. PICK n, F : n = Unused(Used) /\ F = {n}
  OBVIOUS
<1>3. n \in Nat \ {0}
  BY <1>2, UnusedIsFree DEF Typed
<1>4. PICK h : h = [id |-> n, secret |-> x.secret, by |-> "admin"]
  OBVIOUS
<1>5. x.secret \in Nat /\ x.secret \in Used
  BY InUse, Remembered DEF Typed, TypeOK, Row
<1>6. h \in Hook /\ h.id = n /\ h.secret = x.secret /\ hooks' = {h}
  BY <1>1, <1>2, <1>3, <1>4, <1>5 DEF Hook
<1>7. UNCHANGED <<provider, rows, sent, req, faults, lost, clashed>> /\ overlap' \in BOOLEAN
  BY DEF AddByHand, Typed, TypeOK
<1>8. TypeOK'
  BY <1>6, <1>7 DEF Typed, TypeOK, KeysUnique
<1>9. IsFiniteSet(F)
  <2>1. F = {} \cup {n}
    BY <1>2
  <2> QED BY <2>1, FS_EmptySet, FS_AddElement
<1>10. \A g \in hooks' : g.id # 0 /\ {g.id, g.secret} \subseteq Used \cup F
  BY <1>2, <1>3, <1>5, <1>6
<1>11. \A y \in rows' : \E z \in rows : y.id = z.id /\ y.hook = z.hook /\ y.secret = z.secret
  BY <1>7
<1>12. UNCHANGED <<provider, req>>
  BY <1>7
<1> QED BY <1>8, <1>9, <1>10, <1>11, <1>12, TypedStill

\* A delivery changes what a row has seen and its status
LEMMA DeliveredIs ==
    ASSUME rows \subseteq Row, NEW x \in rows, NEW h, Delivered(x, h)
    PROVE  \E y \in Row :
              /\ rows' = (rows \ {x}) \cup {y}
              /\ y.id = x.id /\ y.key = x.key /\ y.hook = x.hook /\ y.secret = x.secret
              /\ y.enabled = x.enabled
              /\ UNCHANGED <<provider, hooks, sent, req, faults, lost, overlap, clashed>>
<1>1. PICK status : status = IF x.status = "pending_manual" THEN "active" ELSE x.status
  OBVIOUS
<1>2. PICK y : y = [x EXCEPT !.seen = TRUE, !.status = status]
  OBVIOUS
<1>3. /\ y \in Row /\ y.id = x.id /\ y.key = x.key /\ y.hook = x.hook /\ y.secret = x.secret
      /\ y.enabled = x.enabled
  BY <1>1, <1>2 DEF Row
<1>4. y = [x EXCEPT !.seen = TRUE,
                    !.status = IF @ = "pending_manual" THEN "active" ELSE @]
  BY <1>1, <1>2 DEF Row
<1>5. /\ rows' = (rows \ {x}) \cup {y}
      /\ UNCHANGED <<provider, hooks, sent, req, faults, lost, overlap, clashed>>
  BY <1>4 DEF Delivered
<1> QED BY <1>3, <1>5

LEMMA DeliveredTyped ==
    ASSUME Typed, NEW x \in rows, NEW h, Delivered(x, h)
    PROVE  Typed'
<1>1. PICK y \in Row :
        /\ rows' = (rows \ {x}) \cup {y}
        /\ y.id = x.id /\ y.key = x.key /\ y.hook = x.hook /\ y.secret = x.secret
        /\ y.enabled = x.enabled
        /\ UNCHANGED <<provider, hooks, sent, req, faults, lost, overlap, clashed>>
  BY DeliveredIs DEF Typed, TypeOK
<1>2. TypeOK'
  BY <1>1 DEF Typed, TypeOK, KeysUnique
<1>3. PICK F : F = {}
  OBVIOUS
<1>4. IsFiniteSet(F)
  BY <1>3, FS_EmptySet
<1>5. \A g \in hooks' : g.id # 0 /\ {g.id, g.secret} \subseteq Used \cup F
  BY <1>1, InUse, Remembered DEF Typed
<1>6. \A u \in rows' : \E v \in rows : u.id = v.id /\ u.hook = v.hook /\ u.secret = v.secret
  BY <1>1
<1>7. UNCHANGED <<provider, req>>
  BY <1>1
<1> QED BY <1>2, <1>4, <1>5, <1>6, <1>7, TypedStill

LEMMA TypedFirst == Init => Typed
<1> SUFFICES ASSUME Init
             PROVE  Typed
  OBVIOUS
<1>1. TypeOK
  <2>1. req \in [Req -> Request \cup {None}]
    BY DEF Init
  <2>2. rows \subseteq Row /\ KeysUnique(rows) /\ hooks \subseteq Hook
    BY DEF Init, KeysUnique
  <2>3. \A x, y \in rows : x.id = y.id => x = y
    BY DEF Init
  <2>4. /\ sent = 0 /\ faults = 0 /\ lost = FALSE /\ overlap = FALSE /\ clashed = FALSE
        /\ provider \in Providers
    BY DEF Init
  <2>5. {sent, faults} \subseteq Nat
    BY <2>4
  <2>6. {lost, overlap, clashed} \subseteq BOOLEAN
    BY <2>4, Zenon
  <2> QED BY <2>1, <2>2, <2>3, <2>4, <2>5, <2>6, Zenon DEF TypeOK
<1>2. Working = {}
  BY DEF Init, Working
<1>3. Copies = {} /\ Known = {}
  BY <1>2 DEF Copies, Known, Init
<1>4. Used = {} /\ Ids = {}
  BY <1>3 DEF Used, Ids
<1>5. IdsAreNew
  BY DEF Init, IdsAreNew, Inserting
<1> QED BY <1>1, <1>2, <1>3, <1>4, <1>5, FS_EmptySet DEF Typed

LEMMA TypedNext == Typed /\ [Next]_vars => Typed'
<1> SUFFICES ASSUME Typed, [Next]_vars
             PROVE  Typed'
  OBVIOUS
<1>1. ASSUME NEW r \in Req, Read(r)
      PROVE  Typed'
  BY <1>1, ReadTyped
<1>2. ASSUME NEW r \in Req, Flush(r)
      PROVE  Typed'
  BY <1>2, FlushTyped
<1>3. ASSUME NEW r \in Req, Call(r)
      PROVE  Typed'
  BY <1>3, CallTyped
<1>4. ASSUME NEW r \in Req, Commit(r)
      PROVE  Typed'
  BY <1>4, CommitTyped
<1>5. ASSUME NEW r \in Req, Rollback(r)
      PROVE  Typed'
  BY <1>5, RollbackTyped
<1>6. CASE AddByHand
  BY <1>6, AddByHandTyped
<1>7. ASSUME NEW h \in hooks, NEW x \in rows, Delivered(x, h)
      PROVE  Typed'
  BY <1>7, DeliveredTyped
<1>8. CASE UNCHANGED vars
  BY <1>8 DEF vars, Typed, TypeOK, KeysUnique, Working, Ordered, Used, Ids, Known, Copies,
              IdsAreNew, Inserting
<1> QED BY <1>1, <1>2, <1>3, <1>4, <1>5, <1>6, <1>7, <1>8
        DEF Next, GitLabDelivers, GitFlicDelivers

LEMMA TypedAlways == Spec => []Typed
BY TypedFirst, TypedNext, PTL DEF Spec

\* Every variable has its type, and no two rows of a project have one key or one
\* id: the unique constraint holds over whatever requests overlap, because a
\* commit is refused that would leave two rows with one external_project_id
THEOREM TypeCorrect == Spec => []TypeOK
BY TypedAlways, PTL DEF Typed

-----------------------------------------------------------------------------
(* What is off stays off *)

\* A request that commits what it has made of an enabled row leaves an enabled
\* column as it finds it, unless it switches the row off
LEMMA OffStays ==
    ASSUME Typed, [Next]_vars, NEW x \in rows, NEW y \in rows', x.id = y.id, ~x.enabled, y.enabled
    PROVE  \E r \in Working : req'[r] = None /\ req[r].seen # None /\ ~req[r].seen.enabled
<1>1. rows \subseteq Row /\ \A u, v \in rows : u.id = v.id => u = v
  BY DEF Typed, TypeOK
<1>2. rows' # rows
  BY <1>1
<1>3. CASE \E r \in Req : Commit(r)
  <2>1. PICK r \in Req : Commit(r)
    BY <1>3
  <2>2. PICK q : q = req[r]
    OBVIOUS
  <2>3. /\ q # None /\ q.stage = "called" /\ Ordered(q)
        /\ req' = [req EXCEPT ![r] = None] /\ rows' = Committed(q)
    BY <1>2, <2>1, <2>2, CommitIs
  <2>4. r \in Working /\ req'[r] = None
    BY <2>2, <2>3 DEF Working, Typed, TypeOK
  <2>5. CommittedTo(q, y)
    BY <1>1, <2>3, CommittedIs
  <2>6. CASE y \in rows
    BY <1>1, <2>6
  <2>7. CASE q.seen = None /\ q.row \in Row /\ y = q.row
    BY <2>2, <2>3, <2>7 DEF Typed, IdsAreNew, Inserting
  <2>8. ASSUME q.seen \in Row, q.row \in Row, NEW old \in rows, old.id = q.seen.id,
               y = Written(old, q.seen, q.row)
        PROVE  q.seen # None /\ ~q.seen.enabled
    <3>1. y.id = old.id /\ y.enabled = Column(old.enabled, q.seen.enabled, q.row.enabled)
      <4>1. old \in Row /\ q.seen \in Row /\ q.row \in Row
        BY <1>1, <2>8
      <4>2. PICK z : z = Written(old, q.seen, q.row)
        OBVIOUS
      <4>3. z.id = old.id /\ z.enabled = Column(old.enabled, q.seen.enabled, q.row.enabled)
        BY <4>1, <4>2, WrittenIs
      <4> QED BY <2>8, <4>2, <4>3
    <3>2. old = x
      BY <1>1, <3>1
    <3>3. x.enabled = FALSE /\ y.enabled = TRUE
      BY <1>1, <3>1, <2>8 DEF Column, Row
    <3>4. q.row.enabled = TRUE /\ q.seen.enabled # TRUE
      BY <3>1, <3>2, <3>3 DEF Column
    <3> QED BY <2>8, <3>4, NoneIsNone DEF Row
  <2> QED BY <2>2, <2>4, <2>5, <2>6, <2>7, <2>8 DEF CommittedTo
<1>4. ASSUME NEW h \in hooks, NEW u \in rows, Delivered(u, h)
      PROVE  FALSE
  <2>1. PICK v \in Row : /\ rows' = (rows \ {u}) \cup {v}
                         /\ v.id = u.id /\ v.enabled = u.enabled
    BY <1>1, <1>4, DeliveredIs
  <2> QED BY <1>1, <2>1
<1>5. CASE \E r \in Req : Read(r) \/ Flush(r) \/ Call(r) \/ Rollback(r)
  BY <1>2, <1>5 DEF Read, Flush, Call, Rollback
<1>6. CASE AddByHand
  BY <1>2, <1>6 DEF AddByHand
<1>7. CASE UNCHANGED vars
  BY <1>2, <1>7 DEF vars
<1> QED BY <1>3, <1>4, <1>5, <1>6, <1>7 DEF Next, GitLabDelivers, GitFlicDelivers

\* A request that has read an enabled row, and commits after the row has been
\* switched off, does not switch it on: only one that has read it switched off
\* does, because a commit writes the columns that its request has changed
THEOREM WhatIsOffStaysOff == Spec => OffStaysOff
<1>1. Typed /\ [Next]_vars =>
        [\A x \in rows, y \in rows' :
           x.id = y.id /\ ~x.enabled /\ y.enabled =>
              \E r \in Working : req'[r] = None /\ req[r].seen # None /\ ~req[r].seen.enabled]_vars
  BY OffStays
<1> QED BY <1>1, TypedAlways, PTL DEF Spec, OffStaysOff

-----------------------------------------------------------------------------
(* GitLab's one hook *)

\* Requests that did not overlap were alone
Alone == ~overlap => \A r, s \in Working : r = s

\* A request that does not overlap has the list that GitLab would give
ListIsTrue ==
    provider = "gitlab" /\ ~overlap =>
        \A r \in Working : req[r].stage = "flushed" => req[r].listed = hooks

OneAtMost == provider = "gitlab" /\ ~lost /\ ~overlap => Only(hooks)

Listing == Typed /\ Alone /\ ListIsTrue /\ OneAtMost

LEMMA ListingFirst == Init => Listing
BY TypedFirst DEF Listing, Alone, ListIsTrue, OneAtMost, Only, Working, Init

LEMMA AloneNext ==
    ASSUME Typed, Alone, Next
    PROVE  Alone'
<1>1. ASSUME NEW r \in Req, Read(r)
      PROVE  Alone'
  <2>1. PICK p : req' = [req EXCEPT ![r] = p]
    BY <1>1, ReadIs
  <2>2. Working' \subseteq Working \cup {r}
    BY <2>1, OneRequest DEF Typed, TypeOK
  <2>3. ~overlap' => Working = {}
    BY <1>1 DEF Read
  <2> QED BY <2>2, <2>3 DEF Alone
<1>2. ASSUME NEW r \in Req, NEW p, req' = [req EXCEPT ![r] = p], r \in Working, overlap' = overlap
      PROVE  Alone'
  <2>1. Working' \subseteq Working
    BY <1>2, OneRequest DEF Typed, TypeOK
  <2> QED BY <1>2, <2>1 DEF Alone
<1>3. ASSUME UNCHANGED req, overlap => overlap'
      PROVE  Alone'
  BY <1>3 DEF Alone, Working
<1>4. ASSUME NEW r \in Req, Flush(r)
      PROVE  Alone'
  <2>1. r \in Working /\ overlap' = overlap
    BY <1>4 DEF Flush, Working
  <2>2. \E p : req' = [req EXCEPT ![r] = p]
    BY <1>4, FlushIs
  <2> QED BY <1>2, <2>1, <2>2
<1>5. ASSUME NEW r \in Req, Call(r)
      PROVE  Alone'
  <2>1. r \in Working /\ overlap' = overlap
    BY <1>5 DEF Call, Working
  <2>2. \E p : req' = [req EXCEPT ![r] = p]
    BY <1>5, CallIs
  <2> QED BY <1>2, <2>1, <2>2
<1>6. ASSUME NEW r \in Req, Commit(r) \/ Rollback(r)
      PROVE  Alone'
  <2>1. r \in Working /\ overlap' = overlap /\ req' = [req EXCEPT ![r] = None]
    BY <1>6 DEF Commit, Rollback, End, Working
  <2> QED BY <1>2, <2>1
<1>7. CASE AddByHand \/ \E h \in hooks : GitLabDelivers(h) \/ GitFlicDelivers(h)
  BY <1>3, <1>7 DEF AddByHand, GitLabDelivers, GitFlicDelivers, Delivered
<1> QED BY <1>1, <1>4, <1>5, <1>6, <1>7 DEF Next

LEMMA ListIsTrueNext ==
    ASSUME Typed, Alone, ListIsTrue, Next
    PROVE  ListIsTrue'
<1>1. ASSUME NEW r \in Req, NEW p, req' = [req EXCEPT ![r] = p],
             UNCHANGED <<provider, hooks>>, overlap => overlap',
             p # None /\ p.stage = "flushed" => p.listed = Listed
      PROVE  ListIsTrue'
  <2>1. /\ Working' \subseteq Working \cup {r} /\ req'[r] = p
        /\ \A s \in Req : s # r => req'[s] = req[s]
    BY <1>1, OneRequest DEF Typed, TypeOK
  <2> SUFFICES ASSUME provider' = "gitlab", ~overlap', NEW s \in Working',
                      req'[s].stage = "flushed"
               PROVE  req'[s].listed = hooks'
    BY DEF ListIsTrue
  <2>2. provider = "gitlab" /\ hooks' = hooks /\ Listed = hooks
    BY <1>1 DEF Listed
  <2>3. CASE s = r
    BY <1>1, <2>1, <2>2, <2>3 DEF Working
  <2>4. CASE s # r
    <3>1. s \in Working /\ req'[s] = req[s] /\ ~overlap
      BY <1>1, <2>1, <2>4 DEF Working
    <3> QED BY <2>2, <3>1 DEF ListIsTrue
  <2> QED BY <2>3, <2>4
<1>2. ASSUME NEW r \in Req, Read(r)
      PROVE  ListIsTrue'
  <2>1. /\ UNCHANGED <<provider, hooks>> /\ (overlap => overlap')
    BY <1>2 DEF Read
  <2>2. PICK p : req' = [req EXCEPT ![r] = p] /\ p.listed = Listed
    BY <1>2, ReadIs
  <2> QED BY <1>1, <2>1, <2>2
<1>3. ASSUME NEW r \in Req, Flush(r)
      PROVE  ListIsTrue'
  <2>1. UNCHANGED <<provider, hooks>> /\ (overlap => overlap')
    BY <1>3 DEF Flush
  <2>2. CASE req' = [req EXCEPT ![r] = None]
    <3>1. PICK p : p = None
      OBVIOUS
    <3> QED BY <1>1, <2>1, <2>2, <3>1
  <2>3. CASE req' # [req EXCEPT ![r] = None]
    <3>1. PICK p : req' = [req EXCEPT ![r] = p] /\ p.listed = Listed
      BY <1>3, <2>3, FlushIs
    <3> QED BY <1>1, <2>1, <3>1
  <2> QED BY <2>2, <2>3
<1>4. ASSUME NEW r \in Req, Call(r)
      PROVE  ListIsTrue'
  <2>1. r \in Working /\ overlap' = overlap /\ provider' = provider
    BY <1>4 DEF Call, Working
  <2>2. PICK p : /\ req' = [req EXCEPT ![r] = p]
                 /\ p = None \/ p.stage = "called"
    <3>1. CASE req' = [req EXCEPT ![r] = None]
      <4>1. PICK p : p = None
        OBVIOUS
      <4> QED BY <3>1, <4>1
    <3>2. CASE req' # [req EXCEPT ![r] = None]
      BY <1>4, <3>2, CallIs
    <3> QED BY <3>1, <3>2
  <2>3. Working' \subseteq Working /\ req'[r] = p
    BY <2>1, <2>2, OneRequest DEF Typed, TypeOK
  <2>4. \A s \in Working' : ~overlap => s = r
    BY <2>1, <2>3 DEF Alone
  <2>5. r \in Working' => p.stage = "called"
    BY <2>2, <2>3 DEF Working
  <2> QED BY <2>1, <2>3, <2>4, <2>5 DEF ListIsTrue
<1>5. ASSUME NEW r \in Req, Commit(r) \/ Rollback(r)
      PROVE  ListIsTrue'
  <2>1. /\ req' = [req EXCEPT ![r] = None] /\ UNCHANGED <<provider, hooks>>
        /\ (overlap => overlap')
    BY <1>5 DEF Commit, Rollback, End
  <2>2. PICK p : p = None
    OBVIOUS
  <2> QED BY <1>1, <2>1, <2>2
<1>6. CASE AddByHand
  <2>1. req' = req /\ (~overlap' => Working = {})
    BY <1>6 DEF AddByHand
  <2>2. ~overlap' => Working' = {}
    BY <2>1 DEF Working
  <2> QED BY <2>2 DEF ListIsTrue
<1>7. CASE \E h \in hooks : GitLabDelivers(h) \/ GitFlicDelivers(h)
  <2>1. UNCHANGED <<provider, hooks, req, overlap>>
    BY <1>7 DEF GitLabDelivers, GitFlicDelivers, Delivered
  <2> QED BY <2>1 DEF ListIsTrue, Working
<1> QED BY <1>2, <1>3, <1>4, <1>5, <1>6, <1>7 DEF Next

LEMMA OneAtMostNext ==
    ASSUME Listing, Next
    PROVE  OneAtMost'
<1> USE DEF Listing
<1>1. ASSUME hooks' = hooks, provider' = provider, lost => lost', overlap => overlap'
      PROVE  OneAtMost'
  BY <1>1 DEF OneAtMost
<1>2. ASSUME NEW r \in Req, Call(r)
      PROVE  OneAtMost'
  <2>1. PICK q : q = req[r]
    OBVIOUS
  <2>2. PICK w : w = Work(q)
    OBVIOUS
  <2>3. PICK y : Handling(q, w, y) /\ hooks' = y.hooks /\ lost' = y.lost
    BY <1>2, <2>1, <2>2, CallIs
  <2>4. provider' = provider /\ overlap' = overlap /\ q # None /\ q.stage = "flushed"
    BY <1>2, <2>1 DEF Call
  <2>5. w.hooks = hooks /\ w.listed = q.listed /\ w.lost = lost
    BY <2>1, <2>2, <2>4, WorkFits
  <2> SUFFICES ASSUME provider = "gitlab", ~lost', ~overlap
               PROVE  Only(hooks')
    BY <2>4 DEF OneAtMost
  <2>6. Single(w, y)
    BY <2>3 DEF Handling
  <2>7. w.listed = w.hooks
    BY <2>1, <2>4, <2>5 DEF ListIsTrue, Working
  <2>8. Only(w.hooks)
    BY <2>3, <2>5, <2>6 DEF OneAtMost, Single, Follows
  <2> QED BY <2>3, <2>6, <2>7, <2>8 DEF Single
<1>3. CASE AddByHand
  <2>1. \A h \in hooks' : h.by = "admin"
    BY <1>3 DEF AddByHand
  <2> QED BY <2>1 DEF OneAtMost, Only
<1>4. ASSUME NEW r \in Req, Read(r) \/ Flush(r) \/ Commit(r) \/ Rollback(r)
      PROVE  OneAtMost'
  BY <1>1, <1>4 DEF Read, Flush, Commit, Rollback
<1>5. CASE \E h \in hooks : GitLabDelivers(h) \/ GitFlicDelivers(h)
  <2>1. UNCHANGED <<provider, hooks, lost, overlap>>
    BY <1>5 DEF GitLabDelivers, GitFlicDelivers, Delivered
  <2> QED BY <1>1, <2>1
<1> QED BY <1>2, <1>3, <1>4, <1>5 DEF Next

LEMMA ListingNext == Listing /\ [Next]_vars => Listing'
<1> SUFFICES ASSUME Listing, [Next]_vars
             PROVE  Listing'
  OBVIOUS
<1>1. Typed'
  BY TypedNext DEF Listing
<1>2. CASE Next
  BY <1>1, <1>2, AloneNext, ListIsTrueNext, OneAtMostNext DEF Listing
<1>3. CASE UNCHANGED vars
  BY <1>1, <1>3 DEF Listing, Alone, ListIsTrue, OneAtMost, Working, vars
<1> QED BY <1>2, <1>3

LEMMA OnlyIsOne ==
    ASSUME Only(hooks)
    PROVE  ~(Cardinality(AppHooks) > 1)
<1>1. CASE AppHooks = {}
  BY <1>1, FS_EmptySet
<1>2. CASE AppHooks # {}
  <2>1. PICK h : h \in AppHooks
    BY <1>2
  <2>2. AppHooks = {h}
    BY <2>1 DEF AppHooks, Only
  <2>3. Cardinality({h}) = 1
    BY FS_Singleton
  <2> QED BY <2>2, <2>3
<1> QED BY <1>1, <1>2

\* GitLab's client takes the hook that it lists for its own, so that a project
\* has one hook of the application after any number of failed calls, rolled back
\* requests and refused commits, as long as no answer to a POST was lost and no
\* two requests overlapped
THEOREM GitLabHasOneHook == Spec => []OneHook
<1>1. Spec => []Listing
  BY ListingFirst, ListingNext, PTL DEF Spec
<1>2. Listing => OneHook
  BY OnlyIsOne DEF Listing, OneAtMost, OneHook
<1> QED BY <1>1, <1>2, PTL

-----------------------------------------------------------------------------
(* Hooks and secrets agree *)

Agrees(x, set) == \A h \in set : x.hook = h.id => x.secret = h.secret

\* GitHub's rows have both or neither; Bitbucket's get a hook with the uuid
Regular(x) ==
    /\ provider = "github" => (x.hook = 0 <=> x.secret = 0)
    /\ provider = "bitbucket" /\ ~overlap /\ x.key = "path" => x.hook = 0

\* Hook and secret change together, or the hook is forgotten, or there was none and
\* Bitbucket has refused one
PairedAt(seen, row, f) ==
    \/ row.hook = seen.hook /\ row.secret = seen.secret
    \/ row.hook = 0 /\ seen.hook # 0
    \/ row.hook # seen.hook /\ row.secret # seen.secret
    \/ provider = "bitbucket" /\ f > 0 /\ row.hook = seen.hook /\ row.hook = 0

Paired(seen, row) == PairedAt(seen, row, faults)

\* A request has changed nothing before the call, and pairs what it changes;
\* one that works alone for Bitbucket has seen what a commit will find
Paces(q) ==
    q.seen # None =>
        /\ q.stage # "called" => Alike(q.seen, q.row)
        /\ q.row # None => Paired(q.seen, q.row)
        /\ provider = "bitbucket" /\ ~overlap => q.seen \in rows

Agreed ==
    KeepsSecrets =>
        /\ \A x \in Copies : Agrees(x, hooks) /\ Regular(x)
        /\ \A r \in Working : Paces(req[r])

Agreement == Typed /\ Alone /\ Agreed

LEMMA AgreementFirst == Init => Agreement
<1> SUFFICES ASSUME Init
             PROVE  Agreement
  OBVIOUS
<1>1. Working = {}
  BY DEF Init, Working
<1>2. Copies = {}
  BY <1>1 DEF Copies, Init
<1> QED BY <1>1, <1>2, TypedFirst DEF Agreement, Alone, Agreed

\* What is kept by a step was kept before it
LEMMA KeptBefore ==
    ASSUME Typed, provider' = provider, faults' \in Nat, faults' >= faults, overlap => overlap',
           KeepsSecrets'
    PROVE  KeepsSecrets
BY DEF KeepsSecrets, Typed, TypeOK

\* A step of one request that leaves rows and hooks agrees when its copies do
LEMMA AgreedAfter ==
    ASSUME Agreement, NEW r \in Req, NEW p, req' = [req EXCEPT ![r] = p],
           UNCHANGED <<provider, rows>>, faults' \in Nat, faults' >= faults, overlap => overlap',
           KeepsSecrets' =>
              /\ \A x \in Copies : Agrees(x, hooks) => Agrees(x, hooks')
              /\ \A x \in Remembers(p) : Agrees(x, hooks') /\ Regular(x)
              /\ p # None => Paces(p)'
    PROVE  Agreed'
<1> SUFFICES ASSUME KeepsSecrets'
             PROVE  /\ \A x \in Copies' : Agrees(x, hooks)' /\ Regular(x)'
                    /\ \A s \in Working' : Paces(req[s])'
  BY DEF Agreed
<1>1. KeepsSecrets
  BY KeptBefore DEF Agreement
<1>2. /\ Copies' \subseteq rows \cup Copies \cup Remembers(p)
      /\ Working' \subseteq Working \cup {r} /\ req'[r] = p
      /\ \A s \in Req : s # r => req'[s] = req[s]
  BY OneRequest DEF Agreement, Typed, TypeOK
<1>3. ASSUME NEW x \in Copies'
      PROVE  Agrees(x, hooks') /\ Regular(x)'
  <2>1. Regular(x) => Regular(x)'
    BY DEF Regular
  <2>2. CASE x \in Remembers(p)
    BY <2>1, <2>2
  <2>3. CASE x \in Copies
    BY <1>1, <2>1, <2>3 DEF Agreement, Agreed
  <2> QED BY <1>2, <2>2, <2>3, Remembered
<1>4. ASSUME NEW s \in Working'
      PROVE  Paces(req[s])'
  <2>1. PICK q : q = req'[s]
    OBVIOUS
  <2>2. q # None /\ s \in Req
    BY <2>1 DEF Working
  <2>3. CASE s = r
    BY <1>2, <2>1, <2>2, <2>3 DEF Paces, Paired, PairedAt
  <2>4. CASE s # r
    <3>1. s \in Working /\ q = req[s]
      BY <1>2, <2>1, <2>2, <2>4 DEF Working
    <3>2. Paces(q)
      BY <1>1, <3>1 DEF Agreement, Agreed
    <3> QED BY <2>1, <3>2 DEF Paces, Paired, PairedAt, Agreement, Typed, TypeOK
  <2> QED BY <2>3, <2>4
<1> QED BY <1>3, <1>4

LEMMA ReadAgreed ==
    ASSUME Agreement, NEW r \in Req, Read(r)
    PROVE  Agreed'
<1>1. PICK p : /\ req' = [req EXCEPT ![r] = p] /\ p.seen \in rows \cup {None}
               /\ p.row = p.seen
  BY ReadIs DEF Agreement
<1>2. /\ UNCHANGED <<provider, rows, hooks, faults>> /\ (overlap => overlap')
      /\ faults' \in Nat /\ faults' >= faults
  BY DEF Read, Agreement, Typed, TypeOK
<1>3. Remembers(p) \subseteq Copies
  BY <1>1, Remembered DEF Remembers
<1>4. Paces(p)'
  BY <1>1, <1>2 DEF Paces, Alike, Paired, PairedAt
<1>5. KeepsSecrets' => \A x \in Copies : Agrees(x, hooks) /\ Regular(x)
  BY <1>2, KeptBefore DEF Agreement, Agreed
<1> QED BY <1>1, <1>2, <1>3, <1>4, <1>5, AgreedAfter

LEMMA EndAgreed ==
    ASSUME Agreement, NEW r \in Req, req' = [req EXCEPT ![r] = None],
           UNCHANGED <<provider, rows>>, \A h \in hooks' : h \in hooks \/ h.id \notin Used,
           faults' \in Nat, faults' >= faults, overlap => overlap'
    PROVE  Agreed'
<1>1. PICK p : p = None
  OBVIOUS
<1>2. req' = [req EXCEPT ![r] = p] /\ Remembers(p) = {}
  BY <1>1 DEF Remembers
<1>3. \A x \in Copies : Agrees(x, hooks) => Agrees(x, hooks')
  BY InUse DEF Agrees
<1>4. UNCHANGED <<provider, rows>>
  OBVIOUS
<1> QED BY <1>1, <1>2, <1>3, <1>4, AgreedAfter

LEMMA FlushAgreed ==
    ASSUME Agreement, NEW r \in Req, Flush(r)
    PROVE  Agreed'
<1>1. /\ UNCHANGED <<provider, rows, hooks, faults, overlap>>
      /\ faults' \in Nat /\ faults' >= faults
  BY DEF Flush, Agreement, Typed, TypeOK
<1>2. CASE req' = [req EXCEPT ![r] = None]
  BY <1>1, <1>2, EndAgreed
<1>3. CASE req' # [req EXCEPT ![r] = None]
  <2>1. PICK q : q = req[r]
    OBVIOUS
  <2>2. q # None /\ q.stage = "read" /\ Ordered(q) /\ r \in Working
    BY <2>1 DEF Flush, Agreement, Typed, Working
  <2>3. PICK p : /\ req' = [req EXCEPT ![r] = p] /\ p.seen = q.seen
                 /\ p.row = Upserted(q) /\ p.row \in Row /\ p.stage = "flushed"
    BY <1>3, <2>1, FlushIs DEF Agreement
  <2>4. /\ q.seen # None => Alike(q.seen, p.row)
        /\ q.seen = None => p.row.hook = 0 /\ (q.op = "watch" => p.row.secret = 0)
    BY <2>2, <2>3, UpsertedIs DEF Agreement
  <2>5. ASSUME KeepsSecrets'
        PROVE  /\ \A x \in Remembers(p) : Agrees(x, hooks') /\ Regular(x)
               /\ Paces(p)'
    <3>1. KeepsSecrets
      BY <1>1, <2>5, KeptBefore DEF Agreement
    <3>2. q.seen # None => Agrees(q.seen, hooks) /\ Regular(q.seen)
      BY <2>1, <2>2, <3>1, Remembered DEF Agreement, Agreed
    <3>3. \A h \in hooks : h.id # 0
      BY Remembered DEF Agreement, Typed
    <3>4. q.op \in {"watch", "init"} /\ (q.op = "init" => provider \in {"gitlab", "bitbucket_dc"})
      BY <2>2 DEF Ordered
    <3>5. Agrees(p.row, hooks) /\ Regular(p.row)
      BY <2>4, <3>2, <3>3, <3>4 DEF Agrees, Regular, Alike
    <3>6. Paces(q)
      BY <2>1, <2>2, <3>1 DEF Agreement, Agreed
    <3>7. Paces(p)'
      BY <1>1, <2>3, <2>4, <3>6 DEF Paces, Paired, PairedAt, Alike
    <3>8. Remembers(p) \subseteq {q.seen, p.row} \ {None}
      BY <2>3 DEF Remembers
    <3> QED BY <1>1, <3>2, <3>5, <3>7, <3>8
  <2>6. UNCHANGED <<provider, rows>> /\ (overlap => overlap')
    BY <1>1
  <2>7. \A x \in Copies : Agrees(x, hooks) => Agrees(x, hooks')
    BY <1>1
  <2> QED BY <1>1, <2>3, <2>5, <2>6, <2>7, AgreedAfter
<1> QED BY <1>2, <1>3

\* The work of a request for a provider that keeps hooks and secrets together
LEMMA CallPaired ==
    ASSUME NEW q, Ordered(q), q.stage = "flushed", NEW w, Fits(w), NEW y, Handling(q, w, y),
           w.row = q.row, Owns(w), Keeps(w), provider # "gitlab",
           w.faults \in Nat, y.faults \in Nat,
           provider = "github" => y.faults = 0,
           provider = "bitbucket" => y.faults = 0 \/ ~overlap,
           Regular(q.row), q.seen # None => Alike(q.seen, q.row)
    PROVE  Keeps(y) /\ Regular(y.row) /\ (q.seen # None => PairedAt(q.seen, y.row, y.faults))
<1>1. Follows(w, y) /\ (\A h \in y.hooks : h.id # 0) /\ y.faults >= w.faults
  BY DEF Handling, Follows, Fits
<1>2. provider = "bitbucket" => PathKept(w, y)
  BY DEF Handling
<1>3. CASE Safe(w, y)
  <2>1. Keeps(y) /\ Together(w, y)
    BY <1>3 DEF Safe
  <2>2. Regular(y.row)
    BY <1>2, <2>1 DEF Together, Regular, PathKept
  <2>3. q.seen # None => PairedAt(q.seen, y.row, y.faults)
    BY <2>1 DEF Together, Owns, Regular, Alike, PairedAt
  <2> QED BY <2>1, <2>2, <2>3
<1>4. CASE Parted(w, y)
  <2>1. /\ y.row.hook = w.row.hook /\ y.faults > w.faults
        /\ \/ provider = "github"
           \/ provider = "bitbucket" /\ w.row.key = "path" /\ y.row.key = "uuid"
    BY <1>4 DEF Parted
  <2>2. y.faults # 0 /\ y.faults > 0
    BY <2>1
  <2>3. provider = "bitbucket" /\ ~overlap /\ w.row.key = "path" /\ y.row.key = "uuid"
    BY <2>1, <2>2
  <2>4. w.row.hook = 0 /\ y.row.hook = 0
    BY <2>1, <2>3 DEF Regular
  <2>5. Keeps(y)
    BY <1>1, <2>4 DEF Keeps
  <2>6. Regular(y.row)
    BY <2>3 DEF Regular
  <2>7. q.seen # None => PairedAt(q.seen, y.row, y.faults)
    BY <2>2, <2>3, <2>4 DEF PairedAt, Alike
  <2> QED BY <2>5, <2>6, <2>7
<1>5. CASE q.op = "init" /\ Joined(w, y)
  <2>1. Keeps(y) /\ q.seen = None /\ provider = "bitbucket_dc"
    BY <1>5 DEF Joined, Ordered
  <2> QED BY <2>1 DEF Regular
<1> QED BY <1>3, <1>4, <1>5 DEF Handling

LEMMA CallAgreed ==
    ASSUME Agreement, NEW r \in Req, Call(r)
    PROVE  Agreed'
<1>1. PICK q : q = req[r]
  OBVIOUS
<1>2. PICK w : w = Work(q)
  OBVIOUS
<1>3. PICK y : /\ Handling(q, w, y) /\ y \in WorkType
               /\ hooks' = y.hooks /\ faults' = y.faults
               /\ \/ req' = [req EXCEPT ![r] = None]
                  \/ \E p : /\ req' = [req EXCEPT ![r] = p] /\ Ordered(p)
                            /\ p.op = q.op /\ p.seen = q.seen /\ p.stage = "called"
                            /\ p.listed = {}
                            /\ p.row = y.row \/ (p.row = None /\ q.op = "purge")
  BY <1>1, <1>2, CallIs DEF Agreement
<1>4. /\ UNCHANGED <<provider, rows, overlap>> /\ (overlap => overlap')
      /\ q # None /\ q.stage = "flushed" /\ r \in Working
  BY <1>1 DEF Call, Working
<1>5. /\ Ordered(q) /\ Fits(w) /\ w.row = q.row /\ w.hooks = hooks /\ w.used = Used
      /\ w.faults = faults /\ q.row \in Row
  BY <1>1, <1>2, <1>4, WorkFits DEF Asked, Agreement
<1>6. Follows(w, y)
  BY <1>3 DEF Handling
<1>7. faults \in Nat /\ faults' \in Nat /\ faults' >= faults
  BY <1>3, <1>5, <1>6 DEF Follows, WorkType, Agreement, Typed, TypeOK
<1>8. \A h \in hooks' : h \in hooks \/ h.id \notin Used
  BY <1>3, <1>5, <1>6 DEF Follows
<1>9. CASE req' = [req EXCEPT ![r] = None]
  BY <1>4, <1>7, <1>8, <1>9, EndAgreed
<1>10. CASE req' # [req EXCEPT ![r] = None]
  <2>1. PICK p : /\ req' = [req EXCEPT ![r] = p]
                 /\ p.seen = q.seen /\ p.stage = "called"
                 /\ p.row = y.row \/ p.row = None
    BY <1>3, <1>10
  <2>2. \A x \in Copies : Agrees(x, hooks) => Agrees(x, hooks')
    BY <1>8, InUse DEF Agrees
  <2>3. ASSUME KeepsSecrets'
        PROVE  /\ \A x \in Remembers(p) : Agrees(x, hooks') /\ Regular(x)
               /\ Paces(p)'
    <3>1. KeepsSecrets
      BY <1>4, <1>7, <2>3, KeptBefore DEF Agreement
    <3>2. q.row \in Copies /\ (q.seen # None => q.seen \in Copies)
      BY <1>1, <1>4, <1>5, Remembered, NoneIsNone
    <3>3. Agrees(q.row, hooks) /\ Regular(q.row)
      BY <3>1, <3>2 DEF Agreement, Agreed
    <3>4. q.seen # None => Agrees(q.seen, hooks) /\ Regular(q.seen)
      BY <3>1, <3>2 DEF Agreement, Agreed
    <3>5. Paces(q)
      BY <1>1, <1>4, <3>1 DEF Agreement, Agreed
    <3>6. Owns(w) /\ Keeps(w)
      BY <1>5, <3>2, <3>3, InUse DEF Owns, Keeps, Agrees
    <3>7. /\ provider # "gitlab"
          /\ provider = "github" => y.faults = 0
          /\ provider = "bitbucket" => y.faults = 0 \/ ~overlap
      BY <1>3, <1>4, <2>3 DEF KeepsSecrets
    <3>8. w.faults \in Nat /\ y.faults \in Nat /\ (q.seen # None => Alike(q.seen, q.row))
      BY <1>3, <1>4, <1>5, <1>7, <3>5 DEF Paces
    <3>9. Keeps(y) /\ Regular(y.row) /\ (q.seen # None => PairedAt(q.seen, y.row, y.faults))
      BY <1>3, <1>4, <1>5, <3>3, <3>6, <3>7, <3>8, CallPaired
    <3>10. Agrees(y.row, hooks')
      BY <1>3, <3>9 DEF Keeps, Agrees
    <3>11. \A x \in Remembers(p) : Agrees(x, hooks') /\ Regular(x)
      BY <2>1, <2>2, <3>2, <3>4, <3>9, <3>10 DEF Remembers
    <3>12. Paces(p)'
      BY <1>3, <1>4, <2>1, <3>5, <3>9 DEF Paces, Paired, PairedAt
    <3> QED BY <3>11, <3>12
  <2>4. UNCHANGED <<provider, rows>>
    BY <1>4
  <2> QED BY <1>4, <1>7, <2>1, <2>2, <2>3, <2>4, AgreedAfter
<1> QED BY <1>9, <1>10

\* The columns that a commit writes keep hook and secret together
LEMMA WrittenAgrees ==
    ASSUME NEW old \in Row, NEW seen \in Row, NEW row \in Row, NEW x, x = Written(old, seen, row),
           NEW S, \A h \in S : h.id # 0, NEW f, PairedAt(seen, row, f),
           Agrees(old, S), Agrees(row, S), Regular(old), Regular(seen), Regular(row),
           provider = "bitbucket" /\ f > 0 => ~overlap,
           provider = "bitbucket" /\ ~overlap => old = seen
    PROVE  Agrees(x, S) /\ Regular(x)
<1>1. /\ x.hook = Column(old.hook, seen.hook, row.hook)
      /\ x.secret = Column(old.secret, seen.secret, row.secret)
      /\ x.key = Column(old.key, seen.key, row.key)
  BY WrittenIs
<1>2. CASE row.hook = seen.hook /\ row.secret = seen.secret
  <2>1. x.hook = old.hook /\ x.secret = old.secret
    BY <1>1, <1>2 DEF Column
  <2>2. provider = "bitbucket" /\ ~overlap => x.hook = row.hook /\ x.key = row.key
    BY <1>1, <1>2, <2>1 DEF Column
  <2> QED BY <2>1, <2>2 DEF Agrees, Regular
<1>3. CASE row.hook = 0 /\ seen.hook # 0
  <2>1. x.hook = 0
    BY <1>1, <1>3 DEF Column
  <2>2. provider = "github" => x.secret = 0
    BY <1>1, <1>3 DEF Column, Regular
  <2> QED BY <2>1, <2>2 DEF Agrees, Regular
<1>4. CASE row.hook # seen.hook /\ row.secret # seen.secret
  <2>1. x.hook = row.hook /\ x.secret = row.secret
    BY <1>1, <1>4 DEF Column
  <2>2. provider = "bitbucket" /\ ~overlap => x.key = row.key
    BY <1>1 DEF Column
  <2> QED BY <2>1, <2>2 DEF Agrees, Regular
<1>5. CASE provider = "bitbucket" /\ f > 0 /\ row.hook = seen.hook /\ row.hook = 0
  <2>1. x.hook = 0
    BY <1>1, <1>5 DEF Column
  <2> QED BY <1>5, <2>1 DEF Agrees, Regular
<1> QED BY <1>2, <1>3, <1>4, <1>5 DEF PairedAt

LEMMA CommitAgreed ==
    ASSUME Agreement, NEW r \in Req, Commit(r)
    PROVE  Agreed'
<1>1. PICK q : q = req[r]
  OBVIOUS
<1>2. /\ q # None /\ q.stage = "called" /\ Ordered(q)
      /\ req' = [req EXCEPT ![r] = None]
      /\ UNCHANGED <<provider, hooks, sent, faults, lost, overlap>>
      /\ rows' = rows \/ rows' = Committed(q)
  BY <1>1, CommitIs DEF Agreement
<1>3. UNCHANGED <<provider, hooks, faults, overlap>> /\ faults' \in Nat /\ faults' >= faults
  BY <1>2 DEF Agreement, Typed, TypeOK
<1>4. CASE rows' = rows
  <2>1. UNCHANGED <<provider, rows>> /\ hooks' \subseteq hooks /\ (overlap => overlap')
    BY <1>3, <1>4
  <2> QED BY <1>2, <1>3, <2>1, EndAgreed
<1>5. CASE rows' = Committed(q)
  <2> SUFFICES ASSUME KeepsSecrets'
               PROVE  /\ \A x \in Copies' : Agrees(x, hooks)' /\ Regular(x)'
                      /\ \A s \in Working' : Paces(req[s])'
    BY DEF Agreed
  <2>1. KeepsSecrets
    BY <1>3, KeptBefore DEF Agreement
  <2>2. PICK p : p = None
    OBVIOUS
  <2>3. /\ Copies' \subseteq rows' \cup Copies \cup Remembers(p)
        /\ Working' \subseteq Working \cup {r} /\ req'[r] = p
        /\ \A s \in Req : s # r => req'[s] = req[s]
    BY <1>2, <2>2, OneRequest DEF Agreement, Typed, TypeOK
  <2>4. \A x \in Copies : Agrees(x, hooks) /\ Regular(x)
    BY <2>1 DEF Agreement, Agreed
  <2>5. r \in Working /\ Paces(q)
    BY <1>1, <1>2, <2>1 DEF Working, Agreement, Agreed
  <2>6. \A h \in hooks : h.id # 0
    BY Remembered DEF Agreement, Typed
  <2>7. rows \subseteq Row /\ \A u, v \in rows : u.id = v.id => u = v
    BY DEF Agreement, Typed, TypeOK
  <2>8. ASSUME NEW x \in rows'
        PROVE  Agrees(x, hooks) /\ Regular(x)
    <3>1. CommittedTo(q, x)
      BY <1>2, <1>5, <2>7, <2>8, CommittedIs
    <3>2. CASE x \in rows
      BY <2>4, <3>2, Remembered
    <3>3. CASE q.seen = None /\ q.row \in Row /\ x = q.row
      BY <1>1, <1>2, <2>4, <3>3, Remembered, NoneIsNone
    <3>4. ASSUME q.seen \in Row, q.row \in Row, NEW old \in rows, old.id = q.seen.id,
                 x = Written(old, q.seen, q.row)
          PROVE  Agrees(x, hooks) /\ Regular(x)
      <4>1. old \in Copies /\ q.seen \in Copies /\ q.row \in Copies
        BY <1>1, <1>2, <3>4, Remembered, NoneIsNone
      <4>2. /\ Agrees(old, hooks) /\ Agrees(q.row, hooks)
            /\ Regular(old) /\ Regular(q.seen) /\ Regular(q.row)
        BY <2>4, <4>1
      <4>3. PICK seen, row, f, S : seen = q.seen /\ row = q.row /\ f = faults /\ S = hooks
        OBVIOUS
      <4>4. seen # None /\ row # None
        BY <3>4, <4>3, NoneIsNone
      <4>5. PairedAt(seen, row, f)
        BY <2>5, <4>3, <4>4 DEF Paces, Paired
      <4>6. provider = "bitbucket" /\ f > 0 => ~overlap
        BY <2>1, <4>3 DEF KeepsSecrets, Agreement, Typed, TypeOK
      <4>7. provider = "bitbucket" /\ ~overlap => old = seen
        BY <2>5, <2>7, <3>4, <4>3, <4>4 DEF Paces
      <4>8. old \in Row /\ seen \in Row /\ row \in Row /\ x = Written(old, seen, row)
        BY <2>7, <3>4, <4>3
      <4>9. Agrees(x, S) /\ Regular(x)
        BY <2>6, <4>2, <4>3, <4>5, <4>6, <4>7, <4>8, WrittenAgrees
      <4> QED BY <4>3, <4>9
    <3> QED BY <3>1, <3>2, <3>3, <3>4 DEF CommittedTo
  <2>9. ASSUME NEW x \in Copies'
        PROVE  Agrees(x, hooks)' /\ Regular(x)'
    <3>1. x \in rows' \cup Copies
      BY <2>2, <2>3 DEF Remembers
    <3>2. Agrees(x, hooks) /\ Regular(x)
      BY <2>4, <2>8, <3>1
    <3> QED BY <1>3, <3>2 DEF Agrees, Regular
  <2>10. ASSUME NEW s \in Working'
         PROVE  Paces(req[s])'
    <3>1. s \in Working /\ s # r /\ req'[s] = req[s]
      BY <2>2, <2>3 DEF Working
    <3>2. Paces(req[s]) /\ overlap
      BY <2>1, <2>5, <3>1 DEF Agreement, Agreed, Alone
    <3> QED BY <1>3, <3>1, <3>2 DEF Paces, Paired, PairedAt
  <2> QED BY <2>9, <2>10
<1> QED BY <1>2, <1>4, <1>5

LEMMA AddByHandAgreed ==
    ASSUME Agreement, AddByHand
    PROVE  Agreed'
<1>1. UNCHANGED <<provider, rows, req, faults>> /\ (overlap => overlap')
  BY DEF AddByHand
<1>2. faults' \in Nat /\ faults' >= faults
  BY <1>1 DEF Agreement, Typed, TypeOK
<1>3. \A h \in hooks' : h.id \notin Used
  <2>1. Unused(Used) \notin Used
    BY UnusedIsFree DEF Agreement, Typed
  <2> QED BY <2>1 DEF AddByHand
<1>4. Copies' = Copies /\ Working' = Working
  BY <1>1 DEF Copies, Working
<1> SUFFICES ASSUME KeepsSecrets'
             PROVE  /\ \A x \in Copies' : Agrees(x, hooks)' /\ Regular(x)'
                    /\ \A s \in Working' : Paces(req[s])'
  BY DEF Agreed
<1>5. KeepsSecrets
  BY <1>1, <1>2, KeptBefore DEF Agreement
<1>6. \A x \in Copies' : Agrees(x, hooks)' /\ Regular(x)'
  BY <1>1, <1>3, <1>4, <1>5, InUse DEF Agreement, Agreed, Agrees, Regular
<1>7. \A s \in Working' : Paces(req[s])'
  BY <1>1, <1>4, <1>5 DEF Agreement, Agreed, Paces, Paired, PairedAt
<1> QED BY <1>6, <1>7

LEMMA DeliveredAgreed ==
    ASSUME Agreement, provider # "bitbucket", NEW x \in rows, NEW h, Delivered(x, h)
    PROVE  Agreed'
<1>1. PICK y \in Row :
        /\ rows' = (rows \ {x}) \cup {y}
        /\ y.id = x.id /\ y.key = x.key /\ y.hook = x.hook /\ y.secret = x.secret
        /\ y.enabled = x.enabled
        /\ UNCHANGED <<provider, hooks, sent, req, faults, lost, overlap, clashed>>
  BY DeliveredIs DEF Agreement, Typed, TypeOK
<1>2. Working' = Working /\ \A s \in Working : req'[s] = req[s]
  BY <1>1 DEF Working
<1>3. Copies' \subseteq Copies \cup {y}
  BY <1>1, <1>2 DEF Copies
<1> SUFFICES ASSUME KeepsSecrets'
             PROVE  /\ \A u \in Copies' : Agrees(u, hooks)' /\ Regular(u)'
                    /\ \A s \in Working' : Paces(req[s])'
  BY DEF Agreed
<1>4. KeepsSecrets
  BY <1>1 DEF KeepsSecrets
<1>5. \A u \in Copies : Agrees(u, hooks) /\ Regular(u)
  BY <1>4 DEF Agreement, Agreed
<1>6. Agrees(y, hooks) /\ Regular(y)
  BY <1>1, <1>5, Remembered DEF Agrees, Regular
<1>7. \A u \in Copies' : Agrees(u, hooks)' /\ Regular(u)'
  BY <1>1, <1>3, <1>5, <1>6 DEF Agrees, Regular
<1>8. \A s \in Working' : Paces(req[s])'
  BY <1>1, <1>2, <1>4 DEF Agreement, Agreed, Paces, Paired, PairedAt
<1> QED BY <1>7, <1>8

LEMMA AgreementNext == Agreement /\ [Next]_vars => Agreement'
<1> SUFFICES ASSUME Agreement, [Next]_vars
             PROVE  Agreement'
  OBVIOUS
<1>1. Typed'
  BY TypedNext DEF Agreement
<1>2. CASE Next
  <2>1. Alone'
    BY <1>2, AloneNext DEF Agreement
  <2>2. ASSUME NEW r \in Req, Rollback(r)
        PROVE  Agreed'
    <3>1. /\ req' = [req EXCEPT ![r] = None] /\ UNCHANGED <<provider, rows, hooks, overlap>>
          /\ faults' = faults + 1
      BY <2>2 DEF Rollback, End
    <3>2. faults' \in Nat /\ faults' >= faults
      BY <3>1 DEF Agreement, Typed, TypeOK
    <3> QED BY <3>1, <3>2, EndAgreed
  <2>3. ASSUME NEW h \in hooks, NEW x \in rows, provider # "bitbucket", Delivered(x, h)
        PROVE  Agreed'
    BY <2>3, DeliveredAgreed
  <2>4. Agreed'
    BY <1>2, <2>2, <2>3, ReadAgreed, FlushAgreed, CallAgreed, CommitAgreed, AddByHandAgreed
       DEF Next, GitLabDelivers, GitFlicDelivers
  <2> QED BY <1>1, <2>1, <2>4 DEF Agreement
<1>3. CASE UNCHANGED vars
  BY <1>1, <1>3 DEF Agreement, Alone, Agreed, KeepsSecrets, Copies, Working, Agrees, Regular,
                    Paces, Paired, PairedAt, vars
<1> QED BY <1>2, <1>3

\* A delivery of the hook that a row knows is signed with the row's secret: at
\* GitFlic and Bitbucket Data Center whatever fails or overlaps, at Bitbucket Cloud
\* unless a call failed and requests overlapped, at GitHub as long as no call fails
THEOREM HooksAndSecretsAgree == Spec => []SecretAgrees
<1>1. Spec => []Agreement
  BY AgreementFirst, AgreementNext, PTL DEF Spec
<1>2. Agreement => SecretAgrees
  BY Remembered DEF Agreement, Agreed, Agrees, SecretAgrees
<1> QED BY <1>1, <1>2, PTL

-----------------------------------------------------------------------------
(* Without faults and overlap: a row that promises a hook has one. Bitbucket *)
(* Cloud is left out, whose PATCH of the mode makes no hook.                 *)

\* What a row must be to promise a hook, apart from its status, and when it does
Wants(x) ==
    /\ provider \in {"gitlab", "github"} => x.mode \in HookModes
    /\ provider # "gitflic" => x.enabled = TRUE

Demands(x) ==
    /\ Wants(x)
    /\ provider = "gitlab" => x.status = "active" \/ x.seen = TRUE
    /\ provider = "gitflic" => x.status = "active"
    /\ provider = "bitbucket_dc" => x.status # "pending_manual"

\* The hook that the row knows exists
Stands(x, set) == x.hook # 0 => \E h \in set : h.id = x.hook

\* No call has failed, and GitLab has one hook at most, which is listed
Calm(w) ==
    /\ Fits(w) /\ w.faults = 0 /\ w.lost = FALSE /\ w.raised = FALSE
    /\ Stands(w.row, w.hooks)
    /\ provider = "gitlab" => w.listed = w.hooks /\ \A g, h \in w.hooks : g = h

\* The row gets a hook or has one, loses it and promises none, or stays as it is
Hooked(w, x) ==
    /\ w.hooks \subseteq x.hooks
    /\ \E h \in x.hooks : h.id = x.row.hook
    /\ provider = "gitlab" => \A g, h \in x.hooks : g = h

Unhooked(w, x) ==
    /\ x.row.hook = 0 /\ ~Wants(x.row)
    /\ provider = "gitlab" => x.hooks = {h \in w.hooks : h.id # w.row.hook}

StatusStays(w, x) ==
    \/ x.row.status = w.row.status
    \/ provider = "github"
    \/ provider = "gitlab" /\ w.row.seen = TRUE
    \/ provider = "bitbucket_dc" /\ w.row.status = "disabled"

Untouched(w, x) ==
    /\ x.hooks = w.hooks /\ x.row.hook = w.row.hook
    /\ ~Wants(x.row) \/ (Wants(w.row) /\ StatusStays(w, x))

\* No fault: nothing is lost or raised
Smooth(w, x) == Fits(x) /\ x.lost = FALSE /\ x.raised = FALSE /\ x.row.key = w.row.key

Settles(w, x) == Smooth(w, x) /\ (Hooked(w, x) \/ Unhooked(w, x) \/ Untouched(w, x))

-----------------------------------------------------------------------------

\* An answer of a registration
Registered(w, a) ==
    /\ Follows(w, a.w) /\ a.w.row = w.row /\ a.id \in Nat /\ a.id # 0
    /\ a.w.lost = FALSE /\ a.w.raised = FALSE /\ w.hooks \subseteq a.w.hooks
    /\ \E h \in a.w.hooks : h.id = a.id
    /\ provider = "gitlab" => \A g, h \in a.w.hooks : g = h

\* A POST without a fault makes one hook
LEMMA PostSucceeds ==
    ASSUME NEW w, Calm(w), NEW s \in Nat, NEW a, a.id \in Nat, Answers(w, s, a), a.w.faults = 0,
           provider = "gitlab" => w.hooks = {}
    PROVE  Registered(w, a)
<1>1. Follows(w, a.w) /\ a.w.row = w.row /\ a.w.raised = w.raised /\ Fits(a.w)
  BY DEF Answers, Follows
<1>2. ~(a.w.faults > w.faults)
  BY DEF Calm
<1>3. PICK h \in Hook : a.w.lost = w.lost /\ h.id = a.id /\ a.w.hooks = w.hooks \cup {h}
  BY <1>2 DEF Answers
<1>4. a.id # 0
  BY <1>1, <1>3 DEF Fits
<1> QED BY <1>1, <1>3, <1>4 DEF Registered, Calm

LEMMA PostRegisters ==
    ASSUME provider # "gitlab", NEW w, Calm(w), NEW s \in Nat, NEW a \in Posted(w, s),
           a.w.faults = 0
    PROVE  Registered(w, a)
<1>1. Fits(w)
  BY DEF Calm
<1>2. a.id \in Nat /\ Answers(w, s, a)
  BY <1>1, PostAnswers
<1> QED BY <1>2, PostSucceeds

LEMMA GitLabRegisters ==
    ASSUME provider = "gitlab", NEW w, Calm(w), NEW s \in Nat, NEW a \in GitLabRegister(w, s),
           a.w.faults = 0
    PROVE  Registered(w, a)
<1>1. Fits(w) /\ w.listed = w.hooks
  BY DEF Calm
<1>2. a.id \in Nat
  BY <1>1, GitLabAnswers
<1>3. CASE w.hooks = {} /\ Answers(w, s, a)
  BY <1>2, <1>3, PostSucceeds
<1>4. CASE a.w = w /\ \E h \in w.hooks : a.id = h.id
  <2>1. PICK h \in w.hooks : a.id = h.id
    BY <1>4
  <2>2. h.id # 0
    BY <1>1 DEF Fits
  <2>3. Follows(w, a.w)
    BY <1>1, <1>4, FollowsItself
  <2> QED BY <1>2, <1>4, <2>1, <2>2, <2>3 DEF Registered, Calm
<1>5. (w.hooks = {} /\ Answers(w, s, a)) \/ (a.w = w /\ \E h \in w.hooks : a.id = h.id)
  <2>1. ~Unheard(w, a)
    BY DEF Unheard, Calm
  <2> QED BY <1>1, <2>1, GitLabAnswers
<1> QED BY <1>3, <1>4, <1>5

\* Every answer without a fault is a registration
Registers(w, answers) ==
    \A a \in answers : /\ a.id \in Nat /\ Follows(w, a.w) /\ a.w.row = w.row
                       /\ a.w.faults = 0 => Registered(w, a)

LEMMA Registering ==
    ASSUME NEW w, Calm(w), NEW s \in Nat
    PROVE  /\ provider = "gitlab" => Registers(w, GitLabRegister(w, s))
           /\ provider # "gitlab" => Registers(w, Posted(w, s))
<1>1. Fits(w)
  BY DEF Calm
<1>2. ASSUME provider = "gitlab"
      PROVE  Registers(w, GitLabRegister(w, s))
  BY <1>1, <1>2, GitLabReplies, GitLabRegisters DEF Registers, Replies
<1>3. ASSUME provider # "gitlab"
      PROVE  Registers(w, Posted(w, s))
  BY <1>1, <1>3, PostReplies, PostRegisters DEF Registers, Replies
<1> QED BY <1>2, <1>3

LEMMA HookedWhenStored ==
    ASSUME NEW w, Calm(w), NEW a, Registered(w, a), NEW x, Rewrites(a.w, x),
           x.row.hook = a.id, x.row.key = w.row.key
    PROVE  Smooth(w, x) /\ Hooked(w, x)
BY DEF Smooth, Hooked, Registered, Rewrites, Follows

LEMMA HookedWhenKnown ==
    ASSUME NEW w, Calm(w), w.row.hook # 0, NEW x, Rewrites(w, x),
           x.row.hook = w.row.hook, x.row.key = w.row.key
    PROVE  Smooth(w, x) /\ Hooked(w, x)
BY DEF Smooth, Hooked, Calm, Stands, Rewrites, Follows

LEMMA SmoothWhenRewritten ==
    ASSUME NEW w, Calm(w), NEW x, Rewrites(w, x), x.row.key = w.row.key
    PROVE  Smooth(w, x) /\ x.hooks = w.hooks
BY DEF Smooth, Calm, Rewrites, Follows

LEMMA SettlesItself ==
    ASSUME NEW w, Calm(w)
    PROVE  Settles(w, w) /\ Untouched(w, w)
BY DEF Settles, Smooth, Untouched, StatusStays, Calm

\* The row stands when the work is done
LEMMA StandsAfter ==
    ASSUME NEW w, Calm(w), NEW x, Settles(w, x)
    PROVE  Stands(x.row, x.hooks)
BY DEF Settles, Hooked, Unhooked, Untouched, Stands, Calm

LEMMA StoredSettles ==
    ASSUME NEW w, Calm(w), NEW s \in Nat, NEW answers, Registers(w, answers), NEW a \in answers,
           NEW x, x = StoredOrRaised(a, s), NEW y, Rewrites(x, y), y.faults = 0,
           y.row.hook = x.row.hook, y.row.key = x.row.key
    PROVE  Smooth(w, y) /\ Hooked(w, y) /\ x.row.hook # 0
<1>1. /\ Fits(w) /\ a.id \in Nat /\ Follows(w, a.w) /\ a.w.row = w.row /\ x.faults = 0
      /\ a.w.faults = 0 => Registered(w, a)
  BY DEF Calm, Registers, Rewrites
<1>2. Fits(a.w)
  BY <1>1 DEF Follows
<1>3. CASE a.id = 0
  <2>1. PICK v : v = a.w
    OBVIOUS
  <2>2. Fits(v) /\ x = Raise(v)
    BY <1>2, <1>3, <2>1 DEF StoredOrRaised
  <2>3. x.faults = v.faults
    BY <2>2, Raises
  <2>4. Registered(w, a)
    BY <1>1, <2>1, <2>3
  <2> QED BY <1>3, <2>4 DEF Registered
<1>4. CASE a.id # 0
  <2>1. RegisteredTo(w, a, s, x)
    BY <1>1, StoredOrRaisedIs
  <2>2. Rewrites(a.w, x) /\ x.row.hook = a.id /\ x.row.key = w.row.key
    BY <1>4, <2>1 DEF RegisteredTo
  <2>3. Registered(w, a)
    BY <1>1, <2>2 DEF Rewrites
  <2>4. Rewrites(a.w, y)
    BY <1>2, <2>2, RewritesOn
  <2>5. y.row.hook = a.id /\ y.row.key = w.row.key
    BY <2>2
  <2> QED BY <1>4, <2>2, <2>3, <2>4, <2>5, HookedWhenStored
<1> QED BY <1>1, <1>3, <1>4

\* A watch of GitLab or GitHub leaves a hook or a row that promises none
WatchSettles(w, x) == Smooth(w, x) /\ (Hooked(w, x) \/ (Untouched(w, x) /\ ~Wants(x.row)))

LEMMA WatchedBySettles ==
    ASSUME provider \in {"gitlab", "github"}, NEW w, Calm(w), NEW answers, Registers(w, answers),
           NEW x \in WatchedBy(w, answers), x.faults = 0
    PROVE  WatchSettles(w, x)
<1>1. Fits(w)
  BY DEF Calm
<1>2. CASE w.row.mode \notin HookModes
  <2>1. x = Is(w, "active")
    BY <1>2 DEF WatchedBy
  <2>2. Rewrites(w, x) /\ x.row = [w.row EXCEPT !.status = "active"]
    BY <1>1, <2>1, StatusRewritten DEF Statuses
  <2>3. x.row.key = w.row.key /\ x.row.hook = w.row.hook /\ x.row.mode = w.row.mode
    BY <1>1, <2>2 DEF Fits, WorkType, Row
  <2> QED BY <1>2, <2>2, <2>3, SmoothWhenRewritten DEF WatchSettles, Untouched, Wants
<1>3. CASE w.row.mode \in HookModes
  <2>1. PICK s \in Nat : s = Secret(w)
    BY <1>1, SecretIsFree
  <2>2. PICK a \in answers :
            x = IF a.id = 0 THEN Is([a.w EXCEPT !.row.secret = s], "error")
                ELSE Is(Stored(a, s), "active")
    BY <1>3, <2>1 DEF WatchedBy
  <2>3. /\ a.id \in Nat /\ Follows(w, a.w) /\ a.w.row = w.row /\ Fits(a.w)
        /\ a.w.faults = 0 => Registered(w, a)
    BY DEF Registers, Follows
  <2>4. CASE a.id = 0
    <3>1. PICK v : v = a.w
      OBVIOUS
    <3>2. PICK u : u = [v EXCEPT !.row.secret = s]
      OBVIOUS
    <3>3. x = Is(u, "error")
      BY <2>2, <2>4, <3>1, <3>2
    <3>4. x.faults = v.faults
      BY <2>3, <3>1, <3>2, <3>3 DEF Is, Fits, WorkType
    <3> QED BY <2>3, <2>4, <3>1, <3>4 DEF Registered
  <2>5. CASE a.id # 0
    <3>1. PICK u : u = Stored(a, s)
      OBVIOUS
    <3>2. x = Is(u, "active")
      BY <2>2, <2>5, <3>1
    <3>3. Rewrites(a.w, u) /\ u.row = [a.w.row EXCEPT !.hook = a.id, !.secret = s]
      BY <2>3, <3>1, HookStored
    <3>4. Fits(u) /\ u.row.hook = a.id /\ u.row.key = w.row.key
      BY <1>1, <2>3, <3>3 DEF Rewrites, Follows, Fits, WorkType, Row
    <3>5. Rewrites(u, x) /\ x.row = [u.row EXCEPT !.status = "active"]
      BY <3>2, <3>4, StatusRewritten DEF Statuses
    <3>6. x.row.hook = a.id /\ x.row.key = w.row.key
      BY <3>4, <3>5 DEF Fits, WorkType, Row
    <3>7. Rewrites(a.w, x)
      BY <2>3, <3>3, <3>5, RewritesOn
    <3>8. Registered(w, a)
      BY <2>3, <3>7 DEF Rewrites
    <3> QED BY <3>6, <3>7, <3>8, HookedWhenStored DEF WatchSettles
  <2> QED BY <2>4, <2>5
<1> QED BY <1>2, <1>3

LEMMA LookupCounts ==
    ASSUME NEW w, Calm(w), NEW v \in LookupFails(w)
    PROVE  Fits(v) /\ v.faults # 0
<1>1. Fits(w) /\ w.faults = 0
  BY DEF Calm
<1>2. Follows(w, v) /\ v.faults = w.faults + 1
  BY <1>1, LookupFaults, Faults
<1> QED BY <1>1, <1>2 DEF Follows

LEMMA GitLabWatchSettles ==
    ASSUME provider = "gitlab", NEW w, Calm(w), NEW x \in GitLabWatch(w), x.faults = 0
    PROVE  WatchSettles(w, x)
<1>1. ASSUME NEW v \in LookupFails(w), x = Raise(v)
      PROVE  FALSE
  BY <1>1, LookupCounts, Raises
<1>2. PICK s \in Nat : s = Secret(w)
  BY SecretIsFree DEF Calm
<1>3. x \in WatchedBy(w, GitLabRegister(w, s))
  BY <1>1, <1>2 DEF GitLabWatch
<1> QED BY <1>2, <1>3, Registering, WatchedBySettles

LEMMA GitHubWatchSettles ==
    ASSUME provider = "github", NEW w, Calm(w), NEW x \in GitHubWatch(w), x.faults = 0
    PROVE  WatchSettles(w, x)
<1>1. ASSUME NEW v \in LookupFails(w), x = Is(v, "error")
      PROVE  FALSE
  BY <1>1, LookupCounts, StatusRewritten DEF Statuses, Rewrites
<1>2. PICK s \in Nat : s = Secret(w)
  BY SecretIsFree DEF Calm
<1>3. x \in WatchedBy(w, Posted(w, s))
  BY <1>1, <1>2 DEF GitHubWatch, GitHubRegister
<1> QED BY <1>2, <1>3, Registering, WatchedBySettles

LEMMA GitFlicWatchSettles ==
    ASSUME provider = "gitflic", NEW w, Calm(w), NEW x \in GitFlicWatch(w), x.faults = 0
    PROVE  Settles(w, x)
<1>1. CASE w.row.mode \notin HookModes
  BY <1>1, SettlesItself DEF GitFlicWatch
<1>2. CASE w.row.mode \in HookModes
  <2>1. Fits(w)
    BY DEF Calm
  <2>2. PICK s \in Nat : s = Secret(w)
    BY <2>1, SecretIsFree
  <2>3. PICK a \in Posted(w, s) : x = IF a.id = 0 THEN a.w ELSE Is(Stored(a, s), "active")
    BY <1>2, <2>2 DEF GitFlicWatch, GitFlicRegister
  <2>4. /\ a.id \in Nat /\ Follows(w, a.w) /\ a.w.row = w.row /\ Fits(a.w)
        /\ a.w.faults = 0 => Registered(w, a)
    BY Registering DEF Registers, Follows
  <2>5. CASE a.id = 0
    BY <2>3, <2>4, <2>5 DEF Registered
  <2>6. CASE a.id # 0
    <3>1. PICK u : u = Stored(a, s)
      OBVIOUS
    <3>2. Rewrites(a.w, u) /\ u.row = [a.w.row EXCEPT !.hook = a.id, !.secret = s]
      BY <2>4, <3>1, HookStored
    <3>3. Fits(u) /\ u.row.hook = a.id /\ u.row.key = w.row.key
      BY <2>1, <2>4, <3>2 DEF Rewrites, Follows, Fits, WorkType, Row
    <3>8. x = Is(u, "active")
      BY <2>3, <2>6, <3>1
    <3>4. Rewrites(u, x) /\ x.row = [u.row EXCEPT !.status = "active"]
      BY <3>3, <3>8, StatusRewritten DEF Statuses
    <3>5. x.row.hook = a.id /\ x.row.key = w.row.key
      BY <3>3, <3>4 DEF Fits, WorkType, Row
    <3>6. Rewrites(a.w, x)
      BY <2>4, <3>2, <3>4, RewritesOn
    <3>7. Registered(w, a)
      BY <2>4, <3>6 DEF Rewrites
    <3> QED BY <3>5, <3>6, <3>7, HookedWhenStored DEF Settles
  <2> QED BY <2>5, <2>6
<1> QED BY <1>1, <1>2

LEMMA InitBySettles ==
    ASSUME NEW w, Calm(w), NEW answers, Registers(w, answers), NEW x \in InitBy(w, answers),
           x.faults = 0
    PROVE  Settles(w, x) /\ (Hooked(w, x) \/ x = w)
<1>1. Fits(w)
  BY DEF Calm
<1>2. CASE x = w
  BY <1>2, SettlesItself
<1>3. ASSUME NEW a \in answers, InitedTo(w, a, x)
      PROVE  Settles(w, x) /\ Hooked(w, x)
  <2>1. x.faults = a.w.faults
    BY <1>3 DEF InitedTo, Rewrites, Registers
  <2>2. Registered(w, a)
    BY <2>1 DEF Registers
  <2>3. Rewrites(a.w, x) /\ x.row.hook = a.id /\ x.row.key = w.row.key
    BY <1>3, <2>2 DEF InitedTo, Registered
  <2> QED BY <2>2, <2>3, HookedWhenStored DEF Settles
<1>4. x = w \/ \E a \in answers : InitedTo(w, a, x)
  BY <1>1, InitByIs DEF Registers, Replies
<1> QED BY <1>2, <1>3, <1>4

LEMMA InitSettles ==
    ASSUME provider \in {"gitlab", "bitbucket_dc"}, NEW w, Calm(w),
           NEW x \in (IF provider = "gitlab" THEN GitLabInit(w) ELSE BitbucketInit(w)),
           x.faults = 0
    PROVE  Settles(w, x) /\ (Hooked(w, x) \/ x = w)
<1>1. PICK s \in Nat : s = w.row.secret
  BY DEF Calm, Fits, WorkType, Row
<1>2. ASSUME NEW v \in LookupFails(w), x = Raise(v)
      PROVE  FALSE
  BY <1>2, LookupCounts, Raises
<1>3. CASE provider = "gitlab"
  <2>1. x \in InitBy(w, GitLabRegister(w, s))
    BY <1>1, <1>2, <1>3 DEF GitLabInit
  <2> QED BY <1>3, <2>1, Registering, InitBySettles
<1>4. CASE provider # "gitlab"
  <2>1. x \in InitBy(w, Posted(w, s))
    BY <1>1, <1>4 DEF BitbucketInit, BitbucketRegister
  <2> QED BY <1>4, <2>1, Registering, InitBySettles
<1> QED BY <1>3, <1>4

\* Enabling a row, at GitLab and GitHub
LEMMA OnSettles ==
    ASSUME provider \in {"gitlab", "github"}, NEW w, Calm(w), NEW x, x = On(w),
           w.row.mode \in HookModes => w.row.hook # 0
    PROVE  Settles(w, x) /\ (Hooked(w, x) \/ Untouched(w, x))
<1>1. Fits(w)
  BY DEF Calm
<1>2. Rewrites(w, x) /\ x.row = [w.row EXCEPT !.enabled = TRUE, !.status = "active"]
  BY <1>1, Switched
<1>3. x.row.hook = w.row.hook /\ x.row.key = w.row.key /\ x.row.mode = w.row.mode
  BY <1>1, <1>2 DEF Fits, WorkType, Row
<1>4. CASE w.row.mode \in HookModes
  BY <1>2, <1>3, <1>4, HookedWhenKnown DEF Settles
<1>5. CASE w.row.mode \notin HookModes
  BY <1>2, <1>3, <1>5, SmoothWhenRewritten DEF Settles, Untouched, Wants
<1> QED BY <1>4, <1>5

LEMMA OnStoredSettles ==
    ASSUME NEW w, Calm(w), NEW s \in Nat, NEW answers, Registers(w, answers), NEW a \in answers,
           NEW x, x = On(StoredOrRaised(a, s)), x.faults = 0
    PROVE  Settles(w, x) /\ Hooked(w, x)
<1>1. PICK u : u = StoredOrRaised(a, s)
  OBVIOUS
<1>2. /\ Fits(w) /\ a.id \in Nat /\ Follows(w, a.w) /\ a.w.row = w.row
  BY DEF Calm, Registers
<1>3. RegisteredTo(w, a, s, u)
  BY <1>1, <1>2, StoredOrRaisedIs
<1>4. Fits(u)
  BY <1>3 DEF RegisteredTo, Follows
<1>5. Rewrites(u, x) /\ x.row = [u.row EXCEPT !.enabled = TRUE, !.status = "active"]
  BY <1>1, <1>4, Switched
<1>6. x.row.hook = u.row.hook /\ x.row.key = u.row.key
  BY <1>4, <1>5 DEF Fits, WorkType, Row
<1> QED BY <1>1, <1>5, <1>6, StoredSettles DEF Settles

LEMMA GitLabEnableSettles ==
    ASSUME provider = "gitlab", NEW w, Calm(w), NEW x \in GitLabEnable(w), x.faults = 0
    PROVE  Settles(w, x)
<1>1. PICK s \in Nat : s = Secret(w)
  BY SecretIsFree DEF Calm
<1>2. CASE x = w
  BY <1>2, SettlesItself
<1>3. CASE x = On(w) /\ (w.row.mode \in HookModes => w.row.hook # 0)
  BY <1>3, OnSettles
<1>4. CASE \E a \in GitLabRegister(w, s) : x = On(StoredOrRaised(a, s))
  <2>1. Registers(w, GitLabRegister(w, s))
    BY Registering
  <2> QED BY <1>4, <2>1, OnStoredSettles
<1> QED BY <1>1, <1>2, <1>3, <1>4 DEF GitLabEnable

LEMMA GitHubEnableSettles ==
    ASSUME provider = "github", NEW w, Calm(w), NEW x \in GitHubEnable(w), x.faults = 0
    PROVE  Settles(w, x) /\ (Hooked(w, x) \/ Untouched(w, x))
<1>1. PICK s \in Nat : s = Secret(w)
  BY SecretIsFree DEF Calm
<1>2. CASE x = w
  BY <1>2, SettlesItself
<1>3. CASE x = On(w) /\ w.row.mode \notin HookModes
  BY <1>3, OnSettles
<1>4. CASE \E a \in Posted(w, s) : x = On(StoredOrRaised(a, s))
  <2>1. Registers(w, Posted(w, s))
    BY Registering
  <2> QED BY <1>4, <2>1, OnStoredSettles
<1> QED BY <1>1, <1>2, <1>3, <1>4 DEF GitHubEnable, GitHubRegister

\* Moving a row of GitLab to another mode
MovedTo(w, m) ==
    [w EXCEPT !.row.mode = m, !.row.enabled = TRUE,
              !.row.status = IF @ = "disabled" THEN "active" ELSE @]

LEMMA MovedIs ==
    ASSUME NEW w, Fits(w), NEW m \in Mode, NEW x, x = MovedTo(w, m)
    PROVE  /\ Rewrites(w, x)
           /\ x.row.hook = w.row.hook /\ x.row.key = w.row.key /\ x.row.mode = m
<1>1. Rewrites(w, x)
  BY ModeMoved DEF MovedTo
<1>2. x.row.hook = w.row.hook /\ x.row.key = w.row.key /\ x.row.mode = m
  BY DEF MovedTo, Fits, WorkType, Row
<1> QED BY <1>1, <1>2

\* A hook that is removed without a fault
Removed(w, d) ==
    /\ d.says = "ok" /\ d.w.row = w.row /\ Fits(d.w)
    /\ d.w.lost = FALSE /\ d.w.raised = FALSE
    /\ d.w.hooks = {h \in w.hooks : h.id # w.row.hook}

LEMMA Removing ==
    ASSUME NEW w, Calm(w), NEW d, Removes(w, d), d.w.faults = 0
    PROVE  Removed(w, d)
BY DEF Removed, Removes, Follows, Calm

ClearedTo(w, v) ==
    /\ Fits(v) /\ v.lost = FALSE /\ v.raised = FALSE
    /\ v.row.hook = 0 /\ v.row.key = w.row.key /\ v.row.mode = w.row.mode
    /\ v.hooks = {h \in w.hooks : h.id # w.row.hook}

LEMMA ClearedIs ==
    ASSUME NEW w, Calm(w), NEW d, Removed(w, d), NEW v, v = Cleared(d.w)
    PROVE  ClearedTo(w, v)
<1>1. PICK u : u = d.w
  OBVIOUS
<1>2. Fits(u) /\ u.row = w.row /\ v = Cleared(u)
  BY <1>1 DEF Removed
<1>3. Rewrites(u, v) /\ v.row = [u.row EXCEPT !.hook = 0, !.secret = 0]
  BY <1>2, Switched
<1>4. Rewrites(d.w, v) /\ v.row = [w.row EXCEPT !.hook = 0, !.secret = 0]
  BY <1>1, <1>2, <1>3
<1> QED BY <1>4 DEF ClearedTo, Rewrites, Follows, Removed, Calm, Fits, WorkType, Row

LEMMA GitLabChangeModeSettles ==
    ASSUME provider = "gitlab", NEW w, Calm(w), NEW m \in Mode, NEW x \in GitLabChangeMode(w, m),
           x.faults = 0
    PROVE  Settles(w, x)
<1>1. PICK s \in Nat : s = Secret(w)
  BY SecretIsFree DEF Calm
<1>2. Fits(w)
  BY DEF Calm
<1>3. CASE x = w
  BY <1>3, SettlesItself
<1>4. ASSUME NEW a \in GitLabRegister(w, s), x = MovedTo(StoredOrRaised(a, s), m)
      PROVE  Settles(w, x)
  <2>1. Registers(w, GitLabRegister(w, s))
    BY Registering
  <2>2. a.id \in Nat /\ Follows(w, a.w) /\ a.w.row = w.row
    BY <2>1 DEF Registers
  <2>3. PICK u : u = StoredOrRaised(a, s)
    OBVIOUS
  <2>4. Fits(u)
    BY <1>2, <2>2, <2>3, StoredOrRaisedIs DEF RegisteredTo, Follows
  <2>5. Rewrites(u, x) /\ x.row.hook = u.row.hook /\ x.row.key = u.row.key
    BY <1>4, <2>3, <2>4, MovedIs
  <2> QED BY <2>1, <2>3, <2>5, StoredSettles DEF Settles
<1>5. ASSUME NEW d \in GitLabDelete(w), m \notin HookModes,
             x = MovedTo(IF d.says = "ok" THEN Cleared(d.w) ELSE d.w, m)
      PROVE  Settles(w, x)
  <2>1. Removes(w, d) /\ Fits(d.w)
    BY <1>2, GitLabRemoves DEF Removes, Follows
  <2>2. PICK v : v = IF d.says = "ok" THEN Cleared(d.w) ELSE d.w
    OBVIOUS
  <2>3. Fits(v) /\ v.faults = d.w.faults
    BY <2>1, <2>2, Switched DEF Rewrites, Follows
  <2>4. /\ Rewrites(v, x)
        /\ x.row.hook = v.row.hook /\ x.row.key = v.row.key /\ x.row.mode = m
    BY <1>5, <2>2, <2>3, MovedIs
  <2>5. Removed(w, d)
    BY <2>1, <2>3, <2>4, Removing DEF Rewrites
  <2>6. ClearedTo(w, v)
    <3>1. v = Cleared(d.w)
      BY <2>2, <2>5 DEF Removed
    <3> QED BY <2>5, <3>1, ClearedIs
  <2> QED BY <1>5, <2>4, <2>6 DEF ClearedTo, Settles, Smooth, Unhooked, Wants, Rewrites, Follows
<1>6. CASE x = MovedTo(w, m) /\ (m \in HookModes <=> w.row.hook # 0)
  <2>1. /\ Rewrites(w, x)
        /\ x.row.hook = w.row.hook /\ x.row.key = w.row.key /\ x.row.mode = m
    BY <1>2, <1>6, MovedIs
  <2>2. CASE m \in HookModes
    BY <1>6, <2>1, <2>2, HookedWhenKnown DEF Settles
  <2>3. CASE m \notin HookModes
    BY <2>1, <2>3, SmoothWhenRewritten DEF Settles, Untouched, Wants
  <2> QED BY <2>2, <2>3
<1>7. \/ x = w
      \/ \E a \in GitLabRegister(w, s) : x = MovedTo(StoredOrRaised(a, s), m)
      \/ /\ m \notin HookModes
         /\ \E d \in GitLabDelete(w) : x = MovedTo(IF d.says = "ok" THEN Cleared(d.w) ELSE d.w, m)
      \/ x = MovedTo(w, m) /\ (m \in HookModes <=> w.row.hook # 0)
  BY <1>1 DEF GitLabChangeMode, MovedTo
<1> QED BY <1>3, <1>4, <1>5, <1>6, <1>7

LEMMA WithModeIs ==
    ASSUME NEW w, Calm(w), NEW m \in Mode, NEW x, x = WithMode(w, m)
    PROVE  /\ Rewrites(w, x) /\ Calm(x)
           /\ x.row.hook = w.row.hook /\ x.row.key = w.row.key /\ x.row.mode = m
           /\ x.row.enabled = w.row.enabled /\ x.row.status = w.row.status
<1>1. Fits(w)
  BY DEF Calm
<1>2. Rewrites(w, x)
  BY <1>1, ModeRewrites
<1>3. /\ x.row.hook = w.row.hook /\ x.row.key = w.row.key /\ x.row.mode = m
      /\ x.row.enabled = w.row.enabled /\ x.row.status = w.row.status
  BY <1>1 DEF WithMode, Fits, WorkType, Row
<1> QED BY <1>2, <1>3 DEF Calm, Rewrites, Follows, Stands

LEMMA GitHubChangeModeSettles ==
    ASSUME provider = "github", NEW w, Calm(w), NEW m \in Mode, NEW y \in GitHubChangeMode(w, m),
           y.faults = 0
    PROVE  Settles(w, y)
<1>1. PICK x : x = WithMode(w, m)
  OBVIOUS
<1>2. /\ Fits(w) /\ Rewrites(w, x) /\ Calm(x) /\ Fits(x)
      /\ x.row.hook = w.row.hook /\ x.row.key = w.row.key /\ x.row.mode = m
      /\ x.hooks = w.hooks
  <2>1. /\ Rewrites(w, x) /\ Calm(x)
        /\ x.row.hook = w.row.hook /\ x.row.key = w.row.key /\ x.row.mode = m
    BY <1>1, WithModeIs
  <2> QED BY <2>1 DEF Calm, Rewrites
<1>3. PICK s \in Nat : s = Secret(x)
  BY <1>2, SecretIsFree
<1>4. ASSUME NEW a \in Posted(x, s), y = StoredOrRaised(a, s)
      PROVE  Settles(w, y)
  <2>1. Registers(x, Posted(x, s))
    BY <1>2, Registering
  <2>2. a.id \in Nat /\ Follows(x, a.w) /\ a.w.row = x.row
    BY <2>1 DEF Registers
  <2>3. Fits(y)
    BY <1>2, <1>4, <2>2, StoredOrRaisedIs DEF RegisteredTo, Follows
  <2>4. Rewrites(y, y)
    BY <2>3, FollowsItself DEF Rewrites
  <2>5. Smooth(x, y) /\ Hooked(x, y)
    BY <1>2, <1>4, <2>1, <2>4, StoredSettles
  <2> QED BY <1>2, <2>5 DEF Settles, Smooth, Hooked
<1>5. ASSUME NEW d \in Deleted(x), m \notin HookModes,
             y = IF d.says = "exception" THEN Raise(d.w) ELSE Cleared(d.w)
      PROVE  Settles(w, y)
  <2>1. Removes(x, d) /\ Fits(d.w)
    BY <1>2, DeleteRemoves DEF Removes, Follows
  <2>2. y.faults = d.w.faults
    BY <1>5, <2>1, Switched, Raises DEF Rewrites
  <2>3. Removed(x, d)
    BY <1>2, <2>1, <2>2, Removing
  <2>4. ClearedTo(x, y)
    <3>1. y = Cleared(d.w)
      BY <1>5, <2>3 DEF Removed
    <3> QED BY <1>2, <2>3, <3>1, ClearedIs
  <2> QED BY <1>2, <1>5, <2>4 DEF ClearedTo, Settles, Smooth, Unhooked, Wants
<1>6. CASE y = x /\ (m \in HookModes => w.row.hook # 0)
  <2>1. CASE m \in HookModes
    BY <1>2, <1>6, <2>1, HookedWhenKnown DEF Settles
  <2>2. CASE m \notin HookModes
    BY <1>2, <1>6, <2>2, SmoothWhenRewritten DEF Settles, Untouched, Wants
  <2> QED BY <1>6, <2>1, <2>2
<1>7. \/ \E a \in Posted(x, s) : y = StoredOrRaised(a, s)
      \/ /\ m \notin HookModes
         /\ \E d \in Deleted(x) : y = IF d.says = "exception" THEN Raise(d.w) ELSE Cleared(d.w)
      \/ y = x /\ (m \in HookModes => w.row.hook # 0)
  BY <1>1, <1>3 DEF GitHubChangeMode, WithMode, GitHubRegister, GitHubDelete
<1> QED BY <1>4, <1>5, <1>6, <1>7

LEMMA AwakeIs ==
    ASSUME NEW w, Fits(w), NEW x, x = Awake(w)
    PROVE  /\ Rewrites(w, x) /\ x.row.hook = w.row.hook /\ x.row.key = w.row.key
           /\ x.row.mode = w.row.mode /\ x.row.enabled = w.row.enabled
           /\ x.row.status = w.row.status \/ w.row.status = "disabled"
<1>1. Rewrites(w, x)
  BY AwakeRewrites
<1>2. /\ x.row.hook = w.row.hook /\ x.row.key = w.row.key
      /\ x.row.mode = w.row.mode /\ x.row.enabled = w.row.enabled
      /\ x.row.status = w.row.status \/ w.row.status = "disabled"
  BY DEF Awake, Is, Fits, WorkType, Row
<1> QED BY <1>1, <1>2

\* At GitHub two parts of a PATCH settle together, and so does what wakes the row
LEMMA GitHubSettlesOn ==
    ASSUME provider = "github", NEW w, NEW x, NEW y, Settles(w, x), Hooked(w, x) \/ Untouched(w, x),
           Settles(x, y)
    PROVE  Settles(w, y)
BY DEF Settles, Smooth, Hooked, Unhooked, Untouched, StatusStays

LEMMA CalmAfter ==
    ASSUME provider = "github", NEW w, Calm(w), NEW x, Settles(w, x), x.faults = 0
    PROVE  Calm(x)
BY StandsAfter DEF Calm, Settles, Smooth

LEMMA GitHubPatchSettles ==
    ASSUME provider = "github", NEW w, Calm(w), NEW on, NEW m \in Mode \cup {None},
           NEW z \in GitHubPatch(w, on, m), z.faults = 0
    PROVE  Settles(w, z)
<1>1. Fits(w)
  BY DEF Calm
<1>2. PICK x, y :
          /\ x \in (IF on = TRUE THEN GitHubEnable(w) ELSE {w})
          /\ y \in (IF x.raised \/ m = None \/ m = x.row.mode THEN {x} ELSE GitHubChangeMode(x, m))
          /\ z = Awake(y)
  BY DEF GitHubPatch
<1>3. Fits(x)
  BY <1>1, <1>2, GitHubEnableSafe DEF Safe, Follows
<1>4. Follows(x, y) /\ Fits(y)
  BY <1>2, <1>3, GitHubChangeModeSafe, FollowsItself DEF Safe, Follows
<1>5. /\ Rewrites(y, z) /\ z.row.hook = y.row.hook /\ z.row.key = y.row.key
      /\ z.row.mode = y.row.mode /\ z.row.enabled = y.row.enabled
  BY <1>2, <1>4, AwakeIs
<1>6. y.faults = 0 /\ x.faults = 0
  BY <1>3, <1>4, <1>5 DEF Rewrites, Follows, Fits, WorkType
<1>7. Settles(w, x) /\ (Hooked(w, x) \/ Untouched(w, x))
  BY <1>2, <1>6, GitHubEnableSettles, SettlesItself
<1>8. Calm(x)
  BY <1>6, <1>7, CalmAfter
<1>9. Settles(x, y)
  BY <1>2, <1>6, <1>8, GitHubChangeModeSettles, SettlesItself
<1>10. Settles(w, y)
  BY <1>7, <1>9, GitHubSettlesOn
<1> QED BY <1>5, <1>10 DEF Settles, Smooth, Hooked, Unhooked, Untouched, StatusStays, Wants,
                           Rewrites, Follows

LEMMA BitbucketPatchSettles ==
    ASSUME provider = "bitbucket_dc", NEW w, Calm(w), NEW m \in Mode, NEW y \in BitbucketPatch(w, m)
    PROVE  Settles(w, y)
<1>1. PICK x : x = WithMode(w, m)
  OBVIOUS
<1>2. /\ Rewrites(w, x) /\ Calm(x)
      /\ x.row.hook = w.row.hook /\ x.row.key = w.row.key
      /\ x.row.enabled = w.row.enabled /\ x.row.status = w.row.status
  BY <1>1, WithModeIs
<1>3. Fits(w) /\ Fits(x)
  BY <1>2 DEF Calm
<1>4. y = Awake(x)
  BY <1>1 DEF BitbucketPatch, WithMode
<1>5. /\ Rewrites(x, y) /\ y.row.hook = x.row.hook /\ y.row.key = x.row.key
      /\ y.row.enabled = x.row.enabled
      /\ y.row.status = x.row.status \/ x.row.status = "disabled"
  BY <1>3, <1>4, AwakeIs
<1>6. Rewrites(w, y)
  BY <1>2, <1>3, <1>5, RewritesOn
<1>7. Smooth(w, y) /\ y.hooks = w.hooks
  BY <1>2, <1>5, <1>6, SmoothWhenRewritten
<1> QED BY <1>2, <1>5, <1>7 DEF Settles, Untouched, Wants, StatusStays

LEMMA GitFlicPatchSettles ==
    ASSUME provider = "gitflic", NEW w, Calm(w), NEW on \in BOOLEAN \cup {None},
           NEW m \in Mode \cup {None}, NEW x \in GitFlicPatch(w, on, m)
    PROVE  Settles(w, x)
<1>1. Fits(w)
  BY DEF Calm
<1>2. Rewrites(w, x)
  BY <1>1, GitFlicPatchRewrites
<1>3. x.row.hook = w.row.hook /\ x.row.key = w.row.key /\ x.row.status = w.row.status
  <2>1. PICK mode, enabled : x = [w EXCEPT !.row.mode = mode, !.row.enabled = enabled]
    BY DEF GitFlicPatch
  <2> QED BY <1>1, <2>1 DEF Fits, WorkType, Row
<1>4. Smooth(w, x) /\ x.hooks = w.hooks
  BY <1>2, <1>3, SmoothWhenRewritten
<1> QED BY <1>3, <1>4 DEF Settles, Untouched, Wants, StatusStays

\* A row whose hook is removed, before it is switched off or dropped
LEMMA RevokedIs ==
    ASSUME NEW w, Calm(w), NEW answers, \A d \in answers : Removes(w, d),
           NEW x \in Revoked(w, answers), x.faults = 0
    PROVE  (x = w /\ w.row.hook = 0) \/ ClearedTo(w, x)
<1>1. CASE w.row.hook = 0
  BY <1>1 DEF Revoked
<1>2. CASE w.row.hook # 0
  <2>1. PICK d \in answers : x = IF d.says = "ok" THEN Cleared(d.w) ELSE d.w
    BY <1>2 DEF Revoked
  <2>2. Removes(w, d) /\ Fits(d.w)
    BY DEF Removes, Follows
  <2>3. x.faults = d.w.faults
    BY <2>1, <2>2, Switched DEF Rewrites
  <2>4. Removed(w, d)
    BY <2>2, <2>3, Removing
  <2>5. x = Cleared(d.w)
    BY <2>1, <2>4 DEF Removed
  <2> QED BY <2>4, <2>5, ClearedIs
<1> QED BY <1>1, <1>2

LEMMA RevokeIs ==
    ASSUME NEW w, Calm(w), NEW x \in Revoke(w), x.faults = 0
    PROVE  (x = w /\ w.row.hook = 0) \/ ClearedTo(w, x)
<1>1. Fits(w)
  BY DEF Calm
<1>2. \A d \in GitLabDelete(w) \cup Deleted(w) : Removes(w, d)
  BY <1>1, GitLabRemoves, DeleteRemoves
<1>3. x \in Revoked(w, GitLabDelete(w)) \/ x \in Revoked(w, Deleted(w))
  BY DEF Revoke, GitLabRevoke, GitHubRevoke, BitbucketRevoke, GitFlicRevoke, GitHubDelete,
         BitbucketDelete, GitFlicDelete
<1> QED BY <1>2, <1>3, RevokedIs

LEMMA DisableSettles ==
    ASSUME provider # "gitflic", NEW w, Calm(w), NEW y \in Disable(w), y.faults = 0
    PROVE  Settles(w, y)
<1>1. PICK x \in Revoke(w) : y = Off(x)
  BY DEF Disable
<1>2. Fits(w) /\ Fits(x)
  BY RevokeSafe DEF Calm, Safe, Follows
<1>3. Rewrites(x, y) /\ y.row = [x.row EXCEPT !.enabled = FALSE, !.status = "disabled"]
  BY <1>1, <1>2, Switched
<1>4. /\ y.row.hook = x.row.hook /\ y.row.key = x.row.key /\ y.row.enabled = FALSE
      /\ x.faults = 0
  BY <1>2, <1>3 DEF Rewrites, Fits, WorkType, Row
<1>5. CASE x = w
  BY <1>3, <1>4, <1>5, SmoothWhenRewritten DEF Settles, Untouched, Wants
<1>6. CASE ClearedTo(w, x)
  BY <1>3, <1>4, <1>6 DEF ClearedTo, Settles, Smooth, Unhooked, Wants, Rewrites, Follows
<1> QED BY <1>4, <1>5, <1>6, RevokeIs

LEMMA VerifySettles ==
    ASSUME provider \in {"gitlab", "github"}, NEW w, Calm(w), NEW x \in Verify(w)
    PROVE  Settles(w, x)
<1>1. CASE x = w
  BY <1>1, SettlesItself
<1>2. CASE w.row.seen = TRUE /\ x = Is(w, "active")
  <2>1. Fits(w)
    BY DEF Calm
  <2>2. Rewrites(w, x) /\ x.row = [w.row EXCEPT !.status = "active"]
    BY <1>2, <2>1, StatusRewritten DEF Statuses
  <2>3. /\ x.row.hook = w.row.hook /\ x.row.key = w.row.key /\ x.row.mode = w.row.mode
        /\ x.row.enabled = w.row.enabled
    BY <2>1, <2>2 DEF Fits, WorkType, Row
  <2>4. Smooth(w, x) /\ x.hooks = w.hooks
    BY <2>2, <2>3, SmoothWhenRewritten
  <2> QED BY <1>2, <2>3, <2>4 DEF Settles, Untouched, Wants, StatusStays
<1>3. w.row.seen \in BOOLEAN
  BY DEF Calm, Fits, WorkType, Row
<1> QED BY <1>1, <1>2, <1>3 DEF Verify

\* What the work of a request comes to, before a purge drops the row
Handles(q, w, y) ==
    /\ Follows(w, y)
    /\ q.op # "purge" => Settles(w, y)
    /\ q.op = "purge" => (y = w /\ w.row.hook = 0) \/ ClearedTo(w, y)
    /\ q.op = "watch" /\ provider \in {"gitlab", "github"} => WatchSettles(w, y)
    /\ q.op = "init" => Hooked(w, y) \/ y = w

LEMMA WatchSettling ==
    ASSUME provider \in {"gitlab", "github", "gitflic"}, NEW w, Calm(w), NEW x \in Watch(w),
           x.faults = 0
    PROVE  /\ Settles(w, x)
           /\ provider \in {"gitlab", "github"} => WatchSettles(w, x)
<1>1. CASE provider = "gitlab"
  <2>1. x \in GitLabWatch(w)
    BY <1>1 DEF Watch
  <2> QED BY <1>1, <2>1, GitLabWatchSettles DEF WatchSettles, Settles
<1>2. CASE provider = "github"
  <2>1. x \in GitHubWatch(w)
    BY <1>2 DEF Watch
  <2> QED BY <1>2, <2>1, GitHubWatchSettles DEF WatchSettles, Settles
<1>3. CASE provider = "gitflic"
  <2>1. x \in GitFlicWatch(w)
    BY <1>3 DEF Watch
  <2> QED BY <1>3, <2>1, GitFlicWatchSettles
<1> QED BY <1>1, <1>2, <1>3

LEMMA PatchSettling ==
    ASSUME NEW q, Asked(q), q.op = "patch", provider \in Provider \ {"bitbucket"},
           NEW w, Calm(w), NEW x \in Patch(w, q.on, q.mode), x.faults = 0
    PROVE  Settles(w, x)
<1>1. /\ q.mode \in Mode \cup {None} /\ q.on \in BOOLEAN \cup {None}
      /\ \/ q.mode \in Mode
         \/ q.mode = None /\ provider = "gitlab" /\ q.on = TRUE
         \/ q.mode = None /\ provider \in {"github", "gitflic"}
  BY DEF Asked, Request
<1>2. CASE provider = "gitlab"
  <2>1. x \in GitLabPatch(w, q.on, q.mode)
    BY <1>2 DEF Patch
  <2>2. CASE q.on = TRUE
    BY <1>2, <2>1, <2>2, GitLabEnableSettles DEF GitLabPatch
  <2>3. CASE q.on # TRUE
    BY <1>1, <1>2, <2>1, <2>3, GitLabChangeModeSettles DEF GitLabPatch
  <2> QED BY <2>2, <2>3
<1>3. CASE provider = "github"
  <2>1. x \in GitHubPatch(w, q.on, q.mode)
    BY <1>3 DEF Patch
  <2> QED BY <1>1, <1>3, <2>1, GitHubPatchSettles
<1>4. CASE provider = "gitflic"
  <2>1. x \in GitFlicPatch(w, q.on, q.mode)
    BY <1>4 DEF Patch
  <2> QED BY <1>1, <1>4, <2>1, GitFlicPatchSettles
<1>5. CASE provider = "bitbucket_dc"
  <2>1. x \in BitbucketPatch(w, q.mode)
    BY <1>5 DEF Patch
  <2> QED BY <1>1, <1>5, <2>1, BitbucketPatchSettles
<1> QED BY <1>2, <1>3, <1>4, <1>5 DEF Provider

LEMMA HandlesIs ==
    ASSUME NEW q, Asked(q), Served(q.op), provider \in Provider \ {"bitbucket"},
           NEW w, w = Work(q), Calm(w), NEW x \in Handled(q), x.faults = 0
    PROVE  \E y : /\ Handles(q, w, y)
                  /\ \/ x = y /\ q.op # "purge"
                     \/ x = [y EXCEPT !.row = None] /\ q.op = "purge"
<1>1. q.op \in {"watch", "init", "patch", "disable", "purge", "verify"}
  BY DEF Asked, Request
<1>2. Fits(w)
  BY DEF Calm
<1>3. ASSUME q.op # "purge"
      PROVE  Follows(w, x)
  BY <1>2, <1>3, HandledIs DEF Handling
<1>4. CASE q.op = "watch"
  <2>1. x \in Watch(w) /\ provider \in {"gitlab", "github", "gitflic"}
    BY <1>4 DEF Handled, Served, Provider
  <2> QED BY <1>3, <1>4, <2>1, WatchSettling DEF Handles
<1>5. CASE q.op = "init"
  <2>1. /\ x \in (IF provider = "gitlab" THEN GitLabInit(w) ELSE BitbucketInit(w))
        /\ provider \in {"gitlab", "bitbucket_dc"}
    BY <1>5 DEF Handled, Asked
  <2> QED BY <1>3, <1>5, <2>1, InitSettles DEF Handles
<1>6. CASE q.op = "patch"
  <2>1. x \in Patch(w, q.on, q.mode)
    BY <1>6 DEF Handled
  <2> QED BY <1>3, <1>6, <2>1, PatchSettling DEF Handles
<1>7. CASE q.op = "disable"
  <2>1. x \in Disable(w) /\ provider # "gitflic"
    BY <1>7 DEF Handled, Served
  <2> QED BY <1>3, <1>7, <2>1, DisableSettles DEF Handles
<1>8. CASE q.op = "purge"
  <2>1. x \in Purge(w)
    BY <1>8 DEF Handled
  <2>2. PICK y \in Revoke(w) : x = [y EXCEPT !.row = None]
    BY <2>1 DEF Purge
  <2>3. Follows(w, y) /\ y \in WorkType
    BY <1>2, RevokeSafe DEF Safe, Follows, Fits
  <2>4. y.faults = 0
    BY <2>2, <2>3 DEF WorkType
  <2> QED BY <1>8, <2>2, <2>3, <2>4, RevokeIs DEF Handles
<1>9. CASE q.op = "verify"
  <2>1. x \in Verify(w) /\ provider \in {"gitlab", "github"}
    BY <1>9 DEF Handled, Served
  <2> QED BY <1>3, <1>9, <2>1, VerifySettles DEF Handles
<1> QED BY <1>1, <1>4, <1>5, <1>6, <1>7, <1>8, <1>9

-----------------------------------------------------------------------------
(* The inductive invariant *)

\* The row that was read and the committed one: a webhook may have arrived
SameRow(seen, x) ==
    /\ x.id = seen.id /\ x.key = seen.key /\ x.mode = seen.mode /\ x.enabled = seen.enabled
    /\ x.hook = seen.hook /\ (seen.seen = TRUE => x.seen = TRUE)
    /\ x.status = seen.status \/ (seen.status = "pending_manual" /\ x.status = "active")

\* A lone request knows the committed row, and has changed at most what a watch asks for
Knows(q) ==
    /\ Served(q.op) /\ q.key = "uuid"
    /\ q.seen # None => \E x \in rows : SameRow(q.seen, x)
    /\ q.seen # None /\ q.stage # "called" =>
          /\ Alike(q.seen, q.row) /\ q.row.status = q.seen.status /\ q.row.seen = q.seen.seen
          /\ q.op # "watch" => q.row = q.seen
    /\ q.seen = None /\ q.stage = "flushed" =>
          q.row.status = "pending_manual" /\ q.row.seen = FALSE /\ q.row.hook = 0

\* The rows when the request has ended
Left(q) == IF q.stage = "called" THEN Committed(q) ELSE rows

\* Rows and hooks at rest
Sound(set, hs, refused) ==
    /\ \A x \in set : Stands(x, hs) /\ (Demands(x) => hs # {})
    /\ provider = "gitlab" /\ ~refused =>
          \A h \in hs : h.by = "app" => \E x \in set : x.hook = h.id

Held ==
    /\ lost = FALSE
    /\ \A x \in Copies : x.key = "uuid"
    /\ provider = "gitlab" => \A g, h \in hooks : g = h
    /\ \A r \in Working : Knows(req[r]) /\ Sound(Left(req[r]), hooks, clashed)
    /\ Working = {} => Sound(rows, hooks, clashed)

\* A lone request among rows and hooks at rest, until a call fails or requests overlap
Service == Listing /\ (provider # "bitbucket" /\ Quiet => Held)

\* There is one row
LEMMA OneRow ==
    ASSUME Typed, Held
    PROVE  \A x, y \in rows : x = y
BY DEF Typed, TypeOK, KeysUnique, Held, Copies

LEMMA ServiceFirst == Init => Service
<1> SUFFICES ASSUME Init
             PROVE  Service
  OBVIOUS
<1>1. Working = {} /\ rows = {} /\ hooks = {}
  BY DEF Init, Working
<1>2. Copies = {}
  BY <1>1 DEF Copies
<1>3. Held
  BY <1>1, <1>2 DEF Held, Sound, Init
<1> QED BY <1>3, ListingFirst DEF Service

\* A lone request goes on to p, or ends
LEMMA HeldAfter ==
    ASSUME NEW r \in Req, req \in [Req -> Request \cup {None}], Working \subseteq {r}, NEW p,
           req' = [req EXCEPT ![r] = p], lost' = FALSE,
           provider' = "gitlab" => \A g, h \in hooks' : g = h,
           \A x \in rows' \cup Remembers(p) : x.key = "uuid",
           p # None => (Knows(p) /\ Sound(Left(p), hooks, clashed))',
           p = None => Sound(rows, hooks, clashed)'
    PROVE  Held'
<1>1. req'[r] = p /\ \A s \in Req \ {r} : req'[s] = None
  BY DEF Working
<1>2. Working' = IF p = None THEN {} ELSE {r}
  BY <1>1 DEF Working
<1>3. Copies' \subseteq rows' \cup Remembers(p)
  BY <1>1, <1>2 DEF Copies, Remembers
<1>4. \A s \in Working' : s = r /\ req'[s] = p /\ p # None
  BY <1>1, <1>2
<1>5. (\A s \in Working : Knows(req[s]) /\ Sound(Left(req[s]), hooks, clashed))'
  BY <1>4
<1>6. Working' = {} => p = None
  BY <1>2
<1> QED BY <1>3, <1>5, <1>6 DEF Held

LEMMA Lone ==
    ASSUME Service, ~overlap, NEW r \in Working
    PROVE  Working \subseteq {r}
BY DEF Service, Listing, Alone

LEMMA ReadHeld ==
    ASSUME Service, provider # "bitbucket", NEW r \in Req, Read(r), Quiet'
    PROVE  Held'
<1>1. /\ provider' = provider /\ rows' = rows /\ hooks' = hooks /\ lost' = lost
      /\ clashed' = clashed /\ faults' = faults /\ ~overlap /\ Working = {}
  BY DEF Read, Quiet
<1>2. /\ Typed /\ Held /\ rows \subseteq Row /\ req \in [Req -> Request \cup {None}]
      /\ provider \in Provider
  BY <1>1, ConstantsOK DEF Service, Listing, Quiet, Typed, TypeOK
<1>3. PICK op \in {o \in {"watch", "init", "patch", "disable", "purge", "verify"} : Served(o)} :
           \E b \in Bodies(op), t \in Targets(op) :
           req' = [req EXCEPT ![r] =
               [op |-> op, mode |-> b[1], on |-> b[2], key |-> t[1], seen |-> t[2],
                row |-> t[2], listed |-> Listed, locks |-> FALSE,
                stage |-> IF op \in {"watch", "init"} THEN "read" ELSE "flushed"]]
  BY DEF Read
<1>4. PICK b \in Bodies(op), t \in Targets(op) :
           req' = [req EXCEPT ![r] =
               [op |-> op, mode |-> b[1], on |-> b[2], key |-> t[1], seen |-> t[2],
                row |-> t[2], listed |-> Listed, locks |-> FALSE,
                stage |-> IF op \in {"watch", "init"} THEN "read" ELSE "flushed"]]
  BY <1>3
<1>5. \A x \in rows : x.key = "uuid"
  BY <1>2 DEF Held, Copies
<1>6. t[1] = "uuid" /\ t[2] \in rows \cup {None} /\ (op \notin {"watch", "init"} => t[2] \in rows)
  <2>1. t[1] = "uuid"
    BY <1>5 DEF Targets
  <2> QED BY <1>2, <2>1, TargetsFit
<1>7. PICK p : p = [op |-> op, mode |-> b[1], on |-> b[2], key |-> t[1], seen |-> t[2],
                    row |-> t[2], listed |-> Listed, locks |-> FALSE,
                    stage |-> IF op \in {"watch", "init"} THEN "read" ELSE "flushed"]
  OBVIOUS
<1>8. /\ Served(p.op) /\ p.key = "uuid" /\ p.seen = t[2] /\ p.row = t[2] /\ p.stage # "called"
      /\ p.stage = "flushed" => p.seen \in rows
      /\ p.seen \in rows \cup {None}
  BY <1>6, <1>7
<1>9. Knows(p)'
  <2>1. ASSUME p.seen # None
        PROVE  \E x \in rows : SameRow(p.seen, x)
    BY <1>8, <2>1 DEF SameRow
  <2>2. p.seen # None => Alike(p.seen, p.row)
    BY <1>8 DEF Alike
  <2>3. ~(p.seen = None /\ p.stage = "flushed")
    BY <1>2, <1>8, NoneIsNone
  <2>4. Served(p.op)'
    BY <1>1, <1>8 DEF Served
  <2> QED BY <1>1, <1>8, <2>1, <2>2, <2>3, <2>4 DEF Knows
<1>10. Sound(rows, hooks, clashed)'
  BY <1>1, <1>2 DEF Held, Sound, Demands, Wants, Stands
<1>11. Left(p)' = rows'
  BY <1>8 DEF Left
<1>12. \A x \in rows' \cup Remembers(p) : x.key = "uuid"
  BY <1>1, <1>5, <1>8 DEF Remembers
<1>13. p = None => Sound(rows, hooks, clashed)'
  BY <1>10
<1>14. (Knows(p) /\ Sound(Left(p), hooks, clashed))'
  BY <1>9, <1>10, <1>11
<1>15. req' = [req EXCEPT ![r] = p]
  BY <1>4, <1>7
<1>16. lost' = FALSE /\ (provider' = "gitlab" => \A g, h \in hooks' : g = h)
  BY <1>1, <1>2 DEF Held
<1> QED BY <1>1, <1>2, <1>12, <1>13, <1>14, <1>15, <1>16, HeldAfter

LEMMA FlushHeld ==
    ASSUME Service, provider # "bitbucket", NEW r \in Req, Flush(r), Quiet'
    PROVE  Held'
<1>1. PICK q : q = req[r]
  OBVIOUS
<1>2. /\ provider' = provider /\ rows' = rows /\ hooks' = hooks /\ lost' = lost
      /\ clashed' = clashed /\ faults' = faults /\ ~overlap
      /\ q # None /\ q.stage = "read"
  BY <1>1 DEF Flush, Quiet
<1>3. r \in Working /\ Working \subseteq {r}
  BY <1>1, <1>2, Lone DEF Working
<1>4. /\ Typed /\ Held /\ req \in [Req -> Request \cup {None}] /\ provider \in Provider
      /\ Ordered(q) /\ Knows(q) /\ Sound(Left(q), hooks, clashed)
  BY <1>1, <1>2, <1>3, ConstantsOK DEF Service, Listing, Quiet, Typed, TypeOK, Held
<1>5. \A x \in rows : x.key = "uuid"
  BY <1>4 DEF Held, Copies
<1>6. Sound(rows, hooks, clashed)'
  BY <1>2, <1>4 DEF Left, Sound, Demands, Wants, Stands
<1>7. lost' = FALSE /\ (provider' = "gitlab" => \A g, h \in hooks' : g = h)
  BY <1>2, <1>4 DEF Held
<1>8. CASE End(r)
  <2>1. req' = [req EXCEPT ![r] = None]
    BY <1>8 DEF End
  <2>2. \A x \in rows' \cup Remembers(None) : x.key = "uuid"
    BY <1>2, <1>5 DEF Remembers
  <2> QED BY <1>3, <1>4, <1>6, <1>7, <2>1, <2>2, HeldAfter
<1>9. CASE ~End(r)
  <2>1. PICK row : row = Upserted(q)
    OBVIOUS
  <2>2. PICK p : p = [q EXCEPT !.row = row, !.stage = "flushed", !.locks = Flushes(q),
                               !.listed = Listed]
    OBVIOUS
  <2>3. req' = [req EXCEPT ![r] = p]
    BY <1>1, <1>4, <1>9, <2>1, <2>2 DEF Flush
  <2>4. /\ p.op = q.op /\ p.key = q.key /\ p.seen = q.seen /\ p.row = row /\ p.stage = "flushed"
    BY <1>4, <2>2 DEF Ordered, Request
  <2>5. /\ row \in Row
        /\ q.seen # None => row.seen = q.seen.seen /\ Alike(q.seen, row)
        /\ q.seen = None => row.key = q.key /\ row.hook = 0
    BY <1>2, <1>4, <2>1, UpsertedIs
  <2>6. /\ q.seen # None => row.status = q.seen.status
        /\ q.seen = None => row.status = "pending_manual" /\ row.seen = FALSE
    BY <1>4, <2>1 DEF Upserted, Ordered, Request, Row
  <2>7. q.op \in {"watch", "init"} /\ (q.seen # None => q.op = "watch")
    BY <1>2, <1>4 DEF Ordered
  <2>8. Knows(p)'
    <3>1. Served(p.op)'
      BY <1>2, <1>4, <2>4 DEF Knows, Served
    <3> QED BY <1>2, <1>4, <2>4, <2>5, <2>6, <2>7, <3>1 DEF Knows
  <2>9. row.key = "uuid" /\ (q.seen # None => q.seen.key = "uuid")
    <3>1. q.seen # None => q.seen.key = "uuid"
      BY <1>1, <1>3, <1>4 DEF Held, Copies
    <3> QED BY <1>4, <2>5, <3>1 DEF Knows, Alike
  <2>10. \A x \in rows' \cup Remembers(p) : x.key = "uuid"
    BY <1>2, <1>5, <2>4, <2>9 DEF Remembers
  <2>11. Left(p)' = rows'
    BY <2>4 DEF Left
  <2>12. (Knows(p) /\ Sound(Left(p), hooks, clashed))'
    BY <1>6, <2>8, <2>11
  <2> QED BY <1>3, <1>4, <1>6, <1>7, <2>3, <2>10, <2>12, HeldAfter
<1> QED BY <1>8, <1>9

\* A lone request that is about to call the provider is calm
LEMMA CallCalm ==
    ASSUME Service, provider # "bitbucket", NEW r \in Req, Call(r), Quiet',
           NEW q, q = req[r], NEW w, w = Work(q)
    PROVE  /\ Typed /\ Held /\ Working \subseteq {r} /\ q.stage = "flushed" /\ Ordered(q)
           /\ Knows(q) /\ Sound(rows, hooks, clashed)
           /\ Calm(w) /\ w.row = q.row /\ w.hooks = hooks /\ w.row.key = "uuid"
<1>1. q # None /\ q.stage = "flushed" /\ ~overlap /\ r \in Working
  BY DEF Call, Quiet, Working
<1>2. Working \subseteq {r} /\ Typed
  BY <1>1, Lone DEF Service, Listing
<1>3. /\ Ordered(q) /\ Asked(q) /\ Fits(w) /\ w.row = q.row /\ w.hooks = hooks
      /\ w.listed = q.listed /\ w.faults = faults /\ w.lost = lost
  BY <1>1, <1>2, WorkFits
<1>4. w.raised = FALSE
  BY DEF Work
<1>5. faults = 0
  <2>1. PICK y : Handling(q, w, y) /\ faults' = y.faults
    BY <1>2, CallIs
  <2>2. y.faults >= w.faults /\ y.faults = 0
    BY <2>1 DEF Handling, Follows, Quiet
  <2> QED BY <1>3, <2>2 DEF Fits, WorkType
<1>6. Held
  BY <1>1, <1>5 DEF Service, Quiet
<1>7. Knows(q) /\ Sound(rows, hooks, clashed)
  BY <1>1, <1>6 DEF Held, Left
<1>8. Stands(w.row, w.hooks)
  <2>1. CASE q.seen = None
    BY <1>1, <1>3, <1>7, <2>1 DEF Knows, Stands
  <2>2. CASE q.seen # None
    <3>1. PICK x \in rows : SameRow(q.seen, x)
      BY <1>7, <2>2 DEF Knows
    <3>2. w.row.hook = x.hook
      BY <1>1, <1>3, <1>7, <2>2, <3>1 DEF Knows, Alike, SameRow
    <3> QED BY <1>3, <1>7, <3>1, <3>2 DEF Sound, Stands
  <2> QED BY <2>1, <2>2
<1>9. provider = "gitlab" => w.listed = w.hooks /\ \A g, h \in w.hooks : g = h
  BY <1>1, <1>3, <1>6 DEF Service, Listing, ListIsTrue, Held
<1>10. Calm(w)
  BY <1>3, <1>4, <1>5, <1>6, <1>8, <1>9 DEF Calm, Held
<1>11. w.row.key = "uuid"
  <2>1. q.row # None
    BY <1>3, NoneIsNone DEF Asked
  <2> QED BY <1>1, <1>2, <1>3, <1>6, <2>1, Remembered DEF Held
<1> QED BY <1>1, <1>2, <1>3, <1>6, <1>7, <1>10, <1>11

\* Its step
CalledTo(q, y, p) ==
    /\ p # None
    /\ p.op = q.op /\ p.key = q.key /\ p.seen = q.seen /\ p.stage = "called"
    /\ q.op # "purge" => p.row = y.row
    /\ q.op = "purge" => p.row = None

LEMMA CallSettles ==
    ASSUME Typed, NEW r \in Req, Call(r), faults' = 0, NEW q, q = req[r], Knows(q),
           NEW w, w = Work(q), Calm(w), provider # "bitbucket"
    PROVE  \E y : /\ Handles(q, w, y) /\ hooks' = y.hooks /\ lost' = FALSE
                  /\ \E p : req' = [req EXCEPT ![r] = p] /\ CalledTo(q, y, p)
<1>1. q # None /\ q.stage = "flushed"
  BY DEF Call
<1>2. Ordered(q) /\ Asked(q) /\ provider \in Provider \ {"bitbucket"}
  BY <1>1, WorkFits
<1>3. PICK x \in Handled(q) :
          /\ hooks' = x.hooks /\ faults' = x.faults /\ lost' = x.lost
          /\ IF x.raised THEN End(r)
             ELSE req' = [req EXCEPT ![r].row = x.row, ![r].stage = "called",
                                     ![r].mode = None, ![r].on = None, ![r].listed = {}]
  BY DEF Call
<1>4. Served(q.op) /\ x.faults = 0
  BY <1>3 DEF Knows
<1>5. PICK y : /\ Handles(q, w, y)
               /\ \/ x = y /\ q.op # "purge"
                  \/ x = [y EXCEPT !.row = None] /\ q.op = "purge"
  BY <1>2, <1>4, HandlesIs
<1>6. y \in WorkType /\ y.lost = FALSE /\ y.raised = FALSE
  BY <1>5 DEF Handles, Settles, Smooth, ClearedTo, Calm, Follows, Fits
<1>7. /\ x.hooks = y.hooks /\ x.lost = FALSE /\ x.raised = FALSE
      /\ q.op # "purge" => x.row = y.row
      /\ q.op = "purge" => x.row = None
  BY <1>5, <1>6 DEF WorkType
<1>8. PICK row : row = x.row
  OBVIOUS
<1>9. PICK p : p = [q EXCEPT !.row = row, !.stage = "called", !.mode = None, !.on = None,
                             !.listed = {}]
  OBVIOUS
<1>10. req' = [req EXCEPT ![r] = p]
  BY <1>3, <1>7, <1>8, <1>9 DEF Typed, TypeOK
<1>11. CalledTo(q, y, p)
  <2>1. p \in Request
    <3>1. row \in Row \cup {None}
      BY <1>5, <1>7, <1>8 DEF Handles, Follows, Fits, WorkType
    <3> QED BY <1>2, <1>9, <3>1 DEF Ordered, Request
  <2>2. p # None
    BY <2>1, NoneIsNone
  <2> QED BY <1>2, <1>7, <1>8, <1>9, <2>2 DEF CalledTo, Ordered, Request
<1> QED BY <1>3, <1>5, <1>7, <1>10, <1>11

\* A purge leaves no row, and no hook that it knew
LEMMA PurgedSound ==
    ASSUME Typed, Held, NEW seen, NEW x \in rows, SameRow(seen, x), Sound(rows, hooks, clashed),
           NEW w, Calm(w), w.hooks = hooks, w.row.hook = x.hook,
           NEW y, (y = w /\ w.row.hook = 0) \/ ClearedTo(w, y),
           NEW p, p.row = None, p.seen = seen
    PROVE  Sound(Committed(p), y.hooks, clashed)
<1>1. \A z \in rows : z = x
  BY OneRow
<1>2. Committed(p) = {}
  BY <1>1 DEF Committed, SameRow
<1>3. ASSUME provider = "gitlab", ~clashed, NEW h \in y.hooks, h.by = "app"
      PROVE  FALSE
  <2>1. h \in hooks /\ h.id # 0
    BY <1>3 DEF ClearedTo, Calm, Fits
  <2>2. x.hook = h.id
    BY <1>1, <1>3, <2>1 DEF Sound
  <2> QED BY <2>1, <2>2 DEF ClearedTo
<1> QED BY <1>2, <1>3 DEF Sound

\* A new row promises a hook when it has one
LEMMA InsertedSound ==
    ASSUME Sound(rows, hooks, clashed), NEW w, Calm(w), w.hooks = hooks,
           w.row.status = "pending_manual", w.row.seen = FALSE, w.row.hook = 0,
           provider \in Provider \ {"bitbucket"},
           NEW y, Settles(w, y), y.row.seen = w.row.seen,
           Hooked(w, y) \/ (Untouched(w, y) /\ (provider = "github" => ~Wants(y.row))),
           NEW p, p.row = y.row, p.row # None, p.seen = None
    PROVE  Sound(Committed(p), y.hooks, clashed)
<1>1. Committed(p) = rows \cup {y.row}
  BY DEF Committed
<1>2. hooks \subseteq y.hooks
  BY DEF Hooked, Untouched
<1>3. \A x \in rows : Stands(x, y.hooks) /\ (Demands(x) => y.hooks # {})
  BY <1>2 DEF Sound, Stands
<1>4. Stands(y.row, y.hooks)
  BY StandsAfter
<1>5. Demands(y.row) => y.hooks # {}
  <2>1. CASE Hooked(w, y)
    BY <2>1 DEF Hooked
  <2>2. CASE Untouched(w, y) /\ (provider = "github" => ~Wants(y.row))
    BY <2>2 DEF Untouched, Demands, StatusStays, Provider
  <2> QED BY <2>1, <2>2
<1>6. ASSUME provider = "gitlab", ~clashed, NEW h \in y.hooks, h.by = "app"
      PROVE  \E x \in rows \cup {y.row} : x.hook = h.id
  <2>1. CASE Hooked(w, y)
    BY <1>6, <2>1 DEF Hooked
  <2>2. CASE Untouched(w, y)
    BY <1>6, <2>2 DEF Untouched, Sound
  <2> QED BY <2>1, <2>2
<1> QED BY <1>1, <1>3, <1>4, <1>5, <1>6 DEF Sound

\* A commit writes what its request has changed, and keeps what a webhook has
LEMMA WrittenRow ==
    ASSUME NEW seen, NEW x, SameRow(seen, x), NEW row, row.seen = seen.seen,
           NEW z, z = Written(x, seen, row)
    PROVE  /\ z.hook = row.hook /\ z.mode = row.mode /\ z.enabled = row.enabled
           /\ z.seen = x.seen
           /\ z.status = IF row.status # seen.status THEN row.status ELSE x.status
BY DEF Written, Column, SameRow

LEMMA UpdatedSound ==
    ASSUME Typed, Held, NEW seen, seen # None, NEW x \in rows, SameRow(seen, x),
           Sound(rows, hooks, clashed), provider \in Provider \ {"bitbucket"},
           NEW w, Calm(w), w.hooks = hooks, w.row.hook = seen.hook, w.row.seen = seen.seen,
           w.row.status = seen.status,
           NEW y, Settles(w, y), y.row.seen = w.row.seen,
           w.row = seen \/ provider = "gitflic" \/ WatchSettles(w, y),
           NEW p, p.row = y.row, p.row # None, p.seen = seen
    PROVE  Sound(Committed(p), y.hooks, clashed)
<1>1. \A z \in rows : z = x
  BY OneRow
<1>2. PICK z : z = Written(x, seen, y.row)
  OBVIOUS
<1>3. Committed(p) = {z}
  BY <1>1, <1>2 DEF Committed, SameRow
<1>4. /\ z.hook = y.row.hook /\ z.mode = y.row.mode /\ z.enabled = y.row.enabled
      /\ z.seen = x.seen
      /\ z.status = IF y.row.status # seen.status THEN y.row.status ELSE x.status
  BY <1>2, WrittenRow
<1>5. Stands(z, y.hooks)
  BY <1>4, StandsAfter DEF Stands
<1>6. Wants(z) <=> Wants(y.row)
  BY <1>4 DEF Wants
<1>7. Demands(z) => y.hooks # {}
  <2>1. CASE Hooked(w, y)
    BY <2>1 DEF Hooked
  <2>2. CASE ~Wants(y.row)
    BY <1>6, <2>2 DEF Demands
  <2>3. CASE Untouched(w, y) /\ Wants(y.row)
    <3>1. Wants(w.row) /\ StatusStays(w, y) /\ y.hooks = hooks
      BY <2>3 DEF Untouched
    <3>2. CASE Hooked(w, y)
      BY <2>1, <3>2
    <3>3. CASE ~Hooked(w, y)
      <4>1. Wants(x)
        BY <2>3, <3>1, <3>3 DEF Wants, WatchSettles, SameRow
      <4>2. Demands(z) => Demands(x)
        BY <1>4, <3>1, <4>1 DEF Demands, StatusStays, SameRow, Provider
      <4> QED BY <3>1, <4>2 DEF Sound
    <3> QED BY <3>2, <3>3
  <2> QED BY <2>1, <2>2, <2>3 DEF Settles, Unhooked
<1>8. ASSUME provider = "gitlab", ~clashed, NEW h \in y.hooks, h.by = "app"
      PROVE  z.hook = h.id
  <2>1. CASE Hooked(w, y)
    BY <1>4, <1>8, <2>1 DEF Hooked
  <2>2. ASSUME h \in hooks
        PROVE  w.row.hook = h.id
    BY <1>1, <1>8, <2>2 DEF Sound, SameRow
  <2>3. CASE Unhooked(w, y)
    BY <1>8, <2>2, <2>3 DEF Unhooked
  <2>4. CASE Untouched(w, y)
    BY <1>4, <1>8, <2>2, <2>4 DEF Untouched
  <2> QED BY <2>1, <2>3, <2>4 DEF Settles
<1> QED BY <1>3, <1>5, <1>7, <1>8 DEF Sound

LEMMA CallHeld ==
    ASSUME Service, provider # "bitbucket", NEW r \in Req, Call(r), Quiet'
    PROVE  Held'
<1>1. PICK q : q = req[r]
  OBVIOUS
<1>2. PICK w : w = Work(q)
  OBVIOUS
<1>3. /\ Typed /\ Held /\ Working \subseteq {r} /\ q.stage = "flushed" /\ Ordered(q)
      /\ Knows(q) /\ Sound(rows, hooks, clashed)
      /\ Calm(w) /\ w.row = q.row /\ w.hooks = hooks /\ w.row.key = "uuid"
  BY <1>1, <1>2, CallCalm
<1>4. /\ req \in [Req -> Request \cup {None}] /\ provider \in Provider \ {"bitbucket"}
      /\ faults' = 0
      /\ provider' = provider /\ rows' = rows /\ clashed' = clashed
  BY <1>3, ConstantsOK DEF Call, Typed, TypeOK, Quiet
<1>5. PICK y : /\ Handles(q, w, y) /\ hooks' = y.hooks /\ lost' = FALSE
               /\ \E p : req' = [req EXCEPT ![r] = p] /\ CalledTo(q, y, p)
  BY <1>1, <1>2, <1>3, <1>4, CallSettles
<1>6. PICK p : req' = [req EXCEPT ![r] = p] /\ CalledTo(q, y, p)
  BY <1>5
<1>7. Follows(w, y) /\ y.row \in Row /\ y.row.seen = w.row.seen
  BY <1>5 DEF Handles, Follows, Fits, WorkType
<1>8. Sound(Committed(p), y.hooks, clashed)
  <2>1. CASE q.op = "purge"
    <3>1. q.seen # None
      BY <1>3, <2>1 DEF Ordered
    <3>2. PICK x \in rows : SameRow(q.seen, x)
      BY <1>3, <3>1 DEF Knows
    <3>3. w.row.hook = x.hook
      BY <1>3, <3>1, <3>2 DEF Knows, Alike, SameRow
    <3>4. (y = w /\ w.row.hook = 0) \/ ClearedTo(w, y)
      BY <1>5, <2>1 DEF Handles
    <3>5. p.row = None /\ p.seen = q.seen
      BY <1>6, <2>1 DEF CalledTo
    <3> QED BY <1>3, <3>2, <3>3, <3>4, <3>5, PurgedSound
  <2>2. CASE q.op # "purge"
    <3>1. Settles(w, y)
      BY <1>5, <2>2 DEF Handles
    <3>2. p.row = y.row /\ p.row # None /\ p.seen = q.seen
      BY <1>6, <1>7, <2>2, NoneIsNone DEF CalledTo
    <3>3. CASE q.seen = None
      <4>1. w.row.status = "pending_manual" /\ w.row.seen = FALSE /\ w.row.hook = 0
        BY <1>3, <3>3 DEF Knows
      <4>2. /\ q.op \in {"watch", "init"}
            /\ q.op = "init" => provider \in {"gitlab", "bitbucket_dc"}
            /\ q.op = "watch" => provider # "bitbucket_dc"
        BY <1>3, <3>3 DEF Ordered
      <4>3. Hooked(w, y) \/ (Untouched(w, y) /\ (provider = "github" => ~Wants(y.row)))
        <5>1. CASE q.op = "init"
          <6>1. Hooked(w, y) \/ y = w
            BY <1>5, <5>1 DEF Handles
          <6> QED BY <1>3, <4>2, <5>1, <6>1, SettlesItself
        <5>2. CASE q.op = "watch" /\ provider \in {"gitlab", "github"}
          BY <1>5, <5>2 DEF Handles, WatchSettles
        <5>3. CASE q.op = "watch" /\ provider = "gitflic"
          BY <3>1, <5>3 DEF Settles, Unhooked, Wants
        <5> QED BY <1>4, <4>2, <5>1, <5>2, <5>3 DEF Provider
      <4> QED BY <1>3, <1>4, <1>7, <3>1, <3>2, <3>3, <4>1, <4>3, InsertedSound
    <3>4. CASE q.seen # None
      <4>1. PICK x \in rows : SameRow(q.seen, x)
        BY <1>3, <3>4 DEF Knows
      <4>2. /\ w.row.hook = q.seen.hook /\ w.row.seen = q.seen.seen
            /\ w.row.status = q.seen.status
            /\ q.op # "watch" => w.row = q.seen
        BY <1>3, <3>4 DEF Knows, Alike
      <4>3. q.op = "watch" => provider # "bitbucket_dc"
        BY <1>3 DEF Ordered
      <4>4. w.row = q.seen \/ provider = "gitflic" \/ WatchSettles(w, y)
        BY <1>4, <1>5, <4>2, <4>3 DEF Handles, Provider
      <4> QED BY <1>3, <1>4, <1>7, <3>1, <3>2, <3>4, <4>1, <4>2, <4>4, UpdatedSound
    <3> QED BY <3>3, <3>4
  <2> QED BY <2>1, <2>2
<1>9. Knows(p)'
  <2>1. Served(p.op)'
    BY <1>3, <1>4, <1>6 DEF Knows, Served, CalledTo
  <2> QED BY <1>3, <1>4, <1>6, <2>1 DEF Knows, CalledTo
<1>10. Sound(Left(p), hooks, clashed)'
  <2>1. Left(p)' = Committed(p)
    BY <1>4, <1>6 DEF Left, Committed, CalledTo
  <2> QED BY <1>4, <1>5, <1>8, <2>1 DEF Sound, Demands, Wants, Stands
<1>11. \A x \in rows' \cup Remembers(p) : x.key = "uuid"
  <2>1. \A x \in rows : x.key = "uuid"
    BY <1>3 DEF Held, Copies
  <2>2. q.seen # None => q.seen.key = "uuid"
    <3>1. q # None
      BY <1>1 DEF Call
    <3> QED BY <1>1, <1>3, <3>1, Remembered DEF Held
  <2>3. p.row # None => p.row.key = "uuid"
    <3>1. q.op # "purge" => y.row.key = w.row.key
      BY <1>5 DEF Handles, Settles, Smooth
    <3> QED BY <1>3, <1>6, <3>1 DEF CalledTo
  <2> QED BY <1>4, <1>6, <2>1, <2>2, <2>3 DEF Remembers, CalledTo
<1>12. provider' = "gitlab" => \A g, h \in hooks' : g = h
  <2>1. provider = "gitlab" => \A g, h \in y.hooks : g = h
    BY <1>3, <1>5 DEF Handles, Settles, Hooked, Unhooked, Untouched, ClearedTo, Calm
  <2> QED BY <1>4, <1>5, <2>1
<1>13. p # None
  BY <1>6 DEF CalledTo
<1> QED BY <1>3, <1>4, <1>5, <1>6, <1>9, <1>10, <1>11, <1>12, <1>13, HeldAfter

LEMMA CommitHeld ==
    ASSUME Service, provider # "bitbucket", NEW r \in Req, Commit(r), Quiet'
    PROVE  Held'
<1>1. PICK q : q = req[r]
  OBVIOUS
<1>2. /\ q # None /\ q.stage = "called" /\ req' = [req EXCEPT ![r] = None]
      /\ UNCHANGED <<provider, hooks, faults, lost, overlap>>
      /\ IF q.row = q.seen THEN UNCHANGED <<rows, clashed>>
         ELSE IF Refused(q) THEN clashed' = TRUE /\ UNCHANGED rows
         ELSE rows' = Committed(q) /\ UNCHANGED clashed
  BY <1>1 DEF Commit, End
<1>3. r \in Working /\ ~overlap /\ faults = 0
  BY <1>1, <1>2 DEF Working, Quiet
<1>4. /\ Working \subseteq {r} /\ Typed /\ Held /\ Knows(q) /\ Ordered(q)
      /\ Sound(Committed(q), hooks, clashed)
      /\ req \in [Req -> Request \cup {None}] /\ rows \subseteq Row
  BY <1>1, <1>2, <1>3, Lone DEF Service, Listing, Quiet, Held, Left, Typed, TypeOK
<1>5. /\ \A x \in rows : x.key = "uuid"
      /\ q.seen # None => q.seen.key = "uuid"
      /\ q.row # None => q.row.key = "uuid"
  BY <1>1, <1>2, <1>4, Remembered DEF Held
<1>6. Sound(rows', hooks, clashed')
  <2>1. CASE q.row = q.seen
    <3>1. q.row # None /\ q.seen # None
      BY <1>2, <1>4, <2>1, NoneIsNone DEF Ordered
    <3>2. \A x \in rows : (IF x.id = q.seen.id THEN Written(x, q.seen, q.row) ELSE x) = x
      <4>1. \A x \in Row : Written(x, q.seen, q.seen) = x
        BY DEF Written, Column, Row
      <4> QED BY <1>4, <2>1, <4>1
    <3>3. Committed(q) = rows
      BY <3>1, <3>2 DEF Committed
    <3> QED BY <1>2, <1>4, <2>1, <3>3
  <2>2. CASE q.row # q.seen /\ Refused(q)
    <3>1. rows \subseteq Committed(q)
      <4>1. CASE q.seen = None
        BY <2>2, <4>1 DEF Committed
      <4>2. CASE q.seen # None
        <5>1. PICK x \in rows : SameRow(q.seen, x)
          BY <1>4, <4>2 DEF Knows
        <5>2. ~Stale(q)
          BY <5>1 DEF Stale, SameRow
        <5>3. \A z \in rows : z = x
          BY <1>4, OneRow
        <5>4. \A y, z \in Committed(q) : y = z
          BY <4>2, <5>3 DEF Committed
        <5> QED BY <2>2, <5>2, <5>4 DEF Refused, KeysUnique
      <4> QED BY <4>1, <4>2
    <3>2. clashed' = TRUE /\ rows' = rows
      BY <1>2, <2>2
    <3> QED BY <1>4, <3>1, <3>2 DEF Sound
  <2>3. CASE q.row # q.seen /\ ~Refused(q)
    BY <1>2, <1>4, <2>3
  <2> QED BY <2>1, <2>2, <2>3
<1>7. Sound(rows, hooks, clashed)'
  BY <1>2, <1>6 DEF Sound, Demands, Wants, Stands
<1>8. PICK p : p = None
  OBVIOUS
<1>9. \A x \in rows' \cup Remembers(p) : x.key = "uuid"
  <2>1. \A x \in Committed(q) : x.key = "uuid"
    <3> SUFFICES ASSUME NEW x \in Committed(q)
                 PROVE  x.key = "uuid"
      OBVIOUS
    <3>1. CommittedTo(q, x)
      BY <1>2, <1>4, CommittedIs
    <3>2. CASE q.seen \in Row /\ q.row \in Row /\ \E old \in rows : x = Written(old, q.seen, q.row)
      <4>1. PICK old \in rows : x = Written(old, q.seen, q.row)
        BY <3>2
      <4>2. q.seen # None /\ q.row # None /\ old \in Row
        BY <1>4, <3>2, NoneIsNone
      <4>3. x.key = Column(old.key, q.seen.key, q.row.key)
        BY <3>2, <4>1, <4>2, WrittenIs
      <4> QED BY <1>5, <4>2, <4>3 DEF Column
    <3>3. CASE x \in rows \/ (q.row \in Row /\ x = q.row)
      BY <1>5, <3>3, NoneIsNone
    <3> QED BY <3>1, <3>2, <3>3 DEF CommittedTo
  <2>2. rows' = rows \/ rows' = Committed(q)
    BY <1>2
  <2> QED BY <1>5, <1>8, <2>1, <2>2 DEF Remembers
<1>10. lost' = FALSE /\ (provider' = "gitlab" => \A g, h \in hooks' : g = h)
  BY <1>2, <1>4 DEF Held
<1> QED BY <1>2, <1>4, <1>7, <1>8, <1>9, <1>10, HeldAfter

\* An admin's hook is the first one
LEMMA AddByHandHeld ==
    ASSUME Service, provider # "bitbucket", AddByHand, Quiet'
    PROVE  Held'
<1>1. /\ UNCHANGED <<provider, rows, req, faults, lost, clashed>> /\ ~overlap /\ faults = 0
      /\ Working = {} /\ hooks = {}
  BY DEF AddByHand, Quiet
<1>2. PICK h : hooks' = {h} /\ h.by = "admin"
  <2>1. PICK x \in rows : hooks' = {[id |-> Unused(Used), secret |-> x.secret, by |-> "admin"]}
    BY DEF AddByHand
  <2>2. PICK h : h = [id |-> Unused(Used), secret |-> x.secret, by |-> "admin"]
    OBVIOUS
  <2> QED BY <2>1, <2>2
<1>3. Held /\ Sound(rows, hooks, clashed)
  BY <1>1 DEF Service, Quiet, Held
<1>4. \A x \in rows : x.hook = 0
  BY <1>1, <1>3 DEF Sound, Stands
<1>5. Working' = {} /\ Copies' = Copies
  BY <1>1 DEF Working, Copies
<1>6. Sound(rows, hooks, clashed)'
  BY <1>1, <1>2, <1>4 DEF Sound, Stands
<1> QED BY <1>1, <1>2, <1>3, <1>5, <1>6 DEF Held

\* A delivery leaves the hooks that the rows know
LEMMA SoundAgain ==
    ASSUME NEW hs, hs # {}, NEW refused, NEW S, Sound(S, hs, refused), NEW T,
           \A u \in T : \E v \in S : u.hook = v.hook,
           \A v \in S : \E u \in T : u.hook = v.hook
    PROVE  Sound(T, hs, refused)
BY DEF Sound, Stands

\* What a delivery does to the row
SeenAs(x, y) ==
    /\ y.id = x.id /\ y.key = x.key /\ y.mode = x.mode /\ y.enabled = x.enabled
    /\ y.hook = x.hook /\ y.seen = TRUE
    /\ y.status = IF x.status = "pending_manual" THEN "active" ELSE x.status

LEMMA CommittedAgain ==
    ASSUME NEW q, NEW x, NEW y, SeenAs(x, y), rows = {x}, rows' = {y}
    PROVE  /\ \A u \in Committed(q)' : \E v \in Committed(q) : u.hook = v.hook
           /\ \A v \in Committed(q) : \E u \in Committed(q)' : u.hook = v.hook
<1>1. Written(y, q.seen, q.row).hook = Written(x, q.seen, q.row).hook
  BY DEF Written, SeenAs
<1>2. CASE q.row = None
  BY <1>2 DEF Committed, SeenAs
<1>3. CASE q.row # None /\ q.seen = None
  BY <1>3 DEF Committed, SeenAs
<1>4. CASE q.row # None /\ q.seen # None
  <2>1. /\ Committed(q) = {IF x.id = q.seen.id THEN Written(x, q.seen, q.row) ELSE x}
        /\ Committed(q)' = {IF y.id = q.seen.id THEN Written(y, q.seen, q.row) ELSE y}
    BY <1>4 DEF Committed
  <2> QED BY <1>1, <2>1 DEF SeenAs
<1> QED BY <1>2, <1>3, <1>4

\* A webhook that arrives says that there is one
LEMMA DeliveredHeld ==
    ASSUME Service, provider # "bitbucket", NEW h \in hooks, NEW x \in rows,
           Delivered(x, h), Quiet'
    PROVE  Held'
<1>1. UNCHANGED <<provider, hooks, req, faults, lost, overlap, clashed>>
  BY DEF Delivered
<1>2. Typed /\ Held /\ x \in Row /\ rows = {x}
  <2>1. Typed /\ Held
    BY <1>1 DEF Service, Listing, Quiet
  <2> QED BY <2>1, OneRow DEF Typed, TypeOK
<1>3. PICK status : status = IF x.status = "pending_manual" THEN "active" ELSE x.status
  OBVIOUS
<1>4. PICK y : y = [x EXCEPT !.seen = TRUE, !.status = status]
  OBVIOUS
<1>5. SeenAs(x, y)
  BY <1>2, <1>3, <1>4 DEF SeenAs, Row
<1>6. rows' = {y}
  <2>1. y = [x EXCEPT !.seen = TRUE,
                      !.status = IF @ = "pending_manual" THEN "active" ELSE @]
    BY <1>2, <1>3, <1>4 DEF Row
  <2> QED BY <1>2, <2>1 DEF Delivered
<1>7. Working' = Working /\ \A s \in Working : req'[s] = req[s]
  BY <1>1 DEF Working
<1>8. Copies' \subseteq Copies \cup {y}
  BY <1>6, <1>7 DEF Copies
<1>9. \A z \in Copies' : z.key = "uuid"
  BY <1>2, <1>5, <1>8, Remembered DEF Held, SeenAs
<1>10. ASSUME Sound(rows, hooks, clashed)
       PROVE  Sound(rows, hooks, clashed)'
  <2>1. Sound(rows', hooks, clashed)
    BY <1>2, <1>5, <1>6, <1>10, SoundAgain DEF SeenAs
  <2> QED BY <1>1, <2>1 DEF Sound, Demands, Wants, Stands
<1>11. ASSUME NEW s \in Working
       PROVE  Knows(req[s])' /\ Sound(Left(req[s]), hooks, clashed)'
  <2>1. PICK q : q = req[s]
    OBVIOUS
  <2>2. q = req'[s] /\ Knows(q) /\ Sound(Left(q), hooks, clashed)
    BY <1>2, <1>7, <2>1 DEF Held
  <2>3. Knows(q)'
    <3>1. q.seen # None => SameRow(q.seen, y)
      BY <1>2, <1>5, <2>2 DEF Knows, SameRow, SeenAs
    <3>2. Served(q.op)'
      BY <1>1, <2>2 DEF Knows, Served
    <3> QED BY <1>6, <2>2, <3>1, <3>2 DEF Knows
  <2>4. CASE q.stage = "called"
    <3>1. Left(q)' = Committed(q)' /\ Sound(Committed(q), hooks, clashed)
      BY <2>2, <2>4 DEF Left
    <3>2. /\ \A u \in Committed(q)' : \E v \in Committed(q) : u.hook = v.hook
          /\ \A v \in Committed(q) : \E u \in Committed(q)' : u.hook = v.hook
      BY <1>2, <1>5, <1>6, CommittedAgain
    <3>3. PICK S, T : S = Committed(q) /\ T = Committed(q)'
      OBVIOUS
    <3>4. Sound(T, hooks, clashed)
      BY <3>1, <3>2, <3>3, SoundAgain
    <3>5. Sound(Left(q), hooks, clashed)'
      BY <1>1, <3>1, <3>3, <3>4 DEF Sound, Demands, Wants, Stands
    <3> QED BY <2>2, <2>3, <3>5
  <2>5. CASE q.stage # "called"
    BY <1>10, <2>2, <2>3, <2>5 DEF Left
  <2> QED BY <2>4, <2>5
<1>12. lost' = FALSE /\ (provider' = "gitlab" => \A f, g \in hooks' : f = g)
  BY <1>1, <1>2 DEF Held
<1>13. Working' = {} => Sound(rows, hooks, clashed)'
  BY <1>2, <1>7, <1>10 DEF Held
<1>14. \A s \in Working' : (Knows(req[s]) /\ Sound(Left(req[s]), hooks, clashed))'
  BY <1>7, <1>11
<1> QED BY <1>9, <1>12, <1>13, <1>14 DEF Held

LEMMA ServiceNext == Service /\ [Next]_vars => Service'
<1> SUFFICES ASSUME Service, [Next]_vars
             PROVE  Service'
  OBVIOUS
<1>1. Listing'
  BY ListingNext DEF Service
<1>2. CASE Next
  <2> SUFFICES ASSUME provider' # "bitbucket", Quiet'
               PROVE  Held'
    BY <1>1 DEF Service
  <2>1. provider' = provider
    BY <1>2 DEF Next, Read, Flush, Call, Commit, Rollback, AddByHand, GitLabDelivers,
                GitFlicDelivers, Delivered
  <2>2. ASSUME NEW r \in Req, Rollback(r)
        PROVE  FALSE
    BY <2>2 DEF Rollback, Quiet, Service, Listing, Typed, TypeOK
  <2>3. ASSUME NEW h \in hooks, NEW x \in rows, Delivered(x, h)
        PROVE  Held'
    BY <2>1, <2>3, DeliveredHeld
  <2> QED BY <1>2, <2>1, <2>2, <2>3, ReadHeld, FlushHeld, CallHeld, CommitHeld, AddByHandHeld
             DEF Next, GitLabDelivers, GitFlicDelivers
<1>3. CASE UNCHANGED vars
  <2>1. Quiet' => Quiet
    BY <1>3 DEF Quiet, vars
  <2>2. provider # "bitbucket" /\ Quiet => Held'
    BY <1>3 DEF Service, Held, Working, Copies, Knows, Served, Sound, Demands, Wants, Stands,
                Left, Committed, vars
  <2> QED BY <1>1, <1>3, <2>1, <2>2 DEF Service, vars
<1> QED BY <1>2, <1>3

LEMMA ServiceAlways == Spec => []Service
BY ServiceFirst, ServiceNext, PTL DEF Spec

\* A connection that calls itself active and enabled in a webhook mode has a webhook
\* to be called by, when no call has failed and no two requests have overlapped:
\* every branch that writes the status has made a hook, found one, or seen a
\* delivery of one, and the branches that remove it take the status or the mode away
THEOREM ActiveRowsHaveHooks == Spec => []ActiveHasHook
<1>1. Service => ActiveHasHook
  <2> SUFFICES ASSUME Service, Quiet, Idle, provider # "bitbucket", NEW x \in rows,
                      x.status = "active", x.enabled, x.mode \in HookModes
               PROVE  hooks # {}
    BY DEF ActiveHasHook
  <2>1. Sound(rows, hooks, clashed) /\ x \in Row
    BY DEF Service, Listing, Typed, TypeOK, Held, Idle
  <2>2. x.enabled = TRUE
    BY <2>1 DEF Row
  <2>3. Demands(x)
    BY <2>2 DEF Demands, Wants
  <2> QED BY <2>1, <2>3 DEF Sound
<1> QED BY <1>1, ServiceAlways, PTL

\* GitLab keeps no webhook of the application that no row knows, when no call has
\* failed, no two requests have overlapped and no commit was refused: a request that
\* drops its row, or leaves the webhook modes, has removed the hook first
THEOREM GitLabHooksAreKnown == Spec => []HooksKnown
<1>1. Service => HooksKnown
  BY DEF Service, Held, Idle, Sound, HooksKnown, AppHooks
<1> QED BY <1>1, ServiceAlways, PTL
=============================================================================
