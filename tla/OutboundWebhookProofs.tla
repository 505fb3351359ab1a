------------------------- MODULE OutboundWebhookProofs -------------------------
(***************************************************************************)
(* OutboundWebhook for any number of messages, admins and workers: its     *)
(* types, that only an admin switches a subscription on (OffStaysOff),     *)
(* that no failure is counted twice (FailsBounded), and that nobody        *)
(* switches it off for less than MaxFailures of them (DisabledForCause).   *)
(*                                                                         *)
(* All rest on what is known of the copies that deliveries and PATCHes     *)
(* work on while the row changes: a delivery's copy was enabled when it    *)
(* was read, and no copy has a counter above the failures committed so     *)
(* far, which only grow.                                                   *)
(***************************************************************************)
EXTENDS OutboundWebhook, TLAPS

InFlight == {"read", "posted"}

\* The copies of deliveries under way
CopiesEnabled ==
    \A m \in Msg : stage[m] \in InFlight => copy[m] \in Row /\ copy[m].enabled

\* No copy is ahead of the failures committed
CopiesBounded ==
    /\ \A m \in Msg : stage[m] \in InFlight => copy[m].fails <= failures
    /\ \A a \in Admin : patch[a] # None => patch[a].seen.fails <= failures

\* A delivery that has posted knows what came of it
Answered ==
    \A m \in Msg : stage[m] = "posted" => result[m] \in {"ok", "status", "transport", "no_secret"}

Inv == TypeOK /\ CopiesEnabled /\ Answered
Bounds == FailsBounded /\ CopiesBounded

-----------------------------------------------------------------------------
(* The columns a commit writes *)

LEMMA WrittenType ==
    ASSUME sub \in Row \cup {None}, NEW seen \in Row, NEW new \in Row
    PROVE  Written(seen, new) \in Row \cup {None}
  BY DEF Written, Column, Row

LEMMA UpdatedType ==
    ASSUME NEW m \in Msg, copy[m] \in Row
    PROVE  /\ Updated(m) \in Row
           /\ Updated(m).enabled = EnabledAfter(m)
           /\ Updated(m).fails = FailsAfter(m)
<1>1. FailsAfter(m) \in Nat
  BY DEF FailsAfter, Row
<1>2. EnabledAfter(m) \in BOOLEAN
  BY Zenon DEF EnabledAfter
<1> QED
  BY <1>1, <1>2 DEF Updated, Row

LEMMA PatchedType ==
    ASSUME NEW p \in [on : BOOLEAN, seen : Row]
    PROVE  Patched(p) \in Row
  BY DEF Patched, Row

-----------------------------------------------------------------------------
(* Types, and copies read from an enabled row *)

LEMMA InitInv == Init => Inv
  BY ConstantsOK DEF Init, Inv, TypeOK, CopiesEnabled, Answered, InFlight, Row, Ended

LEMMA StepInv == Inv /\ [Next]_vars => Inv'
<1> SUFFICES ASSUME Inv, [Next]_vars PROVE Inv'
  OBVIOUS
<1> USE DEF Inv, InFlight, tally
<1>1. ASSUME NEW m \in Msg, Fanout(m) \/ Redeliver(m) \/ Skip(m) PROVE Inv'
  BY <1>1 DEF Fanout, Redeliver, Skip, TypeOK, CopiesEnabled, Answered, Ended
<1>2. ASSUME NEW m \in Msg, Read(m) PROVE Inv'
  BY <1>2 DEF Read, TypeOK, CopiesEnabled, Answered, Row
<1>3. ASSUME NEW m \in Msg, Post(m) PROVE Inv'
  BY <1>3 DEF Post, TypeOK, CopiesEnabled, Answered
<1>4. ASSUME NEW m \in Msg, Commit(m) PROVE Inv'
  <2>1. copy[m] \in Row
    BY <1>4 DEF Commit, CopiesEnabled, Answered
  <2>2. sub' \in Row \cup {None}
    BY <1>4, <2>1, UpdatedType, WrittenType DEF Commit, TypeOK
  <2>3. streak' \in Nat /\ failures' \in Nat
    BY <1>4 DEF Commit, TypeOK
  <2> QED
    BY <1>4, <2>2, <2>3 DEF Commit, TypeOK, CopiesEnabled, Answered, Ended
<1>5. ASSUME NEW m \in Msg, Fault(m) PROVE Inv'
  BY <1>5, ConstantsOK DEF Fault, TypeOK, CopiesEnabled, Answered, Ended
<1>6. ASSUME NEW m \in Msg, WorkerDies(m) PROVE Inv'
  BY <1>6, ConstantsOK DEF WorkerDies, TypeOK, CopiesEnabled, Answered
<1>7. ASSUME NEW a \in Admin, NEW on \in BOOLEAN, PatchRead(a, on) PROVE Inv'
  BY <1>7 DEF PatchRead, message, TypeOK, CopiesEnabled, Answered
<1>8. ASSUME NEW a \in Admin, PatchCommit(a) PROVE Inv'
  <2>1. patch[a] \in [on : BOOLEAN, seen : Row]
    BY <1>8 DEF PatchCommit, TypeOK
  <2>2. sub' \in Row \cup {None}
    BY <1>8, <2>1, PatchedType, WrittenType DEF PatchCommit, TypeOK
  <2>3. streak' \in Nat
    BY <1>8 DEF PatchCommit, TypeOK
  <2> QED
    BY <1>8, <2>2, <2>3 DEF PatchCommit, message, TypeOK, CopiesEnabled, Answered
<1>9. ASSUME RotateSecret \/ KeyReplaced \/ DeleteSubscription PROVE Inv'
  BY <1>9 DEF RotateSecret, KeyReplaced, DeleteSubscription, message, TypeOK,
              CopiesEnabled, Answered, Row
<1>10. CASE UNCHANGED vars
  BY <1>10 DEF vars, message, TypeOK, CopiesEnabled, Answered
<1> QED
  BY <1>1, <1>2, <1>3, <1>4, <1>5, <1>6, <1>7, <1>8, <1>9, <1>10 DEF Next, Work

\* Every variable keeps its type, and a delivery works on an enabled copy
THEOREM TypeCorrect == Spec => []TypeOK
<1>1. Inv => TypeOK
  BY DEF Inv
<1> QED
  BY <1>1, InitInv, StepInv, PTL DEF Spec

-----------------------------------------------------------------------------
(* Only an admin switches a subscription on *)

SwitchedOn ==
    sub # None /\ sub' # None =>
        (~sub.enabled /\ sub'.enabled =>
            \E a \in Admin : patch[a] # None /\ patch'[a] = None /\ patch[a].on)

LEMMA OffStep == Inv /\ [Next]_vars => SwitchedOn
<1> SUFFICES ASSUME Inv, [Next]_vars, sub # None, sub' # None,
                    ~sub.enabled, sub'.enabled
             PROVE  \E a \in Admin : patch[a] # None /\ patch'[a] = None /\ patch[a].on
  BY DEF SwitchedOn
<1> USE DEF Inv
<1>0. sub \in Row
  BY DEF TypeOK
<1>1. ASSUME NEW m \in Msg, Commit(m) PROVE FALSE
  <2>1. copy[m] \in Row /\ copy[m].enabled
    BY <1>1 DEF Commit, CopiesEnabled, InFlight
  <2>2. Updated(m) \in Row
    BY <2>1, UpdatedType
  <2>3. sub'.enabled = Column(sub.enabled, copy[m].enabled, Updated(m).enabled)
    BY <1>1 DEF Commit, Written
  <2>4. Updated(m).enabled = TRUE
    BY <1>0, <2>1, <2>2, <2>3 DEF Column, Row
  <2> QED
    BY <1>0, <2>1, <2>3, <2>4 DEF Column, Row
<1>2. ASSUME NEW a \in Admin, PatchCommit(a)
      PROVE  patch[a] # None /\ patch'[a] = None /\ patch[a].on
  <2>1. patch[a] # None /\ patch'[a] = None
    BY <1>2 DEF PatchCommit, TypeOK
  <2>2. patch[a] \in [on : BOOLEAN, seen : Row]
    BY <2>1 DEF TypeOK
  <2>3. sub'.enabled = Column(sub.enabled, patch[a].seen.enabled, Patched(patch[a]).enabled)
    BY <1>2 DEF PatchCommit, Written
  <2>4. ~patch[a].on => Patched(patch[a]).enabled = FALSE
    BY <2>2 DEF Patched, Row
  <2> QED
    BY <1>0, <2>1, <2>2, <2>3, <2>4 DEF Column, Row
<1>3. ASSUME RotateSecret \/ KeyReplaced \/ DeleteSubscription PROVE FALSE
  BY <1>0, <1>3 DEF RotateSecret, KeyReplaced, DeleteSubscription, Row
<1>4. ASSUME UNCHANGED sub PROVE FALSE
  BY <1>4
<1> QED
  BY <1>1, <1>2, <1>3, <1>4
  DEF Next, Work, vars, Fanout, Redeliver, Skip, Read, Post, Fault, WorkerDies, PatchRead

\* A delivery that was under way when the subscription was switched off never
\* switches it on again with its commit
THEOREM OffStays == Spec => OffStaysOff
<1>1. Inv /\ [Next]_vars => [SwitchedOn]_vars
  BY OffStep
<1> QED
  BY <1>1, InitInv, StepInv, PTL DEF Spec, OffStaysOff, SwitchedOn

-----------------------------------------------------------------------------
(* No failure is counted twice *)

LEMMA InitBounds == Init => Bounds
  BY DEF Init, Bounds, FailsBounded, CopiesBounded, InFlight

\* What a commit of m makes of the counter and of the failures
LEMMA Counting ==
    ASSUME Inv, Bounds, NEW m \in Msg, Commit(m), sub # None
    PROVE  /\ copy[m] \in Row /\ copy[m].enabled /\ Updated(m) \in Row
           /\ FailsAfter(m) \in Nat /\ FailsAfter(m) <= failures'
           /\ sub'.fails = Column(sub.fails, copy[m].fails, FailsAfter(m))
           /\ sub'.enabled = Column(sub.enabled, copy[m].enabled, EnabledAfter(m))
<1> USE DEF Inv, InFlight
<1>1. /\ copy[m] \in Row /\ copy[m].enabled /\ copy[m].fails <= failures
      /\ failures \in Nat /\ failures' = IF Failing(m) THEN failures + 1 ELSE failures
  BY DEF Commit, CopiesEnabled, Bounds, CopiesBounded, TypeOK
<1>2. FailsAfter(m) \in Nat /\ FailsAfter(m) <= failures'
  BY <1>1 DEF FailsAfter, Row
<1>3. /\ Updated(m) \in Row /\ Updated(m).fails = FailsAfter(m)
      /\ Updated(m).enabled = EnabledAfter(m)
  BY <1>1, UpdatedType
<1>4. sub' = [enabled |-> Column(sub.enabled, copy[m].enabled, Updated(m).enabled),
              fails   |-> Column(sub.fails, copy[m].fails, Updated(m).fails),
              secret  |-> Column(sub.secret, copy[m].secret, Updated(m).secret)]
  BY DEF Commit, Written
<1> QED
  BY <1>1, <1>2, <1>3, <1>4

LEMMA StepBounds == Inv /\ Bounds /\ [Next]_vars => Bounds'
<1> SUFFICES ASSUME Inv, Bounds, [Next]_vars PROVE Bounds'
  OBVIOUS
<1> USE DEF InFlight, Inv, Row, tally
<1>t. /\ failures \in Nat
      /\ sub # None => sub \in Row /\ sub.fails <= failures
      /\ \A m \in Msg : stage[m] \in InFlight => copy[m] \in Row /\ copy[m].fails <= failures
      /\ \A a \in Admin : patch[a] # None =>
            patch[a] \in [on : BOOLEAN, seen : Row] /\ patch[a].seen.fails <= failures
  BY DEF TypeOK, CopiesEnabled, Bounds, FailsBounded, CopiesBounded
<1> USE DEF Bounds, FailsBounded, CopiesBounded
<1>1. ASSUME NEW m \in Msg, Fanout(m) \/ Redeliver(m) \/ Skip(m) \/ Post(m) PROVE Bounds'
  BY <1>t, <1>1 DEF Fanout, Redeliver, Skip, Post, TypeOK
<1>2. ASSUME NEW m \in Msg, Read(m) PROVE Bounds'
  BY <1>t, <1>2 DEF Read, TypeOK
<1>3. ASSUME NEW m \in Msg, Commit(m) PROVE Bounds'
  <2>1. failures' \in Nat /\ failures <= failures'
    BY <1>3, <1>t DEF Commit
  <2>2. sub' # None => sub # None
    BY <1>3 DEF Commit, Written
  <2>3. sub' # None => sub'.fails <= failures'
    BY <1>3, <1>t, <2>1, <2>2, Counting DEF Column
  <2>4. /\ \A k \in Msg : stage'[k] \in InFlight => stage[k] \in InFlight
        /\ copy' = copy /\ patch' = patch
    BY <1>3 DEF Commit, TypeOK, Ended
  <2> QED
    BY <2>1, <2>3, <2>4, <1>t
<1>4. ASSUME NEW m \in Msg, Fault(m) \/ WorkerDies(m) PROVE Bounds'
  BY <1>t, <1>4 DEF Fault, WorkerDies, TypeOK
<1>5. ASSUME NEW a \in Admin, NEW on \in BOOLEAN, PatchRead(a, on) PROVE Bounds'
  BY <1>t, <1>5 DEF PatchRead, message, TypeOK
<1>6. ASSUME NEW a \in Admin, PatchCommit(a) PROVE Bounds'
  <2>1. patch[a] \in [on : BOOLEAN, seen : Row] /\ patch[a].seen.fails <= failures
    BY <1>6, <1>t DEF PatchCommit
  <2>2. Patched(patch[a]).fails \in {0, patch[a].seen.fails}
    BY <2>1 DEF Patched
  <2>3. sub' # None => /\ sub # None
                       /\ sub'.fails = Column(sub.fails, patch[a].seen.fails,
                                              Patched(patch[a]).fails)
    BY <1>6 DEF PatchCommit, Written
  <2>4. sub' # None => sub'.fails <= failures
    BY <2>1, <2>2, <2>3, <1>t DEF Column
  <2> QED
    BY <1>6, <2>4, <1>t DEF PatchCommit, message, TypeOK
<1>7. ASSUME RotateSecret \/ KeyReplaced \/ DeleteSubscription PROVE Bounds'
  BY <1>t, <1>7 DEF RotateSecret, KeyReplaced, DeleteSubscription, message
<1>8. CASE UNCHANGED vars
  BY <1>t, <1>8 DEF vars, message
<1> QED
  BY <1>1, <1>2, <1>3, <1>4, <1>5, <1>6, <1>7, <1>8 DEF Next, Work

\* However deliveries race, retry and repeat, the counter is never ahead of the
\* failures that were committed
THEOREM FailsAreBounded == Spec => []FailsBounded
<1>1. Bounds => FailsBounded
  BY DEF Bounds
<1> QED
  BY <1>1, InitInv, StepInv, InitBounds, StepBounds, PTL DEF Spec

-----------------------------------------------------------------------------
(* Not switched off for less *)

SwitchedOff ==
    sub # None /\ sub' # None =>
        (sub.enabled /\ ~sub'.enabled =>
            \/ \E a \in Admin : patch[a] # None /\ patch'[a] = None /\ ~patch[a].on
            \/ \E m \in Msg : stage[m] = "posted" /\ stage'[m] = "done" /\ result[m] = "no_secret"
            \/ failures' >= MaxFailures)

LEMMA CauseStep == Inv /\ Bounds /\ [Next]_vars => SwitchedOff
<1> SUFFICES ASSUME Inv, Bounds, [Next]_vars, sub # None, sub' # None,
                    sub.enabled, ~sub'.enabled
             PROVE  \/ \E a \in Admin : patch[a] # None /\ patch'[a] = None /\ ~patch[a].on
                    \/ \E m \in Msg : /\ stage[m] = "posted" /\ stage'[m] = "done"
                                      /\ result[m] = "no_secret"
                    \/ failures' >= MaxFailures
  BY DEF SwitchedOff
<1> USE DEF Inv
<1>0. sub \in Row /\ sub.enabled = TRUE
  BY DEF TypeOK, Row
<1>1. ASSUME NEW m \in Msg, Commit(m)
      PROVE  \/ stage[m] = "posted" /\ stage'[m] = "done" /\ result[m] = "no_secret"
             \/ failures' >= MaxFailures
  <2>1. ~EnabledAfter(m)
    BY <1>1, <1>0, Counting DEF Column
  <2>2. stage[m] = "posted" /\ stage'[m] = "done" /\ failures' \in Nat
    BY <1>1 DEF Commit, TypeOK
  <2>3. CASE Failing(m)
    <3>1. ~(FailsAfter(m) < MaxFailures)
      BY <2>1, <2>3 DEF EnabledAfter
    <3>2. FailsAfter(m) \in Nat /\ FailsAfter(m) <= failures'
      BY <1>1, Counting
    <3> QED
      BY <2>2, <3>1, <3>2, ConstantsOK
  <2>4. CASE ~Failing(m)
    <3> QED
      BY <2>1, <2>2, <2>4 DEF EnabledAfter, Failing, Answered
  <2> QED
    BY <2>3, <2>4
<1>2. ASSUME NEW a \in Admin, PatchCommit(a)
      PROVE  patch[a] # None /\ patch'[a] = None /\ ~patch[a].on
  <2>1. patch[a] # None /\ patch'[a] = None
    BY <1>2 DEF PatchCommit, TypeOK
  <2>2. patch[a] \in [on : BOOLEAN, seen : Row]
    BY <2>1 DEF TypeOK
  <2>3. sub'.enabled = Column(sub.enabled, patch[a].seen.enabled, Patched(patch[a]).enabled)
    BY <1>2 DEF PatchCommit, Written
  <2>4. patch[a].on => Patched(patch[a]).enabled = TRUE
    BY <2>2 DEF Patched, Row
  <2> QED
    BY <1>0, <2>1, <2>2, <2>3, <2>4 DEF Column, Row
<1>3. ASSUME RotateSecret \/ KeyReplaced \/ DeleteSubscription PROVE FALSE
  BY <1>0, <1>3 DEF RotateSecret, KeyReplaced, DeleteSubscription, Row
<1>4. ASSUME UNCHANGED sub PROVE FALSE
  BY <1>4
<1> QED
  BY <1>1, <1>2, <1>3, <1>4
  DEF Next, Work, vars, Fanout, Redeliver, Skip, Read, Post, Fault, WorkerDies, PatchRead

\* A subscription is switched off by an admin, for a secret that cannot be read,
\* or after MaxFailures committed failures, whatever races
THEOREM SwitchedOffForCause == Spec => DisabledForCause
<1>1. Inv /\ Bounds /\ [Next]_vars => [SwitchedOff]_vars
  BY CauseStep
<1> QED
  BY <1>1, InitInv, StepInv, InitBounds, StepBounds, PTL DEF Spec, DisabledForCause, SwitchedOff
=============================================================================
