------------------------- MODULE PollWatermarkProofs -------------------------
(***************************************************************************)
(* Proofs about PollWatermark for every provider, page size, number of     *)
(* cycles and bound. That the watermark is backed by rows is inductive     *)
(* once the same is said of what a cycle holds before it commits: its      *)
(* watermark may pass what is in its transaction or still to be handled.   *)
(***************************************************************************)
EXTENDS PollWatermark, WellFoundedInduction, FiniteSetTheorems, TLAPS

\* What a watermark that a cycle is about to commit, and the events that come before
\* those it has listed, have passed
Held(c, j) == Accounted(j) \/ RunOf[j] \in open[c] \/ j \in todo[c]

CycleBacked(c) ==
    /\ newest[c] # base[c] => \A j \in Failed : Hides(newest[c], j) => Held(c, j)
    /\ \A j \in Failed, k \in todo[c] : j <= k => Held(c, j)
    /\ todo[c] \subseteq Failed
    /\ at[c] # "working" => todo[c] = {}
    /\ at[c] \in {"idle", "loaded"} => open[c] = {}
    /\ at[c] = "loaded" => newest[c] = base[c]
    /\ at[c] = "working" => base[c] # None
    /\ base[c] # None => newest[c] # None
    /\ at[c] = "loaded" => \A j \in Failed : Hides(base[c], j) => Accounted(j)

Backed == WatermarkBacked /\ \A c \in Cycle : CycleBacked(c)

LEMMA TypeInit == Init => TypeOK
<1> SUFFICES ASSUME Init PROVE TypeOK
  OBVIOUS
<1>1. state \in [Id -> {"absent", "running", "passed", "failed"}]
  BY DEF Init
<1>2. mark \in {None} \cup 0..Last /\ ingested \in SUBSET Run
  BY DEF Init
<1>3. /\ at \in [Cycle -> {"idle", "loaded", "working", "ready"}]
      /\ base \in [Cycle -> {None} \cup 0..Last] /\ todo \in [Cycle -> SUBSET Id]
      /\ newest \in [Cycle -> {None} \cup 0..Last] /\ open \in [Cycle -> SUBSET Run]
  BY DEF Init
<1>4. /\ rollbacks \in 0..MaxRollbacks /\ faults \in 0..MaxFaults
      /\ expiries \in 0..MaxExpiries /\ taken \in [Run -> Nat]
  BY ConstantsOK DEF Init
<1>5. QED
  BY <1>1, <1>2, <1>3, <1>4 DEF Init, TypeOK

LEMMA RunOfType == TypeOK => RunOf \in [1..Last -> Run]
BY ConstantsOK DEF TypeOK, RunOf

LEMMA Pages == TypeOK => Page \in SUBSET Failed /\ Failed \in SUBSET Id
BY DEF TypeOK, Page, Newest, Failed, Existing, Id

LEMMA SnapshotType == TypeOK => Snapshot \in SUBSET (0..Last)
BY ConstantsOK DEF TypeOK, Snapshot, Newest, Existing, Failed, Id

LEMMA TypeStep == TypeOK /\ [Next]_vars => TypeOK'
<1> SUFFICES ASSUME TypeOK, [Next]_vars PROVE TypeOK'
  OBVIOUS
<1> USE ConstantsOK
<1>0. provider' = provider /\ RunOf' = RunOf /\ RunOf \in [1..Last -> Run]
  BY RunOfType DEF Next, vars, RunOf
<1> USE <1>0
<1>1. ASSUME Create
      PROVE  TypeOK'
  BY <1>1 DEF Create, Existing, local, history, bounds, TypeOK
<1>2. ASSUME NEW j \in Id, Settle(j)
      PROVE  TypeOK'
  <2>1. Hidden(j) \in SUBSET Id
    BY Pages DEF Hidden
  <2>2. /\ skipped' \in SUBSET Id
        /\ state' \in [Id -> {"absent", "running", "passed", "failed"}]
    BY <1>2, <2>1 DEF Settle, TypeOK
  <2>3. QED
    BY <1>2, <2>2 DEF Settle, local, bounds, TypeOK
<1>3. ASSUME NEW j \in Id, OtherIntake(j)
      PROVE  TypeOK'
  <2>1. RunOf[j] \in Run
    BY <1>0 DEF Id
  <2>2. ingested' \in SUBSET Run
    BY <1>3, <2>1 DEF OtherIntake, TypeOK
  <2>3. taken' \in [Run -> Nat]
    <3>1. PICK r \in Run : r = RunOf[j]
      BY <2>1
    <3>2. taken' = [taken EXCEPT ![r] = @ + 1] /\ taken \in [Run -> Nat]
      BY <1>3, <3>1 DEF OtherIntake, TypeOK
    <3>3. QED
      BY <3>2
  <2>4. UNCHANGED <<state, mark, local, history, bounds>>
    BY <1>3 DEF OtherIntake
  <2>5. QED
    BY <2>2, <2>3, <2>4 DEF local, history, bounds, TypeOK
<1>4. ASSUME NEW c \in Cycle, Start(c)
      PROVE  TypeOK'
  BY <1>4 DEF Start, local, history, bounds, TypeOK
<1>5. ASSUME NEW c \in Cycle, Prime(c) \/ PrimeRefused(c)
      PROVE  TypeOK'
  <2>1. PICK n \in 0..Last : PrimeWith(c, n)
    BY <1>5, SnapshotType DEF Prime, PrimeRefused
  <2>2. /\ rollbacks' \in 0..MaxRollbacks /\ faults' \in 0..MaxFaults
        /\ expiries' \in 0..MaxExpiries
    BY <1>5 DEF Prime, PrimeRefused, bounds, TypeOK
  <2>3. skipped' \in SUBSET Id /\ old' \in SUBSET Id
    BY <2>1, Pages DEF PrimeWith, TypeOK
  <2>4. QED
    BY <2>1, <2>2, <2>3 DEF PrimeWith, TypeOK
<1>6. ASSUME NEW c \in Cycle, List(c)
      PROVE  TypeOK'
  <2>1. Beyond(base[c]) \in SUBSET Id
    BY Pages DEF Beyond
  <2>2. skipped' \in SUBSET Id
    BY <1>6, Pages DEF List, TypeOK
  <2>3. /\ todo' \in [Cycle -> SUBSET Id]
        /\ at' \in [Cycle -> {"idle", "loaded", "working", "ready"}]
    BY <1>6, <2>1 DEF List, TypeOK
  <2>4. UNCHANGED <<state, mark, ingested, base, newest, open, taken, primed, old,
                    expired, bounds>>
    BY <1>6 DEF List
  <2>5. QED
    BY <2>2, <2>3, <2>4 DEF bounds, TypeOK
<1>7. ASSUME NEW c \in Cycle, NEW j \in Id, Handle(c, j)
      PROVE  TypeOK'
  <2>1. j \in 0..Last /\ RunOf[j] \in Run
    BY <1>0 DEF Id
  <2>2. todo' \in [Cycle -> SUBSET Id]
    BY <1>7 DEF Handle, TypeOK
  <2>3. open' \in [Cycle -> SUBSET Run] /\ taken' \in [Run -> Nat]
    <3>1. PICK r \in Run : r = RunOf[j]
      BY <2>1
    <3>2. \/ /\ open' = [open EXCEPT ![c] = @ \cup {r}]
             /\ taken' = [taken EXCEPT ![r] = @ + 1]
          \/ UNCHANGED <<open, taken>>
      BY <1>7, <3>1 DEF Handle
    <3>3. CASE UNCHANGED <<open, taken>>
      BY <3>3 DEF TypeOK
    <3>4. CASE /\ open' = [open EXCEPT ![c] = @ \cup {r}]
               /\ taken' = [taken EXCEPT ![r] = @ + 1]
      <4>1. open \in [Cycle -> SUBSET Run] /\ taken \in [Run -> Nat]
        BY DEF TypeOK
      <4>2. open' \in [Cycle -> SUBSET Run]
        BY <3>4, <4>1
      <4>3. taken' \in [Run -> Nat]
        BY <3>4, <4>1
      <4>4. QED
        BY <4>2, <4>3
    <3>5. QED
      BY <3>2, <3>3, <3>4
  <2>4. newest' \in [Cycle -> {None} \cup 0..Last]
    <3>1. Moved(c, j) \in {None} \cup 0..Last
      BY <2>1 DEF Moved, Larger, FirstEvent, TypeOK
    <3>2. QED
      BY <1>7, <3>1 DEF Handle, TypeOK
  <2>5. QED
    BY <1>7, <2>2, <2>3, <2>4 DEF Handle, history, bounds, TypeOK
<1>8. ASSUME NEW c \in Cycle, Commit(c)
      PROVE  TypeOK'
  BY <1>8 DEF Commit, Rest, local, history, bounds, TypeOK
<1>9. ASSUME NEW c \in Cycle, ListFails(c)
      PROVE  TypeOK'
  BY <1>9 DEF ListFails, local, history, bounds, TypeOK
<1>10. ASSUME NEW c \in Cycle, Rollback(c)
      PROVE  TypeOK'
  BY <1>10 DEF Rollback, Rest, local, history, bounds, TypeOK
<1>11. ASSUME NEW c \in Cycle, NEW j \in Id, Refused(c, j)
      PROVE  TypeOK'
  <2>1. RunOf[j] \in Run
    BY <1>0 DEF Id
  <2>2. open' \in [Cycle -> SUBSET Run]
    BY <1>11, <2>1 DEF Refused, TypeOK
  <2>3. /\ todo' \in [Cycle -> SUBSET Id] /\ newest' \in [Cycle -> {None} \cup 0..Last]
        /\ at' \in [Cycle -> {"idle", "loaded", "working", "ready"}]
        /\ faults' \in 0..MaxFaults
    BY <1>11 DEF Refused, KeptMark, TypeOK
  <2>4. UNCHANGED <<state, mark, ingested, base, taken, history, rollbacks, expiries>>
    BY <1>11 DEF Refused
  <2>5. QED
    BY <2>2, <2>3, <2>4 DEF history, TypeOK
<1>12. ASSUME NEW R \in SUBSET ingested, Retention(R)
      PROVE  TypeOK'
  BY <1>12 DEF Retention, local, history, bounds, TypeOK
<1>13. ASSUME UNCHANGED vars PROVE TypeOK'
  BY <1>13 DEF vars, local, history, bounds, TypeOK
<1>14. QED
  BY <1>1, <1>2, <1>3, <1>4, <1>5, <1>6, <1>7, <1>8, <1>9, <1>10, <1>11, <1>12, <1>13 DEF Next, Step

-----------------------------------------------------------------------------
(* Refinement of FailureIntake *)

\* The claims that FailureIntake is given
Claimed == ingested \cup UNION {open[c] : c \in Cycle}

LEMMA ClaimOne ==
    ASSUME TypeOK, NEW c \in Cycle, NEW r, r \notin ingested, r \notin open[c], Free(c, r),
           open' = [open EXCEPT ![c] = @ \cup {r}], UNCHANGED ingested
    PROVE  r \notin Claimed /\ Claimed' = Claimed \cup {r}
<1>1. \A d \in Cycle : open'[d] = IF d = c THEN open[d] \cup {r} ELSE open[d]
  BY DEF TypeOK
<1>2. QED
  BY <1>1 DEF Claimed, Free

LEMMA IntakeStep == TypeOK /\ [Next]_vars => [Intake!Next]_(Intake!vars)
<1> SUFFICES ASSUME TypeOK, [Next]_vars PROVE [Intake!Next]_(Intake!vars)
  OBVIOUS
<1> USE ConstantsOK DEF Claimed
<1>0. provider' = provider /\ RunOf' = RunOf /\ RunOf \in [1..Last -> Run]
  BY RunOfType DEF Next, vars, RunOf
<1> USE <1>0
<1>1. ASSUME UNCHANGED <<ingested, open, taken, rollbacks, expiries>>
      PROVE  UNCHANGED Intake!vars
  BY <1>1 DEF Intake!vars
<1>2. ASSUME NEW j \in Id, OtherIntake(j) PROVE Intake!Next
  <2>1. PICK r \in Run : r = RunOf[j]
    BY <1>0 DEF Id
  <2>2. r \notin Claimed /\ Claimed' = Claimed \cup {r}
    BY <1>2, <2>1 DEF OtherIntake, local
  <2>3. Intake!Claim(r)
    BY <1>2, <2>1, <2>2 DEF OtherIntake, bounds, Intake!Claim
  <2>4. QED
    BY <2>3 DEF Intake!Next
<1>3. ASSUME NEW c \in Cycle, NEW j \in Id, Handle(c, j), NewRun(c, RunOf[j])
      PROVE  Intake!Next
  <2>1. PICK r \in Run : r = RunOf[j]
    BY <1>0 DEF Id
  <2>2. r \notin Claimed /\ Claimed' = Claimed \cup {r}
    BY <1>3, <2>1, ClaimOne DEF Handle, NewRun
  <2>3. Intake!Claim(r)
    BY <1>3, <2>1, <2>2 DEF Handle, bounds, Intake!Claim
  <2>4. QED
    BY <2>3 DEF Intake!Next
<1>4. ASSUME NEW c \in Cycle, NEW j \in Id, Refused(c, j) PROVE Intake!Next
  <2>1. PICK r \in Run : r = RunOf[j]
    BY <1>0 DEF Id
  <2>2. r \notin Claimed /\ Claimed' = Claimed \cup {r}
    BY <1>4, <2>1, ClaimOne DEF Refused, NewRun
  <2>3. Intake!Claim(r)
    BY <1>4, <2>1, <2>2 DEF Refused, Intake!Claim
  <2>4. QED
    BY <2>3 DEF Intake!Next
<1>5. ASSUME NEW c \in Cycle, Commit(c) PROVE UNCHANGED Intake!vars
  <2>1. \A d \in Cycle : open'[d] = IF d = c THEN {} ELSE open[d]
    BY <1>5 DEF Commit, Rest, TypeOK
  <2>2. Claimed' = Claimed
    BY <1>5, <2>1 DEF Commit
  <2>3. QED
    BY <1>5, <2>2 DEF Commit, bounds, Intake!vars
<1>6. ASSUME NEW c \in Cycle, Rollback(c) PROVE Intake!Next
  <2>1. \A d \in Cycle : open'[d] = IF d = c THEN {} ELSE open[d]
    BY <1>6 DEF Rollback, Rest, TypeOK
  <2>2. Claimed' = Claimed \ (Claimed \ Claimed')
    BY <1>6, <2>1 DEF Rollback
  <2>3. rollbacks' + expiries' = (rollbacks + expiries) + 1
    BY <1>6 DEF Rollback, TypeOK
  <2>4. PICK R : R = Claimed \ Claimed'
    OBVIOUS
  <2>5. R \in SUBSET Claimed /\ Intake!Forget(R)
    BY <1>6, <2>2, <2>3, <2>4 DEF Rollback, Intake!Forget
  <2>6. QED
    BY <2>5 DEF Intake!Next
<1>7. ASSUME NEW R \in SUBSET ingested, Retention(R) PROVE Intake!Next
  <2>1. Claimed' = Claimed \ (Claimed \ Claimed')
    BY <1>7 DEF Retention, local
  <2>2. rollbacks' + expiries' = (rollbacks + expiries) + 1
    BY <1>7 DEF Retention, TypeOK
  <2>3. PICK Q : Q = Claimed \ Claimed'
    OBVIOUS
  <2>4. Q \in SUBSET Claimed /\ Intake!Forget(Q)
    BY <1>7, <2>1, <2>2, <2>3 DEF Retention, Intake!Forget
  <2>5. QED
    BY <2>4 DEF Intake!Next
<1>8. ASSUME \/ Create
             \/ \E j \in Id : Settle(j)
             \/ \E c \in Cycle : Start(c) \/ Prime(c) \/ PrimeRefused(c)
             \/ \E c \in Cycle : List(c) \/ ListFails(c)
             \/ \E c \in Cycle, j \in Id : Handle(c, j) /\ ~NewRun(c, RunOf[j])
             \/ UNCHANGED vars
      PROVE  UNCHANGED Intake!vars
  BY <1>8, <1>1
  DEF Create, Settle, Start, Prime, PrimeRefused, PrimeWith, List, ListFails, Handle,
      vars, local, bounds
<1>9. QED
  BY <1>2, <1>3, <1>4, <1>5, <1>6, <1>7, <1>8 DEF Next, Step

\* Every variable of the polling model keeps its type, for any provider, page
\* size and number of cycles (polling.py: _poll_all)
THEOREM TypeCorrect == Spec => []TypeOK
BY TypeInit, TypeStep, PTL DEF Spec

\* Polling in overlapping cycles, next to webhooks, manual calls and retention,
\* implements the intake: no failure is taken up twice unless its row was lost
THEOREM PollingImplementsIntake == Spec => IntakeRefined
<1>1. Init => Intake!Init
  BY DEF Init, Intake!Init
<1>2. QED
  BY <1>1, TypeCorrect, IntakeStep, PTL DEF Spec, IntakeRefined, Intake!Spec

\* No run is taken up more often than once, and once more for each poll cycle that
\* rolled back and each time that retention ran (polling.py: _poll_all)
THEOREM RunsTakenOnce == Spec => [](\A r \in Run : taken[r] <= rollbacks + expiries + 1)
<1>1. Intake!TakenOnce => \A r \in Run : taken[r] <= rollbacks + expiries + 1
  BY DEF Intake!TakenOnce
<1>2. Spec => []Intake!TakenOnce
  BY PollingImplementsIntake, Intake!TakenAtMostOnce DEF IntakeRefined
<1>3. QED
  BY <1>1, <1>2, PTL

-----------------------------------------------------------------------------
(* The watermark *)

\* What is accounted for stays so
Kept == \A j \in Id : Accounted(j) => Accounted(j)'

\* A step that leaves a cycle alone and keeps what is accounted for
LEMMA OtherCycle ==
    ASSUME TypeOK, NEW d \in Cycle, CycleBacked(d), Kept, RunOf' = RunOf, Failed' = Failed,
           provider' = provider, at'[d] = at[d], base'[d] = base[d], todo'[d] = todo[d],
           newest'[d] = newest[d], open'[d] = open[d]
    PROVE  CycleBacked(d)'
BY Pages DEF CycleBacked, Held, Kept, Hides

LEMMA MarkKept ==
    ASSUME TypeOK, WatermarkBacked, Kept, Failed' = Failed, mark' = mark,
           provider' = provider
    PROVE  WatermarkBacked'
BY Pages DEF WatermarkBacked, Kept, Hides

LEMMA BackedStep == TypeOK /\ Backed /\ [Next]_vars => Backed'
<1> SUFFICES ASSUME TypeOK, Backed, [Next]_vars PROVE Backed'
  OBVIOUS
<1> USE ConstantsOK DEF Backed
<1>0. provider' = provider /\ RunOf' = RunOf /\ RunOf \in [1..Last -> Run]
  BY RunOfType DEF Next, vars, RunOf
<1> USE <1>0
<1>1. ASSUME Create PROVE Backed'
  <2>1. Failed' = Failed /\ UNCHANGED <<mark, at, base, todo, newest, open>> /\ Kept
    BY <1>1 DEF Create, Existing, Failed, TypeOK, local, history, Kept, Accounted
  <2>2. QED
    BY <2>1, OtherCycle, MarkKept
<1>2. ASSUME NEW j \in Id, Settle(j) PROVE Backed'
  <2>1. UNCHANGED <<mark, ingested, expired, at, base, todo, newest, open>> /\ Kept
    BY <1>2 DEF Settle, local, Kept, Accounted
  <2>2. Failed \subseteq Failed' /\ Failed' \subseteq Failed \cup {j}
    BY <1>2 DEF Settle, Failed, TypeOK
  <2>3. ASSUME j \in Failed', NEW f \in Hidden(j) PROVE Accounted(f)'
    BY <1>2, <2>3 DEF Settle, Failed, TypeOK, Accounted
  <2>4. ASSUME NEW m \in Marks, NEW f \in Failed', Hides(m, f)'
        PROVE  (f \in Failed /\ Hides(m, f)) \/ Accounted(f)'
    <3>1. m # None /\ f <= m /\ (provider = "bitbucket" => m \in Failed')
      BY <2>4 DEF Hides
    <3>2. CASE provider = "bitbucket" /\ m = j /\ j \in Failed'
      <4>1. f \in Hidden(j)
        BY <2>2, <2>4, <3>1, <3>2 DEF Hidden
      <4>2. QED
        BY <2>3, <3>2, <4>1
    <3>3. CASE provider = "bitbucket" => m \in Failed
      <4>1. Hides(m, f)
        BY <3>1, <3>3 DEF Hides
      <4>2. CASE f = j
        <5>1. f \in Hidden(j)
          BY <2>4, <4>1, <4>2 DEF Hidden, Passed
        <5>2. QED
          BY <2>3, <2>4, <4>2, <5>1
      <4>3. QED
        BY <2>2, <2>4, <4>1, <4>2
    <3>4. QED
      BY <2>2, <3>1, <3>2, <3>3
  <2>5. WatermarkBacked'
    <3> SUFFICES ASSUME NEW f \in Failed', Hides(mark, f)' PROVE Accounted(f)'
      BY <2>1 DEF WatermarkBacked
    <3>1. (f \in Failed /\ Hides(mark, f)) \/ Accounted(f)'
      BY <2>1, <2>4 DEF Marks, Hides
    <3>2. QED
      BY <2>1, <3>1, Pages DEF WatermarkBacked, Kept
  <2>6. ASSUME NEW d \in Cycle PROVE CycleBacked(d)'
    <3>1. CycleBacked(d) /\ j \in Nat /\ j \notin Failed
      BY <1>2 DEF Id, Settle, Failed
    <3>2. (newest[d] # base[d] => \A f \in Failed : Hides(newest[d], f) => Held(d, f))'
      <4> SUFFICES ASSUME newest[d] # base[d], NEW f \in Failed', Hides(newest[d], f)'
                   PROVE  Held(d, f)'
        BY <2>1
      <4>1. newest[d] \in Marks
        BY DEF Marks
      <4>2. Hides(newest[d], f)' <=> newest[d] # None /\ f <= newest[d]
                                     /\ (provider = "bitbucket" => newest[d] \in Failed')
        BY <2>1 DEF Hides
      <4>3. PICK m \in Marks : m = newest[d]
        BY <4>1
      <4>4. Hides(m, f)'
        BY <4>2, <4>3 DEF Hides
      <4>5. (f \in Failed /\ Hides(m, f)) \/ Accounted(f)'
        BY <2>4, <4>4
      <4>6. QED
        BY <2>1, <3>1, <4>3, <4>5, Pages DEF CycleBacked, Held, Kept
    <3>3. (\A f \in Failed, k \in todo[d] : f <= k => Held(d, f))'
      <4> SUFFICES ASSUME NEW f \in Failed', NEW k \in todo[d], f <= k PROVE Held(d, f)'
        BY <2>1
      <4>1. CASE f \in Failed
        BY <2>1, <3>1, <4>1, Pages DEF CycleBacked, Held, Kept
      <4>2. CASE f = j
        <5>1. k \in Failed /\ k \in Nat /\ f < k
          BY <3>1, <4>2, Pages DEF CycleBacked, Id
        <5>2. j \in Hidden(j)
          BY <4>2, <5>1 DEF Passed, Hidden
        <5>3. QED
          BY <2>3, <4>2, <5>2 DEF Held
      <4>3. QED
        BY <2>2, <4>1, <4>2
    <3>4. (at[d] = "loaded" => \A f \in Failed : Hides(base[d], f) => Accounted(f))'
      <4> SUFFICES ASSUME at[d] = "loaded", NEW f \in Failed', Hides(base[d], f)'
                   PROVE  Accounted(f)'
        BY <2>1
      <4>1. PICK m \in Marks : m = base[d]
        BY DEF Marks
      <4>2. Hides(m, f)'
        BY <2>1, <4>1 DEF Hides
      <4>3. (f \in Failed /\ Hides(m, f)) \/ Accounted(f)'
        BY <2>4, <4>2
      <4>4. QED
        BY <2>1, <3>1, <4>1, <4>3, Pages DEF CycleBacked, Kept
    <3>5. QED
      BY <2>1, <2>2, <3>1, <3>2, <3>3, <3>4 DEF CycleBacked
  <2>7. QED
    BY <2>5, <2>6
<1>3. ASSUME NEW j \in Id, OtherIntake(j) PROVE Backed'
  <2>1. Failed' = Failed /\ UNCHANGED <<mark, at, base, todo, newest, open>> /\ Kept
    BY <1>3 DEF OtherIntake, Failed, local, history, Kept, Accounted
  <2>2. QED
    BY <2>1, OtherCycle, MarkKept
<1>4. ASSUME NEW R \in SUBSET ingested, Retention(R) PROVE Backed'
  <2>1. Failed' = Failed /\ UNCHANGED <<mark, at, base, todo, newest, open>> /\ Kept
    BY <1>4 DEF Retention, Failed, local, Kept, Accounted
  <2>2. QED
    BY <2>1, OtherCycle, MarkKept
<1>5. ASSUME UNCHANGED vars PROVE Backed'
  <2>1. Failed' = Failed /\ UNCHANGED <<mark, at, base, todo, newest, open>> /\ Kept
    BY <1>5 DEF vars, Failed, local, history, Kept, Accounted
  <2>2. QED
    BY <2>1, OtherCycle, MarkKept
<1>6. ASSUME NEW c \in Cycle,
             Start(c) \/ Prime(c) \/ PrimeRefused(c) \/ List(c) \/ ListFails(c)
             \/ Rollback(c) \/ \E j \in Id : Handle(c, j) \/ Refused(c, j)
      PROVE  Backed'
  <2>1. Failed' = Failed /\ mark' = mark /\ Kept
    BY <1>6 DEF Start, Prime, PrimeRefused, PrimeWith, List, ListFails, Rollback, Handle,
                Refused, Failed, history, Kept, Accounted
  <2>2. \A d \in Cycle \ {c} :
            /\ at'[d] = at[d] /\ base'[d] = base[d] /\ todo'[d] = todo[d]
            /\ newest'[d] = newest[d] /\ open'[d] = open[d]
    BY <1>6 DEF Start, Prime, PrimeRefused, PrimeWith, List, ListFails, Rollback, Rest,
                Handle, Refused, TypeOK
  <2>3. CycleBacked(c)
    OBVIOUS
  <2>4. CycleBacked(c)'
    <3>1. CASE Start(c)
      <4>1. /\ at'[c] = "loaded" /\ base'[c] = mark /\ newest'[c] = mark
            /\ UNCHANGED <<todo, open>> /\ todo[c] = {} /\ open[c] = {}
        BY <2>3, <3>1 DEF Start, TypeOK, CycleBacked
      <4>2. \A f \in Failed' : Hides(mark, f) => Accounted(f)'
        BY <2>1, Pages DEF WatermarkBacked, Kept
      <4>3. QED
        BY <2>1, <4>1, <4>2 DEF CycleBacked, Held, Hides, TypeOK
    <3>2. CASE Prime(c) \/ PrimeRefused(c)
      <4> PICK n : PrimeWith(c, n)
        BY <3>2 DEF Prime, PrimeRefused
      <4>1. /\ at'[c] = "ready" /\ base'[c] = None /\ UNCHANGED <<todo, open>> /\ todo[c] = {}
            /\ newest'[c] = n
        BY <2>3 DEF PrimeWith, TypeOK, CycleBacked
      <4>2. \A f \in Failed' : Hides(n, f) => Accounted(f)'
        BY <2>1 DEF PrimeWith, Accounted
      <4>3. QED
        BY <2>1, <4>1, <4>2 DEF CycleBacked, Held, Hides
    <3>3. CASE List(c)
      <4>1. /\ at'[c] = IF Beyond(base[c]) = {} THEN "ready" ELSE "working"
            /\ UNCHANGED <<base, newest, open>> /\ base[c] # None
            /\ newest[c] = base[c] /\ open[c] = {} /\ todo'[c] = Beyond(base[c])
        BY <2>3, <3>3 DEF List, TypeOK, CycleBacked
      <4>2. \A f \in Failed' : Hides(base[c], f) => Accounted(f)'
        BY <2>1, <2>3, <3>3, Pages DEF List, CycleBacked, Kept
      <4>3. \A f \in Failed' : After(base[c], f) /\ f \notin Page => Accounted(f)'
        BY <2>1, <3>3 DEF List, Accounted
      <4>4. Beyond(base[c]) \subseteq Failed'
        BY <2>1, Pages DEF Beyond
      <4>5. \A f \in Page : After(base[c], f) => f \in Beyond(base[c])
        BY DEF Beyond
      <4>6. ASSUME NEW f \in Failed' PROVE Accounted(f)' \/ f \in Beyond(base[c])
        <5>1. base[c] \in Nat /\ f \in Nat
          BY <2>1, <4>1, Pages DEF TypeOK, Id
        <5>2. ~After(base[c], f) => Hides(base[c], f)
          BY <4>1, <5>1, Pages DEF After, Hides
        <5>3. QED
          BY <4>2, <4>3, <4>5, <5>2
      <4>7. QED
        BY <2>3, <4>1, <4>4, <4>6 DEF CycleBacked, Held, TypeOK
    <3>4. CASE ListFails(c)
      <4>1. at'[c] = "ready" /\ UNCHANGED <<base, todo, newest, open>> /\ todo[c] = {}
        BY <2>3, <3>4 DEF ListFails, TypeOK, CycleBacked
      <4>2. QED
        BY <2>1, <2>3, <4>1, Pages DEF CycleBacked, Held, Hides, Kept
    <3>5. CASE Rollback(c)
      <4>1. /\ at'[c] = "idle" /\ base'[c] = None /\ todo'[c] = {}
            /\ newest'[c] = None /\ open'[c] = {}
        BY <3>5 DEF Rollback, Rest, TypeOK
      <4>2. QED
        BY <4>1 DEF CycleBacked
    <3>6. ASSUME NEW j \in Id, Handle(c, j) PROVE CycleBacked(c)'
      <4>1. /\ at[c] = "working" /\ j \in todo[c] /\ base'[c] = base[c]
            /\ at'[c] = IF todo[c] = {j} THEN "ready" ELSE "working"
            /\ todo'[c] = todo[c] \ {j}
        BY <3>6 DEF Handle, Turn, TypeOK
      <4>2. /\ base[c] \in Nat /\ newest[c] \in Nat /\ j \in Nat
            /\ newest'[c] = j \/ newest'[c] = newest[c]
        BY <2>3, <3>6, <4>1 DEF Handle, Moved, Larger, FirstEvent, TypeOK, CycleBacked, Id
      <4>3. open[c] \subseteq open'[c] /\ RunOf[j] \in ingested' \cup open'[c]
        BY <3>6 DEF Handle, NewRun, TypeOK
      <4>4. ASSUME NEW f \in Failed, Held(c, f) PROVE Held(c, f)'
        BY <2>1, <4>1, <4>3, <4>4, Pages DEF Held, Kept, Accounted
      <4>5. newest'[c] # base'[c] =>
                \A f \in Failed' : Hides(newest[c], f)' => Held(c, f)'
        <5>1. CASE newest'[c] = j
          BY <2>1, <2>3, <4>1, <4>2, <4>4, <5>1 DEF CycleBacked, Hides
        <5>2. CASE newest'[c] = newest[c]
          BY <2>1, <2>3, <4>1, <4>2, <4>4, <5>2 DEF CycleBacked, Hides
        <5>3. QED
          BY <4>2, <5>1, <5>2
      <4>6. \A f \in Failed', k \in todo'[c] : f <= k => Held(c, f)'
        BY <2>1, <2>3, <4>1, <4>4 DEF CycleBacked
      <4>7. newest'[c] # None /\ base'[c] # None
        BY <4>1, <4>2
      <4>8. QED
        BY <2>1, <2>3, <4>1, <4>5, <4>6, <4>7 DEF CycleBacked
    <3>7. ASSUME NEW j \in Id, Refused(c, j) PROVE CycleBacked(c)'
      <4>1. /\ at'[c] = "ready" /\ todo'[c] = {} /\ UNCHANGED base
            /\ newest'[c] = base[c] /\ base[c] \in Nat
        BY <2>3, <3>7 DEF Refused, Turn, KeptMark, TypeOK, CycleBacked
      <4>2. QED
        BY <4>1 DEF CycleBacked
    <3>8. QED
      BY <1>6, <3>1, <3>2, <3>3, <3>4, <3>5, <3>6, <3>7
  <2>5. QED
    BY <2>1, <2>2, <2>4, OtherCycle, MarkKept
<1>7. ASSUME NEW c \in Cycle, Commit(c) PROVE Backed'
  <2>1. Failed' = Failed /\ Kept /\ open[c] \subseteq ingested' /\ todo[c] = {}
    BY <1>7 DEF Commit, Failed, history, Kept, Accounted, CycleBacked
  <2>2. /\ \A d \in Cycle \ {c} :
            /\ at'[d] = at[d] /\ base'[d] = base[d] /\ todo'[d] = todo[d]
            /\ newest'[d] = newest[d] /\ open'[d] = open[d]
        /\ at'[c] = "idle" /\ base'[c] = None /\ todo'[c] = {}
        /\ newest'[c] = None /\ open'[c] = {}
    BY <1>7 DEF Commit, Rest, TypeOK
  <2>3. CycleBacked(c)'
    BY <2>2 DEF CycleBacked
  <2>4. WatermarkBacked'
    <3>1. CASE mark' = mark
      BY <2>1, <3>1, MarkKept
    <3>2. CASE mark' = newest[c] /\ newest[c] # base[c]
      <4>1. \A f \in Failed : Hides(newest[c], f) => Accounted(f)'
        BY <2>1, <3>2, Pages DEF CycleBacked, Held, Kept, Accounted
      <4>2. QED
        BY <2>1, <3>2, <4>1 DEF WatermarkBacked, Hides
    <3>3. QED
      BY <1>7, <3>1, <3>2 DEF Commit
  <2>5. QED
    BY <2>1, <2>2, <2>3, <2>4, OtherCycle
<1>8. QED
  BY <1>1, <1>2, <1>3, <1>4, <1>5, <1>6, <1>7 DEF Next, Step

\* Whatever cycles overlap, fail, roll back or put it back, the watermark a connection
\* has committed hides no failure that is neither stored nor out of reach
THEOREM WatermarkIsBacked == Spec => []WatermarkBacked
<1>1. Init => Backed
  BY DEF Init, Backed, WatermarkBacked, CycleBacked, Held, Hides, Failed, TypeOK
<1>2. Backed => WatermarkBacked
  BY DEF Backed
<1>3. QED
  BY <1>1, <1>2, TypeCorrect, BackedStep, PTL DEF Spec
-----------------------------------------------------------------------------
(* History: what had failed before the priming *)

ById == provider \in {"gitlab", "github"}

\* A watermark, once there is one, has passed it
Past(v) == v # None => \A j \in old : j <= v

\* Before the priming nobody has a watermark
History ==
    /\ old \subseteq Failed
    /\ ~primed => /\ old = {} /\ mark = None
                  /\ \A c \in Cycle : base[c] = None /\ newest[c] = None
    /\ ById => /\ Past(mark)
               /\ \A c \in Cycle : Past(base[c]) /\ Past(newest[c]) /\ todo[c] \cap old = {}

\* The newest run of any status is no older than a failed one
LEMMA SnapshotTops ==
    ASSUME TypeOK, ById, NEW n \in Snapshot
    PROVE  \A j \in Failed : j <= n
<1> DEFINE S == Newest(Existing, 1)
<1>1. Existing \in SUBSET Id /\ Failed \subseteq Existing /\ Id \subseteq Nat /\ Last \in Nat
  BY ConstantsOK DEF TypeOK, Existing, Failed, Id
<1>2. \A j \in Existing : j \in S <=> Cardinality({k \in Existing : k > j}) < 1
  BY DEF Newest
<1>3. ASSUME NEW m \in S PROVE \A j \in Existing : j <= m
  <2> DEFINE T == {k \in Existing : k > m}
  <2>1. IsFiniteSet(T)
    <3>1. IsFiniteSet(1..Last)
      BY <1>1, FS_Interval
    <3>2. T \in SUBSET (1..Last)
      BY <1>1 DEF Id
    <3> QED
      BY <3>1, <3>2, FS_Subset
  <2>2. Cardinality(T) \in Nat /\ Cardinality(T) < 1
    BY <1>2, <2>1, FS_CardinalityType DEF Newest
  <2>3. T = {}
    <3>1. Cardinality(T) = 0
      BY <2>2
    <3> QED
      BY <2>1, <3>1, FS_EmptySet
  <2> QED
    BY <1>1, <2>3 DEF Newest
<1>4. CASE S # {}
  <2>1. n \in S
    BY <1>4 DEF Snapshot, ById
  <2> QED
    BY <1>1, <1>3, <2>1
<1>5. CASE S = {}
  <2> SUFFICES ASSUME Existing # {} PROVE FALSE
    BY <1>1
  <2> DEFINE U == {Last - j : j \in Existing}
  <2>1. \A j \in Existing : j \in Nat /\ j <= Last /\ Last - j \in Nat
    BY <1>1 DEF Id
  <2>2. U \in SUBSET Nat /\ U # {}
    BY <2>1
  <2>3. PICK x \in U : \A y \in U : ~(<<y, x>> \in OpToRel(<, Nat))
    <3> HIDE DEF U
    <3> QED
      BY <2>2, NatLessThanWellFounded, WFMin
  <2>4. PICK m \in Existing : x = Last - m
    OBVIOUS
  <2>5. ASSUME NEW k \in Existing, k > m PROVE FALSE
    <3>1. Last - k \in U /\ Last - k \in Nat /\ Last - m \in Nat
      BY <2>1
    <3>2. ~(Last - k < Last - m)
      BY <2>3, <2>4, <3>1 DEF OpToRel
    <3> QED
      BY <1>1, <2>1, <2>5, <3>2
  <2>6. {k \in Existing : k > m} = {}
    BY <2>5
  <2>7. Cardinality({k \in Existing : k > m}) < 1
    BY <2>6, FS_EmptySet
  <2> QED
    BY <1>2, <1>5, <2>7
<1> QED
  BY <1>4, <1>5

\* A step of cycle c keeps it when what c holds has passed it
LEMMA HistoryKept ==
    ASSUME History, NEW c \in Cycle, provider' = provider, Failed' = Failed,
           UNCHANGED <<old, primed, mark>>,
           \A d \in Cycle \ {c} : UNCHANGED <<base[d], todo[d], newest[d]>>,
           ~primed => base'[c] = None /\ newest'[c] = None,
           ById => Past(base'[c]) /\ Past(newest'[c]) /\ todo'[c] \cap old = {}
    PROVE  History'
BY DEF History, Past, ById

LEMMA HistoryStep == TypeOK /\ Backed /\ History /\ [Next]_vars => History'
<1> SUFFICES ASSUME TypeOK, Backed, History, [Next]_vars PROVE History'
  OBVIOUS
<1>0. /\ provider' = provider /\ None \notin Nat /\ Last \in Nat
      /\ at \in [Cycle -> {"idle", "loaded", "working", "ready"}]
      /\ base \in [Cycle -> {None} \cup 0..Last] /\ newest \in [Cycle -> {None} \cup 0..Last]
      /\ todo \in [Cycle -> SUBSET Id] /\ state \in [Id -> {"absent", "running", "passed", "failed"}]
      /\ Failed \subseteq Nat
  BY ConstantsOK DEF Next, vars, TypeOK, Failed, Id
<1>1. ASSUME UNCHANGED <<old, primed, mark, base, todo, newest>>, Failed \subseteq Failed'
      PROVE  History'
  BY <1>0, <1>1 DEF History, Past, ById
<1>2. ASSUME Create PROVE History'
  <2>1. Failed' = Failed
    BY <1>0, <1>2 DEF Create, Existing, Failed
  <2> QED
    BY <1>1, <1>2, <2>1 DEF Create, local, history
<1>3. ASSUME NEW j \in Id, Settle(j) PROVE History'
  <2>1. Failed \subseteq Failed'
    BY <1>0, <1>3 DEF Settle, Failed
  <2> QED
    BY <1>1, <1>3, <2>1 DEF Settle, local
<1>4. ASSUME NEW j \in Id, OtherIntake(j) PROVE History'
  BY <1>1, <1>4 DEF OtherIntake, local, history, Failed
<1>5. ASSUME NEW R \in SUBSET ingested \ {{}}, Retention(R) PROVE History'
  BY <1>1, <1>5 DEF Retention, local, Failed
<1>6. ASSUME NEW c \in Cycle, ListFails(c) PROVE History'
  BY <1>1, <1>6 DEF ListFails, history, Failed
<1>7. ASSUME NEW c \in Cycle, Start(c) PROVE History'
  <2>1. /\ Failed' = Failed /\ UNCHANGED <<old, primed, mark, todo>>
        /\ base'[c] = mark /\ newest'[c] = mark
        /\ \A d \in Cycle \ {c} : UNCHANGED <<base[d], newest[d]>>
    BY <1>0, <1>7 DEF Start, history, Failed
  <2> QED
    BY <1>0, <2>1, HistoryKept DEF History
<1>8. ASSUME NEW c \in Cycle, Prime(c) \/ PrimeRefused(c) PROVE History'
  <2> PICK n : PrimeWith(c, n) /\ (ById => n \in Snapshot)
    BY <1>8 DEF Prime, PrimeRefused, ById
  <2>1. /\ Failed' = Failed /\ UNCHANGED <<mark, base, todo>> /\ primed' = TRUE
        /\ old' = IF primed THEN old ELSE Failed
        /\ at[c] = "loaded" /\ newest'[c] = n
        /\ \A d \in Cycle \ {c} : newest'[d] = newest[d]
    BY <1>0 DEF PrimeWith, Failed
  <2>2. ById => \A j \in old' : j <= n
    BY <2>1, SnapshotTops DEF History
  <2>3. CASE primed
    <3>1. ById => Past(newest'[c])
      BY <2>1, <2>2, <2>3 DEF Past
    <3> QED
      BY <1>0, <2>1, <2>3, <3>1 DEF History, Past, ById
  <2>4. CASE ~primed
    <3>1. mark = None /\ \A d \in Cycle : base[d] = None /\ newest[d] = None
      BY <2>4 DEF History
    <3>2. \A d \in Cycle : todo[d] = {}
      BY <1>0, <3>1 DEF Backed, CycleBacked
    <3>3. old' = Failed
      BY <2>1, <2>4
    <3> QED
      BY <1>0, <2>1, <2>2, <3>1, <3>2, <3>3 DEF History, Past, ById
  <2> QED
    BY <2>3, <2>4
<1>9. ASSUME NEW c \in Cycle, List(c) PROVE History'
  <2>1. /\ Failed' = Failed /\ UNCHANGED <<old, primed, mark, base, newest>>
        /\ base[c] # None /\ todo'[c] = Beyond(base[c])
        /\ \A d \in Cycle \ {c} : todo'[d] = todo[d]
    BY <1>0, <1>9 DEF List, Failed
  <2>2. primed
    BY <2>1 DEF History
  <2>3. ById => todo'[c] \cap old = {}
    <3> SUFFICES ASSUME ById, NEW j \in old, j \in Beyond(base[c]) PROVE FALSE
      BY <2>1
    <3>1. j > base[c]
      BY DEF Beyond, After, ById
    <3>2. j <= base[c] /\ j \in Nat
      BY <1>0, <2>1 DEF History, Past
    <3>3. base[c] \in Nat
      BY <1>0, <2>1
    <3> QED
      BY <3>1, <3>2, <3>3
  <2> QED
    BY <1>0, <2>1, <2>2, <2>3, HistoryKept DEF History
<1>10. ASSUME NEW c \in Cycle, NEW j \in Id, Handle(c, j) PROVE History'
  <2>1. /\ Failed' = Failed /\ UNCHANGED <<old, primed, mark, base>>
        /\ at[c] = "working" /\ todo'[c] \subseteq todo[c]
        /\ newest'[c] = Moved(c, j)
        /\ \A d \in Cycle \ {c} : todo'[d] = todo[d] /\ newest'[d] = newest[d]
    BY <1>0, <1>10 DEF Handle, Turn, history, Failed
  <2>2. base[c] # None /\ newest[c] # None
    BY <2>1 DEF Backed, CycleBacked
  <2>3. primed
    BY <2>2 DEF History
  <2>4. ById => Past(newest'[c])
    <3> SUFFICES ASSUME ById, NEW k \in old PROVE k <= newest'[c]
      BY DEF Past
    <3>1. k <= newest[c] /\ k \in Nat
      BY <1>0, <2>2 DEF History, Past
    <3>2. newest[c] \in Nat /\ j \in Nat
      BY <1>0, <2>2 DEF Id
    <3> QED
      BY <2>1, <3>1, <3>2 DEF Moved, Larger, ById
  <2>5. ById => todo'[c] \cap old = {} /\ Past(base'[c])
    BY <2>1 DEF History
  <2> QED
    BY <1>0, <2>1, <2>3, <2>4, <2>5, HistoryKept
<1>11. ASSUME NEW c \in Cycle, NEW j \in Id, Refused(c, j) PROVE History'
  <2>1. /\ Failed' = Failed /\ UNCHANGED <<old, primed, mark, base>>
        /\ todo'[c] = {} /\ newest'[c] = base[c]
        /\ \A d \in Cycle \ {c} : todo'[d] = todo[d] /\ newest'[d] = newest[d]
    BY <1>0, <1>11 DEF Refused, KeptMark, history, Failed
  <2> QED
    BY <1>0, <2>1, HistoryKept DEF History
<1>12. ASSUME NEW c \in Cycle, Commit(c) \/ Rollback(c) PROVE History'
  <2>1. /\ Failed' = Failed /\ UNCHANGED <<old, primed>>
        /\ mark' = mark \/ mark' = newest[c]
        /\ base'[c] = None /\ newest'[c] = None /\ todo'[c] = {}
        /\ \A d \in Cycle \ {c} : UNCHANGED <<base[d], todo[d], newest[d]>>
    BY <1>0, <1>12 DEF Commit, Rollback, Rest, history, Failed
  <2> QED
    BY <1>0, <2>1 DEF History, Past, ById
<1>13. ASSUME UNCHANGED vars PROVE History'
  BY <1>1, <1>13 DEF vars, local, history, Failed
<1> QED
  BY <1>2, <1>3, <1>4, <1>5, <1>6, <1>7, <1>8, <1>9, <1>10, <1>11, <1>12, <1>13 DEF Next, Step

\* A failure from before the priming is never listed where the watermark is the
\* id of a run of any status, whatever cycles overlap, fail or roll back
\* (_prime_connection and its like in polling.py)
THEOREM HistoryStaysOut == Spec => []NoReplayById
<1>1. Init => Backed /\ History
  BY DEF Init, Backed, WatermarkBacked, CycleBacked, Held, Hides, Failed, TypeOK, History,
         Past
<1>2. History => NoReplayById
  BY DEF History, NoReplayById, NoReplay, ById
<1>3. QED
  BY <1>1, <1>2, TypeInit, TypeStep, BackedStep, HistoryStep, PTL DEF Spec
=============================================================================
