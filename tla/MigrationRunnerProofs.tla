----------------------- MODULE MigrationRunnerProofs -----------------------
(* Theorems about MigrationRunner, for any number of deploys, any images   *)
(* and any mix of crashes, failures and bootstraps.                        *)
EXTENDS MigrationRunner, FiniteSetTheorems, TLAPS

(***************************************************************************)
(* The files of its image that a runner no longer regards as pending are   *)
(* on record.  This is what StartedApiIsMigrated and RunsInOrder rest on;  *)
(* it survives the steps of other runners because rows are never removed.  *)
(***************************************************************************)
Settled(r) ==
    /\ pc[r] \in {"apply", "record"} => Image[r] \ pending[r] \subseteq tracked
    /\ pc[r] = "duration" => Image[r] \ (pending[r] \ {current[r]}) \subseteq tracked
    /\ pc[r] \in {"unlock", "done"} /\ exit[r] = "0" => Image[r] \subseteq tracked

PendingSettled == \A r \in Runners : Settled(r)

(* Only files of its own image are pending, and the file whose row a       *)
(* runner is about to write is one of the notransaction files.             *)
PendingOfImage ==
    \A r \in Runners : /\ pending[r] \subseteq Image[r]
                       /\ pc[r] = "record" => current[r] \in Migrations \ Transactional

(* The advisory lock excludes: whoever is past pg_advisory_lock holds it.  *)
LockExcludes == \A r \in Runners : pc[r] \in Locked => lock = r

(* TypeOK is not inductive by itself: Record adds current[r] to the table. *)
IInv == TypeOK /\ PendingOfImage /\ PendingSettled /\ TransactionalOnce /\ LockExcludes

-----------------------------------------------------------------------------
(* The lock, by itself: it is taken only when free and given up only by    *)
(* its holder, whose next step is outside.                                 *)
LEMMA LockStep ==
    ASSUME TypeOK, LockExcludes, [Next]_vars
    PROVE  LockExcludes'
<1> USE ConstantsAssumption DEF TypeOK, LockExcludes, Locked, Goto
<1>1. ASSUME NEW r \in Runners, Start(r) PROVE LockExcludes'
  BY <1>1 DEF Start
<1>2. ASSUME NEW r \in Runners, Acquire(r) PROVE LockExcludes'
  BY <1>2 DEF Acquire
<1>3. ASSUME NEW r \in Runners,
             \/ Bootstrap(r) \/ ReadApplied(r) \/ ApplyInTransaction(r)
             \/ RunBody(r) \/ Record(r) \/ SetDuration(r) \/ StepFails(r)
      PROVE LockExcludes'
  <2>1. lock' = lock /\ pc[r] \in Locked /\ \A q \in Runners \ {r} : pc'[q] = pc[q]
    BY <1>3 DEF Bootstrap, ReadApplied, ApplyInTransaction, RunBody, Record, SetDuration,
                StepFails
  <2> QED BY <2>1
<1>4. ASSUME NEW r \in Runners, Unlock(r) PROVE LockExcludes'
  BY <1>4 DEF Unlock
<1>5. ASSUME NEW r \in Runners, Crash(r) PROVE LockExcludes'
  BY <1>5 DEF Crash
<1>6. CASE UNCHANGED vars
  BY <1>6 DEF vars
<1> QED
  BY <1>1, <1>2, <1>3, <1>4, <1>5, <1>6 DEF Next, Step, Quiet

(* Every variable keeps its kind.                                          *)
LEMMA TypeStep ==
    ASSUME TypeOK, PendingOfImage, [Next]_vars
    PROVE  TypeOK'
<1> USE ConstantsAssumption DEF TypeOK, Locked, Goto
<1>1. ASSUME NEW r \in Runners, Start(r) PROVE TypeOK'
  BY <1>1 DEF Start
<1>2. ASSUME NEW r \in Runners, Acquire(r) PROVE TypeOK'
  BY <1>2 DEF Acquire
<1>3. ASSUME NEW r \in Runners, Bootstrap(r) PROVE TypeOK'
  BY <1>3 DEF Bootstrap
<1>4. ASSUME NEW r \in Runners, ReadApplied(r) PROVE TypeOK'
  BY <1>4 DEF ReadApplied
<1>5. ASSUME NEW r \in Runners, ApplyInTransaction(r) PROVE TypeOK'
  BY <1>5 DEF ApplyInTransaction, Lowest
<1>6. ASSUME NEW r \in Runners, RunBody(r) PROVE TypeOK'
  BY <1>6 DEF RunBody, Lowest
<1>7. ASSUME NEW r \in Runners, Record(r) PROVE TypeOK'
  BY <1>7 DEF Record, PendingOfImage
<1>8. ASSUME NEW r \in Runners, SetDuration(r) PROVE TypeOK'
  BY <1>8 DEF SetDuration
<1>9. ASSUME NEW r \in Runners, StepFails(r) PROVE TypeOK'
  BY <1>9 DEF StepFails
<1>10. ASSUME NEW r \in Runners, Unlock(r) PROVE TypeOK'
  BY <1>10 DEF Unlock
<1>11. ASSUME NEW r \in Runners, Crash(r) PROVE TypeOK'
  BY <1>11 DEF Crash
<1>12. CASE UNCHANGED vars
  BY <1>12 DEF vars
<1> QED
  BY <1>1, <1>2, <1>3, <1>4, <1>5, <1>6, <1>7, <1>8, <1>9, <1>10, <1>11, <1>12
     DEF Next, Step, Quiet

(* Rows of schema_migrations are never removed, and a runner's program     *)
(* counter and files are changed by the runner alone.                      *)
LEMMA OthersUntouched ==
    ASSUME TypeOK, NEW r \in Runners, Start(r) \/ Step(r) \/ Crash(r)
    PROVE  /\ tracked \subseteq tracked'
           /\ \A q \in Runners \ {r} :
                 /\ pc'[q] = pc[q] /\ pending'[q] = pending[q]
                 /\ current'[q] = current[q] /\ exit'[q] = exit[q]
<1> USE DEF TypeOK, Goto
<1>1. CASE Start(r) \/ Acquire(r) \/ Bootstrap(r) \/ ReadApplied(r)
  BY <1>1 DEF Start, Acquire, Bootstrap, ReadApplied
<1>2. CASE ApplyInTransaction(r) \/ RunBody(r) \/ Record(r) \/ SetDuration(r)
  BY <1>2 DEF ApplyInTransaction, RunBody, Record, SetDuration
<1>3. CASE StepFails(r) \/ Unlock(r) \/ Crash(r)
  BY <1>3 DEF StepFails, Unlock, Crash
<1> QED BY <1>1, <1>2, <1>3 DEF Step

(* What the runner that moves regards as pending.                          *)
LEMMA PendingStep ==
    ASSUME TypeOK, PendingOfImage, PendingSettled, [Next]_vars
    PROVE  PendingOfImage' /\ PendingSettled'
<1> USE ConstantsAssumption DEF TypeOK, Locked, Goto, PendingOfImage, Settled
<1> DEFINE Own(r) == /\ pending[r] \subseteq Image[r]
                     /\ pc[r] = "record" => current[r] \in Migrations \ Transactional
                     /\ Settled(r)
<1>1. \A r \in Runners : Own(r)
  BY DEF PendingSettled
<1>2. SUFFICES \A r \in Runners : Own(r)'
  BY DEF PendingSettled
<1>3. ASSUME NEW r \in Runners, Start(r) \/ Step(r) \/ Crash(r) PROVE Own(r)'
  <2>0. Own(r)
    BY <1>1
  <2>1. CASE Start(r)
    BY <2>0, <2>1 DEF Start
  <2>2. CASE Acquire(r)
    BY <2>0, <2>2 DEF Acquire
  <2>3. CASE Bootstrap(r)
    BY <2>0, <2>3 DEF Bootstrap
  <2>4. CASE ReadApplied(r)
    BY <2>0, <2>4 DEF ReadApplied
  <2>5. CASE ApplyInTransaction(r)
    BY <2>0, <2>5 DEF ApplyInTransaction, Lowest
  <2>6. CASE RunBody(r)
    BY <2>0, <2>6 DEF RunBody, Lowest
  <2>7. CASE Record(r)
    BY <2>0, <2>7 DEF Record
  <2>8. CASE SetDuration(r)
    BY <2>0, <2>8 DEF SetDuration
  <2>9. CASE StepFails(r)
    BY <2>0, <2>9 DEF StepFails
  <2>10. CASE Unlock(r)
    BY <2>0, <2>10 DEF Unlock
  <2>11. CASE Crash(r)
    BY <2>0, <2>11 DEF Crash
  <2> QED
    BY <1>3, <2>1, <2>2, <2>3, <2>4, <2>5, <2>6, <2>7, <2>8, <2>9, <2>10, <2>11 DEF Step
<1>4. ASSUME NEW r \in Runners, Start(r) \/ Step(r) \/ Crash(r), NEW q \in Runners \ {r}
      PROVE  Own(q)'
  BY <1>1, <1>4, OthersUntouched
<1>5. CASE UNCHANGED vars
  BY <1>1, <1>5 DEF vars
<1> QED
  BY <1>3, <1>4, <1>5 DEF Next, Quiet

(* A body of a transactional file takes effect with its row.               *)
LEMMA OnceStep ==
    ASSUME TypeOK, PendingOfImage, TransactionalOnce, [Next]_vars
    PROVE  TransactionalOnce'
<1> USE ConstantsAssumption DEF TypeOK, TransactionalOnce, Goto
<1>1. CASE ran' = ran /\ tracked \subseteq tracked'
  BY <1>1
<1>2. ASSUME NEW r \in Runners, ApplyInTransaction(r) PROVE TransactionalOnce'
  <2>1. PICK m \in Lowest(r) \cap Transactional :
           /\ m \notin tracked
           /\ ran' = [ran EXCEPT ![m] = @ + 1]
           /\ tracked' = tracked \cup {m}
    BY <1>2 DEF ApplyInTransaction
  <2>2. m \in Migrations
    BY <2>1
  <2>3. ASSUME NEW n \in Transactional \ Deployed
        PROVE  ran'[n] <= 1 /\ (ran'[n] = 1 => n \in tracked')
    <3>1. ran[n] \in Nat /\ ran[n] <= 1 /\ (ran[n] = 1 => n \in tracked)
      BY <2>3
    <3>2. CASE n = m
      BY <2>1, <2>2, <3>1, <3>2
    <3>3. CASE n # m
      BY <2>1, <2>2, <3>1, <3>3
    <3> QED BY <3>2, <3>3
  <2> QED BY <2>3
<1>3. ASSUME NEW r \in Runners, RunBody(r) PROVE TransactionalOnce'
  BY <1>3 DEF RunBody, Lowest
<1>4. ASSUME NEW r \in Runners, Start(r) \/ Crash(r) \/ Step(r),
             ~ApplyInTransaction(r), ~RunBody(r)
      PROVE  ran' = ran /\ tracked \subseteq tracked'
  BY <1>4 DEF Step, Start, Crash, Acquire, Bootstrap, ReadApplied, Record, SetDuration,
              StepFails, Unlock
<1>5. CASE UNCHANGED vars
  BY <1>5 DEF vars
<1> QED
  BY <1>1, <1>2, <1>3, <1>4, <1>5 DEF Next, Quiet

-----------------------------------------------------------------------------
LEMMA Invariance == Spec => []IInv
<1>1. Init => IInv
  BY ConstantsAssumption
     DEF Init, IInv, TypeOK, PendingOfImage, PendingSettled, Settled, TransactionalOnce,
         LockExcludes, Locked
<1>2. IInv /\ [Next]_vars => IInv'
  BY TypeStep, PendingStep, OnceStep, LockStep DEF IInv
<1> QED BY <1>1, <1>2, PTL DEF Spec

(* Type correctness: no step of any runner leaves the declared values.     *)
THEOREM TypeCorrect == Spec => []TypeOK
<1>1. IInv => TypeOK
  BY DEF IInv
<1> QED BY <1>1, Invariance, PTL

(* Mutual exclusion: of the runners of overlapping deploys at most one is  *)
(* between pg_advisory_lock and pg_advisory_unlock, crashes included.      *)
THEOREM OneRunnerAtATime ==
    Spec => [](\A r, q \in Runners : pc[r] \in Locked /\ pc[q] \in Locked => r = q)
<1>1. IInv => \A r, q \in Runners : pc[r] \in Locked /\ pc[q] \in Locked => r = q
  BY DEF IInv, LockExcludes
<1> QED BY <1>1, Invariance, PTL

(* A transactional migration takes effect once.                            *)
THEOREM MigratedOnce == Spec => []TransactionalOnce
<1>1. IInv => TransactionalOnce
  BY DEF IInv
<1> QED BY <1>1, Invariance, PTL

(* An API that was started has every migration of its image on record.     *)
THEOREM ApiStartsMigrated == Spec => []StartedApiIsMigrated
<1>1. IInv => StartedApiIsMigrated
  BY DEF IInv, PendingSettled, Settled, StartedApiIsMigrated
<1> QED BY <1>1, Invariance, PTL

(* A file that takes effect has the lower-numbered files of its image on   *)
(* record before it.                                                       *)
LEMMA OrderStep ==
    ASSUME IInv, [Next]_vars
    PROVE  RunsInOrder
<1> USE ConstantsAssumption DEF IInv, TypeOK, Goto
<1>1. ASSUME NEW r \in Runners, NEW m \in Lowest(r), pc[r] = "apply",
             ran' = [ran EXCEPT ![m] = @ + 1]
      PROVE  RunsInOrder
  <2>1. pending[r] \subseteq Image[r] /\ Image[r] \ pending[r] \subseteq tracked
    BY <1>1 DEF PendingOfImage, PendingSettled, Settled
  <2>2. m \in Image[r] /\ \A n \in pending[r] : Number[m] <= Number[n]
    BY <2>1 DEF Lowest
  <2>3. ASSUME NEW n \in Image[r], Number[n] < Number[m] PROVE n \in tracked
    <3>1. n \notin pending[r]
      <4> SUFFICES ASSUME n \in pending[r] PROVE FALSE
        OBVIOUS
      <4>1. Number[m] <= Number[n] /\ Number[m] \in Nat /\ Number[n] \in Nat
        BY <2>2
      <4> QED BY <2>3, <4>1
    <3> QED BY <2>1, <3>1
  <2>4. \A k \in Migrations : ran'[k] # ran[k] => k = m
    BY <1>1
  <2> QED BY <1>1, <2>2, <2>3, <2>4 DEF RunsInOrder
<1>2. CASE ran' = ran
  BY <1>2 DEF RunsInOrder
<1>3. ASSUME NEW r \in Runners, ApplyInTransaction(r) \/ RunBody(r) PROVE RunsInOrder
  BY <1>1, <1>3 DEF ApplyInTransaction, RunBody
<1>4. ASSUME NEW r \in Runners, Start(r) \/ Crash(r) \/ Step(r),
             ~ApplyInTransaction(r), ~RunBody(r)
      PROVE  ran' = ran
  BY <1>4 DEF Step, Start, Crash, Acquire, Bootstrap, ReadApplied, Record, SetDuration,
              StepFails, Unlock
<1>5. CASE UNCHANGED vars
  BY <1>2, <1>5 DEF vars
<1> QED
  BY <1>2, <1>3, <1>4, <1>5 DEF Next, Quiet

(* Migrations take effect in numeric order, in every interleaving.         *)
THEOREM MigratedInOrder == Spec => AppliedInOrder
<1>1. IInv /\ [Next]_vars => [RunsInOrder]_vars
  BY OrderStep
<1> QED BY <1>1, Invariance, PTL DEF Spec, AppliedInOrder
-----------------------------------------------------------------------------
(***************************************************************************)
(* The runs of a notransaction file: each but one was ended by a stop      *)
(* before its row was written, and that one too while the row is missing   *)
(* and nobody is about to write it.  A file that a runner regards as       *)
(* pending has no row, because the lock keeps others from writing one.     *)
(***************************************************************************)
Unfinished(r) == pc[r] \notin {"unlock", "done"} => exit[r] = "none"

Unrecorded(r) ==
    /\ pc[r] \in {"apply", "record"} => pending[r] \cap tracked = {}
    /\ pc[r] = "duration" => (pending[r] \ {current[r]}) \cap tracked = {}

Recording(m) == {r \in Runners : pc[r] = "record" /\ current[r] = m}

Reruns(m) ==
    /\ IsFiniteSet(Stopped(m))
    /\ ran[m] <= Cardinality(Stopped(m)) + 1
    /\ m \notin tracked /\ Recording(m) = {} => ran[m] <= Cardinality(Stopped(m))

Counted == Migrations \ (Transactional \cup Deployed)

IReruns == /\ \A r \in Runners : Unfinished(r) /\ Unrecorded(r)
           /\ \A m \in Counted : Reruns(m)

Moves(r) == Start(r) \/ Step(r) \/ Crash(r)

LEMMA UnrecordedStep ==
    ASSUME IInv, \A r \in Runners : Unfinished(r) /\ Unrecorded(r), NEW r \in Runners, Moves(r),
           NEW q \in Runners
    PROVE  Unfinished(q)' /\ Unrecorded(q)'
<1>0. TypeOK /\ Unfinished(q) /\ Unrecorded(q) /\ LockExcludes
  BY DEF IInv
<1>1. CASE q # r
  <2>1. pc'[q] = pc[q] /\ pending'[q] = pending[q] /\ current'[q] = current[q] /\ exit'[q] = exit[q]
    BY <1>0, <1>1, OthersUntouched DEF Moves
  <2>2. CASE tracked' = tracked
    BY <1>0, <2>1, <2>2 DEF Unfinished, Unrecorded
  <2>3. CASE tracked' # tracked
    <3>1. Bootstrap(r) \/ ApplyInTransaction(r) \/ Record(r)
      BY <2>3 DEF Moves, Step, Start, Acquire, ReadApplied, RunBody, SetDuration, StepFails,
                  Unlock, Crash
    <3>2. lock = r
      BY <1>0, <3>1 DEF Bootstrap, ApplyInTransaction, Record, LockExcludes, Locked
    <3>3. pc[q] \notin Locked
      BY <1>0, <1>1, <3>2 DEF LockExcludes
    <3> QED BY <1>0, <2>1, <3>3 DEF Unfinished, Unrecorded, Locked
  <2> QED BY <2>2, <2>3
<1>2. CASE q = r
  <2> USE <1>0, <1>2 DEF TypeOK, Unfinished, Unrecorded, Goto, Locked
  <2>1. CASE Start(r) \/ Acquire(r) \/ Bootstrap(r)
    BY <2>1 DEF Start, Acquire, Bootstrap
  <2>2. CASE ReadApplied(r)
    BY <2>2 DEF ReadApplied
  <2>3. CASE ApplyInTransaction(r)
    BY <2>3 DEF ApplyInTransaction
  <2>4. CASE RunBody(r)
    BY <2>4 DEF RunBody
  <2>5. CASE Record(r)
    BY <2>5 DEF Record
  <2>6. CASE SetDuration(r)
    BY <2>6 DEF SetDuration
  <2>7. CASE StepFails(r) \/ Unlock(r) \/ Crash(r)
    BY <2>7 DEF StepFails, Unlock, Crash
  <2> QED BY <2>1, <2>2, <2>3, <2>4, <2>5, <2>6, <2>7 DEF Moves, Step
<1> QED BY <1>1, <1>2

(* Runners that stopped at m stay among those who did, and a runner about  *)
(* to write m's row joins them when it stops.                              *)
LEMMA StoppedGrows ==
    ASSUME IInv, \A r \in Runners : Unfinished(r), NEW r \in Runners, Moves(r), NEW m \in Counted,
           IsFiniteSet(Stopped(m))
    PROVE  /\ Stopped(m) \subseteq Stopped(m)' /\ IsFiniteSet(Stopped(m)')
           /\ StepFails(r) \/ Crash(r) =>
                 Stopped(m)' = IF current[r] = m THEN Stopped(m) \cup {r} ELSE Stopped(m)
           /\ Cardinality(Stopped(m)) \in Nat /\ Cardinality(Stopped(m)') \in Nat
           /\ Cardinality(Stopped(m)) <= Cardinality(Stopped(m)')
<1>0. TypeOK /\ Unfinished(r) /\ m # NoOne
  BY ConstantsAssumption DEF IInv, Counted
<1>1. \A q \in Runners \ {r} : q \in Stopped(m)' <=> q \in Stopped(m)
  BY <1>0, OthersUntouched DEF Moves, Stopped
<1>2. CASE StepFails(r) \/ Crash(r)
  <2>1. exit'[r] \in {"1", "crashed"} /\ current' = current
    BY <1>0, <1>2 DEF StepFails, Crash, TypeOK
  <2>2. r \in Stopped(m)' <=> current[r] = m
    BY <2>1 DEF Stopped
  <2>3. r \in Stopped(m) => current[r] = m
    BY DEF Stopped
  <2>4. Stopped(m)' = IF current[r] = m THEN Stopped(m) \cup {r} ELSE Stopped(m)
    <3>1. Stopped(m) \subseteq Runners /\ Stopped(m)' \subseteq Runners
      BY DEF Stopped
    <3> QED BY <1>1, <2>2, <2>3, <3>1
  <2>5. IsFiniteSet(Stopped(m)')
    BY <2>4, FS_AddElement
  <2> QED BY <2>4, <2>5, FS_Subset, FS_CardinalityType
<1>3. CASE ~(StepFails(r) \/ Crash(r))
  <2>1. r \in Stopped(m)' <=> r \in Stopped(m)
    <3>1. CASE Start(r) \/ Acquire(r) \/ Bootstrap(r) \/ Record(r) \/ Unlock(r)
      BY <3>1 DEF Start, Acquire, Bootstrap, Record, Unlock, Stopped
    <3>2. CASE ReadApplied(r) \/ ApplyInTransaction(r) \/ RunBody(r) \/ SetDuration(r)
      <4>1. exit[r] = "none" /\ exit'[r] \in {"none", "0"}
        BY <1>0, <3>2 DEF ReadApplied, ApplyInTransaction, RunBody, SetDuration, Unfinished, TypeOK
      <4> QED BY <4>1 DEF Stopped
    <3> QED BY <1>3, <3>1, <3>2 DEF Moves, Step
  <2>2. Stopped(m)' = Stopped(m)
    <3>1. Stopped(m) \subseteq Runners /\ Stopped(m)' \subseteq Runners
      BY DEF Stopped
    <3> QED BY <1>1, <2>1, <3>1
  <2> QED BY <1>3, <2>2, FS_CardinalityType
<1> QED BY <1>2, <1>3

LEMMA RerunsStep ==
    ASSUME IInv, IReruns, NEW r \in Runners, Moves(r), NEW m \in Counted
    PROVE  Reruns(m)'
<1>0. /\ TypeOK /\ Unfinished(r) /\ Unrecorded(r) /\ LockExcludes /\ Reruns(m)
      /\ m \in Migrations /\ m \notin Transactional /\ PendingOfImage
  BY DEF IInv, IReruns, Counted
<1>1. /\ Stopped(m) \subseteq Stopped(m)' /\ IsFiniteSet(Stopped(m)')
      /\ StepFails(r) \/ Crash(r) =>
            Stopped(m)' = IF current[r] = m THEN Stopped(m) \cup {r} ELSE Stopped(m)
      /\ Cardinality(Stopped(m)) \in Nat /\ Cardinality(Stopped(m)') \in Nat
      /\ Cardinality(Stopped(m)) <= Cardinality(Stopped(m)')
  BY <1>0, StoppedGrows DEF IReruns, Reruns
<1>2. PICK n \in Nat, k \in Nat : /\ n = Cardinality(Stopped(m)) /\ k = Cardinality(Stopped(m)')
                                  /\ n <= k
  BY <1>1
<1>3. \A q \in Runners \ {r} : q \in Recording(m)' <=> q \in Recording(m)
  BY <1>0, OthersUntouched DEF Moves, Recording
<1>4. CASE RunBody(r)
  <2>1. PICK f \in Lowest(r) \ Transactional :
           ran' = [ran EXCEPT ![f] = @ + 1] /\ current'[r] = f /\ pc'[r] = "record"
    BY <1>0, <1>4 DEF RunBody, TypeOK, Goto
  <2>2. pc[r] = "apply" /\ f \in pending[r] /\ f \notin tracked /\ tracked' = tracked
    BY <1>0, <1>4, <2>1 DEF RunBody, Lowest, Unrecorded
  <2>3. CASE f = m
    <3>1. Recording(m) = {}
      BY <1>0, <2>2 DEF Recording, LockExcludes, Locked
    <3>2. ran[m] \in Nat /\ ran[m] <= n
      BY <1>0, <1>2, <2>2, <2>3, <3>1 DEF Reruns, TypeOK
    <3>3. ran'[m] = ran[m] + 1
      BY <1>0, <2>1, <2>3 DEF TypeOK
    <3>4. r \in Recording(m)'
      BY <2>1, <2>3 DEF Recording
    <3> QED BY <1>1, <1>2, <3>2, <3>3, <3>4 DEF Reruns
  <2>4. CASE f # m
    <3>1. ran'[m] = ran[m] /\ ran[m] \in Nat
      BY <1>0, <2>1, <2>4 DEF TypeOK
    <3>2. r \notin Recording(m) /\ r \notin Recording(m)'
      BY <2>1, <2>2, <2>4 DEF Recording
    <3>3. Recording(m)' = {} => Recording(m) = {}
      BY <1>3, <3>2 DEF Recording
    <3> QED BY <1>0, <1>1, <1>2, <2>2, <3>1, <3>3 DEF Reruns
  <2> QED BY <2>3, <2>4
<1>5. CASE ~RunBody(r)
  <2>1. ran'[m] = ran[m] /\ ran[m] \in Nat
    BY <1>0, <1>5 DEF Moves, Step, Start, Acquire, Bootstrap, ReadApplied, ApplyInTransaction,
                      Record, SetDuration, StepFails, Unlock, Crash, TypeOK
  <2>2. tracked \subseteq tracked'
    BY <1>0, OthersUntouched DEF Moves
  <2>3. CASE r \notin Recording(m)
    <3>1. r \in Recording(m)' <=> r \in Recording(m)
      <4>1. pc'[r] # "record" \/ Bootstrap(r)
        BY <1>0, <1>5, <2>3 DEF Moves, Step, Start, Acquire, ReadApplied, ApplyInTransaction,
                                Record, SetDuration, StepFails, Unlock, Crash, TypeOK, Goto
      <4>2. Bootstrap(r) => pc'[r] = "read"
        BY <1>0 DEF Bootstrap, TypeOK, Goto
      <4> QED BY <2>3, <4>1, <4>2 DEF Recording
    <3>2. Recording(m)' = {} => Recording(m) = {}
      BY <1>3, <3>1 DEF Recording
    <3> QED BY <1>0, <1>1, <1>2, <2>1, <2>2, <3>2 DEF Reruns
  <2>4. CASE r \in Recording(m)
    <3>1. pc[r] = "record" /\ current[r] = m
      BY <2>4 DEF Recording
    <3>2. CASE Record(r)
      <4>1. m \in tracked'
        BY <3>1, <3>2 DEF Record
      <4> QED BY <1>0, <1>1, <1>2, <2>1, <4>1 DEF Reruns
    <3>3. CASE StepFails(r) \/ Crash(r)
      <4>1. r \notin Stopped(m)
        BY <1>0, <3>1 DEF Unfinished, Stopped
      <4>2. k = n + 1
        BY <1>0, <1>1, <1>2, <3>1, <3>3, <4>1, FS_AddElement DEF Reruns
      <4> QED BY <1>0, <1>1, <1>2, <2>1, <4>2 DEF Reruns
    <3>4. Record(r) \/ StepFails(r) \/ Crash(r)
      BY <3>1 DEF Moves, Step, Start, Acquire, Bootstrap, ReadApplied, ApplyInTransaction,
                  RunBody, SetDuration, Unlock
    <3> QED BY <3>2, <3>3, <3>4
  <2> QED BY <2>3, <2>4
<1> QED BY <1>4, <1>5

(* Each further run of a notransaction file is paid for by a runner that   *)
(* stopped between its body and its row, for any deploys and crashes.      *)
THEOREM RerunsPaidFor == Spec => []RerunsAccounted
<1>1. Init => IReruns
  <2> SUFFICES ASSUME Init PROVE IReruns
    OBVIOUS
  <2>1. \A m \in Counted : Stopped(m) = {} /\ ran[m] = 0
    BY DEF Init, Stopped, Counted
  <2>2. \A m \in Counted : Reruns(m)
    BY <2>1, FS_EmptySet DEF Reruns
  <2> QED BY <2>2 DEF Init, IReruns, Unfinished, Unrecorded
<1>2. IInv /\ IReruns /\ [Next]_vars => IReruns'
  <2> SUFFICES ASSUME IInv, IReruns, [Next]_vars PROVE IReruns'
    OBVIOUS
  <2>1. ASSUME NEW r \in Runners, Moves(r) PROVE IReruns'
    BY <2>1, UnrecordedStep, RerunsStep DEF IReruns
  <2>2. CASE UNCHANGED vars
    BY <2>2 DEF vars, IReruns, Unfinished, Unrecorded, Reruns, Recording, Stopped
  <2> QED BY <2>1, <2>2 DEF Next, Quiet, Moves
<1>3. IInv /\ IReruns => RerunsAccounted
  <2> SUFFICES ASSUME IInv, IReruns, NEW m \in Counted, ran[m] > 1
               PROVE  Cardinality(Stopped(m)) >= ran[m] - 1
    BY DEF RerunsAccounted, Counted
  <2>1. ran[m] \in Nat /\ IsFiniteSet(Stopped(m)) /\ ran[m] <= Cardinality(Stopped(m)) + 1
    BY DEF IInv, TypeOK, IReruns, Reruns, Counted
  <2>2. Cardinality(Stopped(m)) \in Nat
    BY <2>1, FS_CardinalityType
  <2> QED BY <2>1, <2>2
<1> QED BY <1>1, <1>2, <1>3, Invariance, PTL DEF Spec
=============================================================================
