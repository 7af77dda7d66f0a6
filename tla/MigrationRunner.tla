-------------------------- MODULE MigrationRunner --------------------------
(***************************************************************************)
(* scripts/apply_migrations.py: every deploy runs it before the API        *)
(* process starts, so the runners of overlapping deploys, and of deploys   *)
(* that crashed and were started again, share one database.                *)
(* Op_Fault is Op with a plausible bug; no action uses it.                 *)
(***************************************************************************)
EXTENDS Naturals, FiniteSets

CONSTANTS
    Runners,         \* the invocations of the script, one per deploy
    Migrations,      \* migration files
    Number,          \* the numeric prefix of a file name
    Transactional,   \* the files without the notransaction marker
    Image,           \* Image[r]: the files in the deployed image
    Bootstrapping,   \* the runners started with BOOTSTRAP_MIGRATIONS=true
    Excluded,        \* BOOTSTRAP_EXCLUDE
    Deployed,        \* what the schema already held before the first runner
    NoOne

ASSUME ConstantsAssumption ==
    /\ Number \in [Migrations -> Nat]
    /\ Transactional \subseteq Migrations
    /\ Image \in [Runners -> SUBSET Migrations]
    /\ Bootstrapping \subseteq Runners
    /\ Excluded \subseteq Migrations
    /\ Deployed \subseteq Migrations
    /\ NoOne \notin Runners
    /\ NoOne \notin Migrations

VARIABLES
    lock,       \* holder of the advisory lock
    tracked,    \* the rows of schema_migrations
    ran,        \* how often the body of each file has taken effect
    pc,         \* the step a runner is at
    pending,    \* the files a runner has still to apply
    current,    \* the file whose row it is writing
    exit        \* how a runner ended: 0 starts the API

vars == <<lock, tracked, ran, pc, pending, current, exit>>

Init ==
    /\ lock = NoOne
    /\ tracked = {}
    /\ ran = [m \in Migrations |-> IF m \in Deployed THEN 1 ELSE 0]
    /\ pc = [r \in Runners |-> "idle"]
    /\ pending = [r \in Runners |-> {}]
    /\ current = [r \in Runners |-> NoOne]
    /\ exit = [r \in Runners |-> "none"]

Goto(r, label) == pc' = [pc EXCEPT ![r] = label]

(* The steps taken while holding the advisory lock.                        *)
Locked == {"bootstrap", "read", "apply", "record", "duration", "unlock"}

-----------------------------------------------------------------------------
(* A deploy starts the script; it connects and asks for the lock.          *)
Start(r) ==
    /\ pc[r] = "idle"
    /\ Goto(r, "acquire")
    /\ UNCHANGED <<lock, tracked, ran, pending, current, exit>>

(* SELECT pg_advisory_lock blocks until nobody holds it.                   *)
Acquire_TryOnly(r) ==
    /\ pc[r] = "acquire"
    /\ lock' = r
    /\ Goto(r, IF r \in Bootstrapping THEN "bootstrap" ELSE "read")
    /\ UNCHANGED <<tracked, ran, pending, current, exit>>

Acquire(r) ==
    /\ pc[r] = "acquire"
    /\ lock = NoOne
    /\ lock' = r
    /\ Goto(r, IF r \in Bootstrapping THEN "bootstrap" ELSE "read")
    /\ UNCHANGED <<tracked, ran, pending, current, exit>>

(* Marks every file of the image that is not excluded, without running it. *)
Bootstrap(r) ==
    /\ pc[r] = "bootstrap"
    /\ tracked' = tracked \cup (Image[r] \ Excluded)
    /\ Goto(r, "read")
    /\ UNCHANGED <<lock, ran, pending, current, exit>>

(* What is not recorded is pending; with nothing pending the exit is 0.    *)
ReadApplied(r) ==
    /\ pc[r] = "read"
    /\ pending' = [pending EXCEPT ![r] = Image[r] \ tracked]
    /\ IF Image[r] \subseteq tracked
       THEN Goto(r, "unlock") /\ exit' = [exit EXCEPT ![r] = "0"]
       ELSE Goto(r, "apply") /\ UNCHANGED exit
    /\ UNCHANGED <<lock, tracked, ran, current>>

(* The pending files with the lowest number.  Two files of one number are  *)
(* applied in directory order.                                             *)
Lowest_DirectoryOrder(r) == pending[r]
Lowest(r) == {m \in pending[r] : \A n \in pending[r] : Number[m] <= Number[n]}

(* Body and tracking row in one transaction.  A row that is already there  *)
(* violates the primary key, and the transaction rolls back (StepFails).   *)
ApplyInTransaction(r) ==
    /\ pc[r] = "apply"
    /\ \E m \in Lowest(r) \cap Transactional :
          /\ m \notin tracked
          /\ ran' = [ran EXCEPT ![m] = @ + 1]
          /\ tracked' = tracked \cup {m}
          /\ current' = [current EXCEPT ![r] = m]
    /\ Goto(r, "duration")
    /\ UNCHANGED <<lock, pending, exit>>

(* The body of a notransaction file; its row comes in a later transaction. *)
RunBody_AnyFile(r) ==
    /\ pc[r] = "apply"
    /\ \E m \in Lowest(r) :
          /\ ran' = [ran EXCEPT ![m] = @ + 1]
          /\ current' = [current EXCEPT ![r] = m]
    /\ Goto(r, "record")
    /\ UNCHANGED <<lock, tracked, pending, exit>>

RunBody(r) ==
    /\ pc[r] = "apply"
    /\ \E m \in Lowest(r) \ Transactional :
          /\ ran' = [ran EXCEPT ![m] = @ + 1]
          /\ current' = [current EXCEPT ![r] = m]
    /\ Goto(r, "record")
    /\ UNCHANGED <<lock, tracked, pending, exit>>

Record(r) ==
    /\ pc[r] = "record"
    /\ current[r] \notin tracked
    /\ tracked' = tracked \cup {current[r]}
    /\ Goto(r, "duration")
    /\ UNCHANGED <<lock, ran, pending, current, exit>>

(* duration_ms is written last; then the next file, or exit 0.             *)
SetDuration(r) ==
    /\ pc[r] = "duration"
    /\ LET rest == pending[r] \ {current[r]}
       IN  /\ pending' = [pending EXCEPT ![r] = rest]
           /\ IF rest = {}
              THEN Goto(r, "unlock") /\ exit' = [exit EXCEPT ![r] = "0"]
              ELSE Goto(r, "apply") /\ UNCHANGED exit
    /\ current' = [current EXCEPT ![r] = NoOne]
    /\ UNCHANGED <<lock, tracked, ran>>

(* Any statement may raise: the transaction it is in rolls back, the       *)
(* finally clause releases the lock, and the exit is 1.                    *)
StepFails_ExitsZero(r) ==
    /\ pc[r] \in Locked \ {"unlock"}
    /\ exit' = [exit EXCEPT ![r] = "0"]
    /\ Goto(r, "unlock")
    /\ UNCHANGED <<lock, tracked, ran, pending, current>>

StepFails(r) ==
    /\ pc[r] \in Locked \ {"unlock"}
    /\ exit' = [exit EXCEPT ![r] = "1"]
    /\ Goto(r, "unlock")
    /\ UNCHANGED <<lock, tracked, ran, pending, current>>

Unlock_Skipped(r) ==
    /\ pc[r] = "unlock"
    /\ Goto(r, "done")
    /\ UNCHANGED <<lock, tracked, ran, pending, current, exit>>

Unlock(r) ==
    /\ pc[r] = "unlock"
    /\ lock' = NoOne
    /\ Goto(r, "done")
    /\ UNCHANGED <<tracked, ran, pending, current, exit>>

(* Killed, or cut off from the database, at any point.  Postgres rolls the *)
(* open transaction back and drops the session's advisory lock.            *)
Crash(r) ==
    /\ pc[r] \notin {"idle", "done"}
    /\ lock' = IF lock = r THEN NoOne ELSE lock
    /\ exit' = [exit EXCEPT ![r] = "crashed"]
    /\ Goto(r, "done")
    /\ UNCHANGED <<tracked, ran, pending, current>>

Step(r) ==
    \/ Acquire(r)
    \/ Bootstrap(r)
    \/ ReadApplied(r)
    \/ ApplyInTransaction(r)
    \/ RunBody(r)
    \/ Record(r)
    \/ SetDuration(r)
    \/ StepFails(r)
    \/ Unlock(r)

(* Every deploy has ended and no other follows.                            *)
Quiet ==
    /\ \A r \in Runners : pc[r] = "done"
    /\ UNCHANGED vars

Next ==
    \/ \E r \in Runners : Start(r) \/ Step(r) \/ Crash(r)
    \/ Quiet

(* A started script keeps running; nothing obliges a deploy to happen.     *)
Spec == Init /\ [][Next]_vars /\ \A r \in Runners : WF_vars(Step(r))

-----------------------------------------------------------------------------
(* Properties.                                                             *)

(* Every variable holds values of its kind.                                *)
TypeOK ==
    /\ lock \in Runners \cup {NoOne}
    /\ tracked \in SUBSET Migrations
    /\ ran \in [Migrations -> Nat]
    /\ pc \in [Runners -> Locked \cup {"idle", "acquire", "done"}]
    /\ pending \in [Runners -> SUBSET Migrations]
    /\ current \in [Runners -> Migrations \cup {NoOne}]
    /\ exit \in [Runners -> {"none", "0", "1", "crashed"}]

(* A transactional migration takes effect once, whichever deploys overlap, *)
(* fail or crash: its body and its row commit together, and a runner that  *)
(* decided it was pending cannot have been overtaken.                      *)
TransactionalOnce ==
    \A m \in Transactional \ Deployed : ran[m] <= 1 /\ (ran[m] = 1 => m \in tracked)

(* A notransaction migration runs again only when an earlier runner stopped*)
(* between its body and its row: each further run costs one such runner.   *)
Stopped(m) == {r \in Runners : current[r] = m /\ exit[r] \in {"1", "crashed"}}
RerunsAccounted ==
    \A m \in Migrations \ (Transactional \cup Deployed) :
        ran[m] > 1 => Cardinality(Stopped(m)) >= ran[m] - 1

(* The API of a deploy starts only on a schema that has, on record, every  *)
(* migration of its image, and keeps having it.                            *)
StartedApiIsMigrated ==
    \A r \in Runners : pc[r] = "done" /\ exit[r] = "0" => Image[r] \subseteq tracked

(* Bodies take effect in numeric order: when one does, every lower-numbered*)
(* file of the image that ran it is on record.                             *)
RunsInOrder ==
    \A m \in Migrations :
        ran'[m] # ran[m] =>
            \E r \in Runners :
                /\ m \in Image[r] /\ pc[r] = "apply"
                /\ \A n \in Image[r] : Number[n] < Number[m] => n \in tracked
AppliedInOrder == [][RunsInOrder]_vars

(* Every started runner ends: the lock is always released again.           *)
EveryRunnerEnds == \A r \in Runners : pc[r] = "acquire" ~> pc[r] = "done"
=============================================================================
