--------------------------- MODULE IdentityProofs ---------------------------
(* Theorems about Identity, for any people, machines, declarations and     *)
(* number of sign-ins, patches and boots, and any interleaving, failures   *)
(* and crashes.                                                            *)
EXTENDS Identity, FiniteSetTheorems, TLAPS

Moves(a) == Begin(a) \/ Step(a) \/ BreakDeadlock(a) \/ Crash(a)

(* What an actor is doing at each statement, and the entry it is at.       *)
RequestAt(a) ==
    /\ req[a] \in IF pc[a] = "idle" THEN {NoOne} ELSE Request
    /\ pc[a] = "verify" => req[a] \in SignIn \cup Patch
    /\ pc[a] \in {"find_profile", "save_profile", "resolve", "grant_default"} => req[a] \in SignIn
    /\ pc[a] \in {"authorize", "patch_profile", "save_flag"} => req[a] \in Patch
    /\ pc[a] = "insert_principal" => req[a] \in SignIn \cup Boot
    /\ pc[a] \in {"find_principal", "read_roles", "grant", "revoke", "sweep", "commit"}
          => req[a] \in Boot
    /\ \/ pc[a] \in {"read_roles", "grant"}
       \/ pc[a] = "insert_principal" /\ req[a].kind = "boot"
       => work[a].at \in DOMAIN Declaration(a)
    /\ work[a].at # 0

IType == TypeOK /\ \A a \in Actors : RequestAt(a)

-----------------------------------------------------------------------------
LEMMA KindsOfRequests ==
    ASSUME NEW r \in Request
    PROVE  /\ r.kind = "sign_in" <=> r \in SignIn
           /\ r.kind = "patch" <=> r \in Patch
           /\ r.kind = "boot" <=> r \in Boot
BY DEF Request, SignIn, Patch, Boot

LEMMA NoTxnType == NoTxn \in Txn
BY DEF NoTxn, Txn

LEMMA NoWorkType == NoWork \in Work
BY DEF NoWork, Work

LEMMA TxnUpdates ==
    ASSUME NEW t \in Txn
    PROVE  /\ \A S \in SUBSET (People \cup Machines) : [t EXCEPT !.principals = S] \in Txn
           /\ \A R \in SUBSET RoleRow : [t EXCEPT !.added = R] \in Txn
           /\ \A R \in SUBSET RoleRow : [t EXCEPT !.removed = R] \in Txn
BY DEF Txn

LEMMA WorkUpdates ==
    ASSUME NEW t \in Work
    PROVE  /\ \A k, d \in BOOLEAN : [t EXCEPT !.known = k, !.admin = d] \in Work
           /\ \A d \in BOOLEAN : [t EXCEPT !.admin = d] \in Work
           /\ \A n \in Nat : [t EXCEPT !.at = n] \in Work
           /\ \A S \in SUBSET Machines : [t EXCEPT !.todo = S] \in Work
           /\ \A S \in SUBSET Machines, R \in SUBSET RoleRow :
                 [t EXCEPT !.todo = S, !.stale = R] \in Work
           /\ \A M \in SUBSET Roles : [t EXCEPT !.missing = M] \in Work
           /\ \A R \in SUBSET RoleRow : [t EXCEPT !.stale = R] \in Work
           /\ \A M \in SUBSET Roles, R \in SUBSET RoleRow :
                 [t EXCEPT !.missing = M, !.stale = R] \in Work
BY DEF Work

(* An actor changes its own request, counter, transaction and variables.   *)
LEMMA OthersUntouched ==
    ASSUME TypeOK, NEW a \in Actors, Moves(a)
    PROVE  \A b \in Actors \ {a} :
              /\ req'[b] = req[b] /\ pc'[b] = pc[b] /\ answer'[b] = answer[b]
              /\ txn'[b] = txn[b] /\ work'[b] = work[b]
<1> USE DEF TypeOK, Goto, EndWith, db
<1>1. CASE Begin(a) \/ BreakDeadlock(a) \/ Crash(a)
  BY <1>1 DEF Begin, BreakDeadlock, Crash
<1>2. CASE VerifyBearer(a) \/ FindProfile(a) \/ SaveProfile(a) \/ Resolve(a)
  BY <1>2 DEF VerifyBearer, FindProfile, SaveProfile, Resolve
<1>3. CASE InsertPrincipal(a) \/ GrantDefault(a) \/ RequireScope(a) \/ PatchProfile(a)
           \/ SaveFlag(a)
  BY <1>3 DEF InsertPrincipal, GrantDefault, RequireScope, PatchProfile, SaveFlag
<1>4. CASE FindPrincipal(a) \/ ReadRoles(a)
  BY <1>4 DEF FindPrincipal, ReadRoles
<1>5. CASE Grant(a) \/ EndGrants(a) \/ Revoke(a)
  BY <1>5 DEF Grant, EndGrants, Revoke
<1>6. CASE EndRevokes(a) \/ Sweep(a) \/ EndSweep(a) \/ Commit(a)
  BY <1>6 DEF EndRevokes, Sweep, EndSweep, Commit
<1> QED BY <1>1, <1>2, <1>3, <1>4, <1>5, <1>6 DEF Moves, Step

(* Once it has begun, an actor does one thing.                             *)
LEMMA RequestsStay ==
    ASSUME NEW a \in Actors, Moves(a)
    PROVE  req' = req \/ Begin(a)
<1> USE DEF Goto, EndWith
<1>1. CASE BreakDeadlock(a) \/ Crash(a)
  BY <1>1 DEF BreakDeadlock, Crash
<1>2. CASE VerifyBearer(a) \/ FindProfile(a) \/ SaveProfile(a) \/ Resolve(a)
  BY <1>2 DEF VerifyBearer, FindProfile, SaveProfile, Resolve
<1>3. CASE InsertPrincipal(a) \/ GrantDefault(a) \/ RequireScope(a) \/ PatchProfile(a)
           \/ SaveFlag(a)
  BY <1>3 DEF InsertPrincipal, GrantDefault, RequireScope, PatchProfile, SaveFlag
<1>4. CASE FindPrincipal(a) \/ ReadRoles(a)
  BY <1>4 DEF FindPrincipal, ReadRoles
<1>5. CASE Grant(a) \/ EndGrants(a) \/ Revoke(a)
  BY <1>5 DEF Grant, EndGrants, Revoke
<1>6. CASE EndRevokes(a) \/ Sweep(a) \/ EndSweep(a) \/ Commit(a)
  BY <1>6 DEF EndRevokes, Sweep, EndSweep, Commit
<1> QED BY <1>1, <1>2, <1>3, <1>4, <1>5, <1>6 DEF Moves, Step

(***************************************************************************)
(* What a step leaves of an actor: it ends with nothing in hand, or its    *)
(* transaction and variables change in one of a few ways.                  *)
(***************************************************************************)
Ended(a) == pc'[a] = "done" /\ txn'[a] = NoTxn /\ work'[a] = NoWork

LEMMA EndEnds ==
    ASSUME TypeOK, NEW a \in Actors, NEW how, EndWith(a, how)
    PROVE  Ended(a) /\ req' = req /\ answer'[a] = how /\ UNCHANGED <<db, alone>>
BY DEF TypeOK, EndWith, Goto, Ended

LEMMA EndType ==
    ASSUME TypeOK, NEW a \in Actors,
           NEW how \in {"200", "401", "403", "404", "500", "nothing", "failed", "crashed"},
           EndWith(a, how)
    PROVE  TypeOK'
BY NoTxnType, NoWorkType DEF TypeOK, EndWith, Goto, Label, db

(* The entry a boot is at.                                                 *)
LEMMA WantedType ==
    ASSUME TypeOK, NEW a \in Actors, req[a] \in Boot, work[a].at \in DOMAIN Declaration(a)
    PROVE  Wanted(a) \in Entry /\ Wanted(a).name \in Machines /\ Wanted(a).roles \subseteq Roles
<1>1. Declaration(a) \in Seq(Entry)
  BY DEF Boot, Declaration
<1>2. Wanted(a) \in Entry
  BY <1>1 DEF Wanted
<1> QED BY <1>2 DEF Entry

LEMMA PeopleType ==
    ASSUME IType, NEW a \in Actors,
           \/ Begin(a) \/ VerifyBearer(a) \/ FindProfile(a) \/ SaveProfile(a) \/ Resolve(a)
           \/ RequireScope(a) \/ PatchProfile(a) \/ SaveFlag(a) \/ GrantDefault(a)
    PROVE  TypeOK'
<1>0. TypeOK /\ RequestAt(a) /\ txn[a] \in Txn /\ work[a] \in Work
  BY DEF IType, TypeOK
<1> USE DEF Goto, Label, db
<1>1. CASE Begin(a)
  <2>1. PICK r \in PlanOf[plan].requests[a] : req' = [req EXCEPT ![a] = r] /\ Goto(a, EntryOf(r))
    BY <1>1 DEF Begin
  <2>2. r \in Request
    BY <1>0, ConstantsAssumption DEF TypeOK, Plan
  <2>3. UNCHANGED <<db, answer, txn, work>> /\ alone' \subseteq Actors
    BY <1>0, <1>1 DEF Begin, TypeOK
  <2> QED BY <1>0, <2>1, <2>2, <2>3 DEF TypeOK, EntryOf
<1>2. CASE VerifyBearer(a)
  BY <1>0, <1>2, EndType DEF VerifyBearer, TypeOK
<1>3. CASE FindProfile(a)
  <2>1. PICK k \in BOOLEAN, d \in BOOLEAN :
           work' = [work EXCEPT ![a].known = k, ![a].admin = d]
    BY <1>3 DEF FindProfile
  <2>2. work' \in [Actors -> Work]
    BY <1>0, <2>1, WorkUpdates DEF TypeOK
  <2> QED BY <1>0, <1>3, <2>2 DEF FindProfile, TypeOK
<1>4. CASE SaveProfile(a)
  <2>1. req[a].who \in People
    BY <1>0, <1>4 DEF SaveProfile, RequestAt, SignIn
  <2> QED BY <1>0, <1>4, <2>1, EndType DEF SaveProfile, TypeOK
<1>5. CASE Resolve(a)
  BY <1>0, <1>5, EndType DEF Resolve, TypeOK
<1>6. CASE RequireScope(a)
  BY <1>0, <1>6, EndType DEF RequireScope, TypeOK
<1>7. CASE PatchProfile(a)
  <2>1. CASE profile[req[a].who] = "none"
    BY <1>0, <1>7, <2>1, EndType DEF PatchProfile
  <2>2. CASE profile[req[a].who] # "none"
    <3>1. PICK d \in BOOLEAN : work' = [work EXCEPT ![a].admin = d]
      BY <1>7, <2>2 DEF PatchProfile
    <3>2. work' \in [Actors -> Work]
      BY <1>0, <3>1, WorkUpdates DEF TypeOK
    <3> QED BY <1>0, <1>7, <2>2, <3>2 DEF PatchProfile, TypeOK
  <2> QED BY <2>1, <2>2
<1>8. CASE SaveFlag(a)
  <2>1. profile' \in [People -> {"none", "member", "admin"}]
    BY <1>0, <1>8 DEF SaveFlag, TypeOK
  <2>2. work' \in [Actors -> Work]
    BY <1>0, <1>8, NoWorkType DEF SaveFlag, TypeOK
  <2> QED BY <1>0, <1>8, <2>1, <2>2 DEF SaveFlag, TypeOK
<1>9. CASE GrantDefault(a)
  <2>1. req[a].who \in People
    BY <1>0, <1>9 DEF GrantDefault, RequestAt, SignIn
  <2>2. [who |-> req[a].who, role |-> DefaultRole(a), by |-> Provision] \in RoleRow
    BY <2>1, ConstantsAssumption DEF RoleRow, DefaultRole
  <2>3. principals' \subseteq People \cup Machines /\ roles' \subseteq RoleRow
    BY <1>0, <1>9, <2>2 DEF GrantDefault, TypeOK, Txn
  <2>4. txn' \in [Actors -> Txn] /\ work' \in [Actors -> Work]
    BY <1>0, <1>9, NoTxnType, NoWorkType DEF GrantDefault, TypeOK
  <2> QED BY <1>0, <1>9, <2>3, <2>4 DEF GrantDefault, TypeOK
<1> QED BY <1>1, <1>2, <1>3, <1>4, <1>5, <1>6, <1>7, <1>8, <1>9

LEMMA BootType ==
    ASSUME IType, NEW a \in Actors,
           \/ InsertPrincipal(a) \/ FindPrincipal(a) \/ ReadRoles(a) \/ Grant(a) \/ EndGrants(a)
           \/ Revoke(a) \/ EndRevokes(a) \/ Sweep(a) \/ EndSweep(a) \/ Commit(a)
    PROVE  TypeOK'
<1>0. TypeOK /\ RequestAt(a) /\ txn[a] \in Txn /\ work[a] \in Work
  BY DEF IType, TypeOK
<1> USE DEF Goto, Label, db
<1>c. work[a].at + 1 \in Nat
  BY <1>0 DEF Work
<1>1. CASE InsertPrincipal(a)
  <2>1. CASE Subject(a) \in principals
    BY <1>0, <1>1, <2>1, EndType DEF InsertPrincipal
  <2>2. CASE Subject(a) \notin principals
    <3>1. Subject(a) \in People \cup Machines
      <4>1. CASE req[a] \in SignIn
        BY <4>1 DEF SignIn, Subject
      <4>2. CASE req[a] \in Boot
        <5>1. req[a].kind = "boot"
          BY <4>2 DEF Boot
        <5> QED BY <1>0, <1>1, <4>2, <5>1, WantedType DEF Subject, RequestAt, InsertPrincipal
      <4> QED BY <1>0, <1>1, <4>1, <4>2 DEF RequestAt, InsertPrincipal
    <3>2. /\ txn' = [txn EXCEPT ![a].principals = txn[a].principals \cup {Subject(a)}]
          /\ UNCHANGED <<db, req, answer, work, alone>>
      BY <1>0, <1>1, <2>2 DEF InsertPrincipal, TypeOK
    <3>3. txn[a].principals \cup {Subject(a)} \in SUBSET (People \cup Machines)
      BY <1>0, <3>1 DEF Txn
    <3>4. txn' \in [Actors -> Txn]
      BY <1>0, <3>2, <3>3, TxnUpdates DEF TypeOK
    <3>5. pc' \in [Actors -> Label]
      BY <1>0, <1>1, <2>2 DEF InsertPrincipal, TypeOK
    <3> QED BY <1>0, <3>2, <3>4, <3>5 DEF TypeOK
  <2> QED BY <2>1, <2>2
<1>2. CASE FindPrincipal(a)
  <2>1. CASE \E how \in {"nothing"} : EndWith(a, how)
    BY <1>0, <2>1, EndType
  <2>2. CASE ~EndWith(a, "nothing")
    <3>1. /\ pc' = pc \/ \E l \in {"sweep", "read_roles", "insert_principal"} :
                             pc' = [pc EXCEPT ![a] = l]
          /\ UNCHANGED <<db, req, alone, answer, txn>>
          /\ \/ work' = work
             \/ work' = [work EXCEPT ![a].at = @ + 1]
             \/ \E S \in SUBSET Machines : work' = [work EXCEPT ![a].todo = S]
      BY <1>2, <2>2 DEF FindPrincipal
    <3>2. work' \in [Actors -> Work]
      <4>1. CASE work' = work
        BY <1>0, <4>1 DEF TypeOK
      <4>2. CASE work' = [work EXCEPT ![a].at = @ + 1]
        BY <1>0, <1>c, <4>2, WorkUpdates DEF TypeOK
      <4>3. ASSUME NEW S \in SUBSET Machines, work' = [work EXCEPT ![a].todo = S]
            PROVE  work' \in [Actors -> Work]
        BY <1>0, <4>3, WorkUpdates DEF TypeOK
      <4> QED BY <3>1, <4>1, <4>2, <4>3
    <3>3. pc' \in [Actors -> Label]
      BY <1>0, <3>1 DEF TypeOK
    <3> QED BY <1>0, <3>1, <3>2, <3>3 DEF TypeOK
  <2> QED BY <2>1, <2>2
<1>3. CASE ReadRoles(a)
  <2>1. req[a] \in Boot /\ work[a].at \in DOMAIN Declaration(a)
    BY <1>0, <1>3 DEF ReadRoles, RequestAt
  <2>2. PICK M \in SUBSET Roles, R \in SUBSET RoleRow :
           work' = [work EXCEPT ![a].missing = M, ![a].stale = R]
    <3>1. Wanted(a).roles \subseteq Roles
      BY <1>0, <2>1, WantedType
    <3>2. RolesSeen(a, Wanted(a).name) \subseteq RoleRow
      BY <1>0 DEF RolesSeen, TypeOK, Txn
    <3> QED BY <1>3, <3>1, <3>2 DEF ReadRoles, Mine
  <2>3. work' \in [Actors -> Work]
    BY <1>0, <2>2, WorkUpdates DEF TypeOK
  <2> QED BY <1>0, <1>3, <2>3 DEF ReadRoles, TypeOK
<1>4. CASE Grant(a)
  <2>1. PICK role \in work[a].missing :
           \/ EndWith(a, "failed")
           \/ /\ txn' = [txn EXCEPT ![a].added = txn[a].added \cup
                            {[who |-> Wanted(a).name, role |-> role, by |-> Registry]}]
              /\ work' = [work EXCEPT ![a].missing = work[a].missing \ {role}]
              /\ UNCHANGED <<db, req, pc, answer, alone>>
    BY <1>0, <1>4 DEF Grant, TypeOK
  <2>2. CASE EndWith(a, "failed")
    BY <1>0, <2>2, EndType
  <2>3. CASE ~EndWith(a, "failed")
    <3>1. /\ txn[a].added \cup {[who |-> Wanted(a).name, role |-> role, by |-> Registry]}
                \in SUBSET RoleRow
          /\ work[a].missing \ {role} \in SUBSET Roles
      <4>1. Wanted(a).name \in Machines
        BY <1>0, <1>4, WantedType DEF Grant, RequestAt
      <4>2. role \in Roles
        BY <1>0 DEF Work
      <4>3. [who |-> Wanted(a).name, role |-> role, by |-> Registry] \in RoleRow
        BY <4>1, <4>2 DEF RoleRow
      <4> QED BY <1>0, <4>3 DEF Txn, Work
    <3>2. PICK R \in SUBSET RoleRow, M \in SUBSET Roles :
             /\ txn' = [txn EXCEPT ![a].added = R]
             /\ work' = [work EXCEPT ![a].missing = M]
      BY <2>1, <2>3, <3>1
    <3>3. txn' \in [Actors -> Txn] /\ work' \in [Actors -> Work]
      BY <1>0, <3>2, TxnUpdates, WorkUpdates DEF TypeOK
    <3> QED BY <1>0, <2>1, <2>3, <3>3 DEF TypeOK
  <2> QED BY <2>2, <2>3
<1>5. CASE Revoke(a)
  <2>1. PICK s \in work[a].stale :
           /\ txn' = [txn EXCEPT ![a].removed =
                         txn[a].removed \cup {r \in roles : Key(r) = Key(s)}]
           /\ work' = [work EXCEPT ![a].stale = work[a].stale \ {s}]
           /\ UNCHANGED <<db, req, pc, answer, alone>>
    BY <1>0, <1>5 DEF Revoke, TypeOK
  <2>2. /\ txn[a].removed \cup {r \in roles : Key(r) = Key(s)} \in SUBSET RoleRow
        /\ work[a].stale \ {s} \in SUBSET RoleRow
    BY <1>0 DEF TypeOK, Txn, Work
  <2>3. txn' \in [Actors -> Txn] /\ work' \in [Actors -> Work]
    BY <1>0, <2>1, <2>2, TxnUpdates, WorkUpdates DEF TypeOK
  <2> QED BY <1>0, <2>1, <2>3 DEF TypeOK
<1>6. CASE EndRevokes(a)
  <2>1. work' = work \/ work' = [work EXCEPT ![a].at = work[a].at + 1]
    BY <1>0, <1>6 DEF EndRevokes, TypeOK
  <2>2. work' \in [Actors -> Work]
    <3>1. CASE work' = work
      BY <1>0, <3>1 DEF TypeOK
    <3>2. CASE work' = [work EXCEPT ![a].at = work[a].at + 1]
      BY <1>0, <1>c, <3>2, WorkUpdates DEF TypeOK
    <3> QED BY <2>1, <3>1, <3>2
  <2> QED BY <1>0, <1>6, <2>2 DEF EndRevokes, TypeOK
<1>7. CASE Sweep(a)
  <2>1. PICK m \in work[a].todo :
           work' = [work EXCEPT ![a].todo = work[a].todo \ {m},
                                ![a].stale = Mine(RolesSeen(a, m))]
    BY <1>0, <1>7 DEF Sweep, TypeOK
  <2>2. Mine(RolesSeen(a, m)) \in SUBSET RoleRow /\ work[a].todo \ {m} \in SUBSET Machines
    BY <1>0 DEF RolesSeen, Mine, TypeOK, Txn, Work
  <2>3. work' \in [Actors -> Work]
    BY <1>0, <2>1, <2>2, WorkUpdates DEF TypeOK
  <2> QED BY <1>0, <1>7, <2>3 DEF Sweep, TypeOK
<1>8. CASE EndGrants(a) \/ EndSweep(a)
  BY <1>0, <1>8 DEF EndGrants, EndSweep, TypeOK
<1>9. CASE Commit(a)
  <2>1. principals' \subseteq People \cup Machines /\ roles' \subseteq RoleRow
    BY <1>0, <1>9 DEF Commit, TypeOK, Txn
  <2>2. txn' \in [Actors -> Txn] /\ work' \in [Actors -> Work]
    BY <1>0, <1>9, NoTxnType, NoWorkType DEF Commit, TypeOK
  <2> QED BY <1>0, <1>9, <2>1, <2>2 DEF Commit, TypeOK
<1> QED BY <1>1, <1>2, <1>3, <1>4, <1>5, <1>6, <1>7, <1>8, <1>9

LEMMA TypeStep ==
    ASSUME IType, NEW a \in Actors, Moves(a)
    PROVE  TypeOK'
<1>1. CASE BreakDeadlock(a) \/ Crash(a)
  BY <1>1, EndType DEF IType, BreakDeadlock, Crash
<1> QED BY <1>1, PeopleType, BootType DEF Moves, Step

(* Only an actor that has begun and not ended takes a step.                *)
LEMMA StepRuns ==
    ASSUME NEW a, Step(a) \/ BreakDeadlock(a) \/ Crash(a)
    PROVE  pc[a] \notin {"idle", "done"}
<1>1. CASE BreakDeadlock(a)
  BY <1>1 DEF BreakDeadlock, Deadlocked, BlockedBy
<1>2. CASE Crash(a)
  BY <1>2 DEF Crash
<1> QED
  BY <1>1, <1>2
     DEF Step, VerifyBearer, FindProfile, SaveProfile, Resolve, InsertPrincipal, GrantDefault,
         RequireScope, PatchProfile, SaveFlag, FindPrincipal, ReadRoles, Grant, EndGrants,
         Revoke, EndRevokes, Sweep, EndSweep, Commit

LEMMA EndedRequest ==
    ASSUME IType, NEW a \in Actors, pc[a] # "idle", req' = req, Ended(a)
    PROVE  RequestAt(a)'
BY DEF IType, RequestAt, Ended, NoWork

LEMMA MoverRequest ==
    ASSUME IType, NEW a \in Actors, Moves(a)
    PROVE  RequestAt(a)'
<1>0. TypeOK /\ RequestAt(a) /\ txn[a] \in Txn /\ work[a] \in Work
  BY DEF IType, TypeOK
<1>1. ASSUME NEW how, EndWith(a, how), pc[a] # "idle" PROVE RequestAt(a)'
  BY <1>0, <1>1, EndEnds, EndedRequest
<1>2. CASE Begin(a)
  <2>1. PICK r \in PlanOf[plan].requests[a] : req' = [req EXCEPT ![a] = r] /\ Goto(a, EntryOf(r))
    BY <1>2 DEF Begin
  <2>2. r \in Request
    BY <1>0, ConstantsAssumption DEF TypeOK, Plan
  <2>3. req'[a] = r /\ pc'[a] = EntryOf(r) /\ work' = work
    BY <1>0, <1>2, <2>1 DEF TypeOK, Goto, Begin
  <2>4. r.kind = "boot" => r \in Boot
    BY <2>2, KindsOfRequests
  <2>5. r.kind # "boot" => r \in SignIn \cup Patch
    BY <2>2, KindsOfRequests DEF Request
  <2> QED BY <1>0, <2>2, <2>3, <2>4, <2>5 DEF RequestAt, EntryOf
<1>3. CASE VerifyBearer(a)
  <2>1. CASE EndWith(a, "401")
    BY <1>1, <1>3, <2>1 DEF VerifyBearer
  <2>2. CASE ~EndWith(a, "401")
    <3>1. /\ pc'[a] = IF req[a].kind = "patch" THEN "authorize" ELSE "find_profile"
          /\ UNCHANGED <<req, work>> /\ req[a] \in SignIn \cup Patch
      BY <1>0, <1>3, <2>2 DEF VerifyBearer, TypeOK, Goto, RequestAt
    <3>2. req[a].kind = "patch" <=> req[a] \in Patch
      BY <3>1 DEF SignIn, Patch
    <3> QED BY <1>0, <1>3, <3>1, <3>2 DEF RequestAt, VerifyBearer
  <2> QED BY <2>1, <2>2
<1>4. CASE FindProfile(a) \/ PatchProfile(a)
  <2>1. CASE EndWith(a, "404")
    BY <1>1, <1>4, <2>1 DEF FindProfile, PatchProfile
  <2>2. CASE ~EndWith(a, "404")
    <3>1. work'[a].at = work[a].at
      BY <1>0, <1>4, <2>2 DEF FindProfile, PatchProfile, TypeOK, Work
    <3>2. /\ req' = req
          /\ \/ pc[a] = "find_profile" /\ pc'[a] = "save_profile"
             \/ pc[a] = "patch_profile" /\ pc'[a] = "save_flag"
      BY <1>0, <1>4, <2>2 DEF FindProfile, PatchProfile, TypeOK, Goto
    <3> QED BY <1>0, <3>1, <3>2 DEF RequestAt
  <2> QED BY <2>1, <2>2
<1>5. CASE SaveProfile(a) \/ RequireScope(a)
  <2>1. CASE \E how : EndWith(a, how)
    BY <1>1, <1>5, <2>1 DEF SaveProfile, RequireScope
  <2>2. CASE ~\E how : EndWith(a, how)
    <3>1. /\ UNCHANGED <<req, work>>
          /\ \/ pc[a] = "save_profile" /\ pc'[a] = "resolve"
             \/ pc[a] = "authorize" /\ pc'[a] = "patch_profile"
      BY <1>0, <1>5, <2>2 DEF SaveProfile, RequireScope, TypeOK, Goto
    <3> QED BY <1>0, <3>1 DEF RequestAt
  <2> QED BY <2>1, <2>2
<1>6. CASE Resolve(a)
  <2>1. CASE \E how : EndWith(a, how)
    BY <1>1, <1>6, <2>1 DEF Resolve
  <2>2. CASE ~\E how : EndWith(a, how)
    <3>1. /\ UNCHANGED <<req, work>> /\ req[a] \in SignIn /\ pc'[a] = "insert_principal"
      BY <1>0, <1>6, <2>2 DEF Resolve, TypeOK, Goto, RequestAt
    <3>2. req[a].kind # "boot"
      BY <3>1 DEF SignIn
    <3> QED BY <1>0, <1>6, <3>1, <3>2 DEF RequestAt, Resolve
  <2> QED BY <2>1, <2>2
<1>7. CASE InsertPrincipal(a)
  <2>1. CASE \E how : EndWith(a, how)
    BY <1>1, <1>7, <2>1 DEF InsertPrincipal
  <2>2. CASE ~\E how : EndWith(a, how)
    <3>1. /\ UNCHANGED <<req, work>> /\ pc[a] = "insert_principal"
          /\ pc'[a] = IF req[a].kind = "boot" THEN "read_roles" ELSE "grant_default"
      BY <1>0, <1>7, <2>2 DEF InsertPrincipal, TypeOK, Goto
    <3>2. req[a] \in SignIn \cup Boot /\ (req[a].kind = "boot" <=> req[a] \in Boot)
      BY <1>0, <3>1 DEF RequestAt, SignIn, Boot
    <3> QED BY <1>0, <3>1, <3>2 DEF RequestAt, Declaration
  <2> QED BY <2>1, <2>2
<1>8. CASE GrantDefault(a) \/ SaveFlag(a) \/ Commit(a)
  <2>1. req' = req /\ pc'[a] = "done" /\ work'[a] = NoWork
    BY <1>0, <1>8 DEF GrantDefault, SaveFlag, Commit, TypeOK, Goto
  <2>2. pc[a] # "idle"
    BY <1>8 DEF GrantDefault, SaveFlag, Commit
  <2> QED BY <1>0, <2>1, <2>2 DEF RequestAt, NoWork
<1>9. CASE FindPrincipal(a)
  <2>1. CASE \E how : EndWith(a, how)
    BY <1>1, <1>9, <2>1 DEF FindPrincipal
  <2>2. CASE ~\E how : EndWith(a, how)
    <3>0. pc[a] = "find_principal" /\ req[a] \in Boot /\ req' = req
          /\ Declaration(a) \in Seq(Entry)
          /\ work[a].at \in Nat
      BY <1>0, <1>9 DEF FindPrincipal, RequestAt, Boot, Declaration, Work
    <3>1. CASE pc'[a] = "sweep"
      <4>1. work'[a].at = work[a].at
        <5>1. ~(/\ ~((Declaration(a) = <<>> \/ PlanOf[plan].machine_issuer) /\ AfterEntries(a))
                /\ ~(Declaration(a) # <<>> /\ ~PlanOf[plan].machine_issuer))
          BY <1>0, <1>9, <3>1 DEF FindPrincipal, TypeOK, Goto
        <5>2. PICK S : work' = [work EXCEPT ![a].todo = S]
          BY <1>9, <2>2, <5>1 DEF FindPrincipal
        <5> QED BY <1>0, <5>2 DEF TypeOK, Work
      <4> QED BY <1>0, <3>0, <3>1, <4>1 DEF RequestAt
    <3>2. CASE pc'[a] # "sweep"
      <4>1. ~(Declaration(a) # <<>> /\ ~PlanOf[plan].machine_issuer)
        BY <1>9, <2>2 DEF FindPrincipal
      <4>2. ~AfterEntries(a)
        BY <1>0, <1>9, <3>2, <4>1 DEF FindPrincipal, TypeOK, Goto
      <4>3. work[a].at \in DOMAIN Declaration(a)
        BY <1>0, <3>0, <4>2 DEF AfterEntries, RequestAt
      <4>4. \/ work' = work /\ pc'[a] \in {"read_roles", "insert_principal"}
            \/ work' = [work EXCEPT ![a].at = @ + 1] /\ pc' = pc /\ pc[a] = "find_principal"
        BY <1>0, <1>9, <4>1, <4>2 DEF FindPrincipal, TypeOK, Goto
      <4>5. CASE work' = work /\ pc'[a] \in {"read_roles", "insert_principal"}
        BY <1>0, <3>0, <4>3, <4>5 DEF RequestAt, Declaration
      <4>6. CASE work' = [work EXCEPT ![a].at = @ + 1] /\ pc' = pc /\ pc[a] = "find_principal"
        <5>1. work'[a].at = work[a].at + 1
          BY <1>0, <4>6 DEF TypeOK, Work
        <5> QED BY <1>0, <3>0, <4>6, <5>1 DEF RequestAt
      <4> QED BY <4>4, <4>5, <4>6
    <3> QED BY <3>1, <3>2
  <2> QED BY <2>1, <2>2
<1>10. CASE ReadRoles(a) \/ EndGrants(a) \/ Sweep(a) \/ EndSweep(a)
  <2>1. work'[a].at = work[a].at
    <3>1. CASE ReadRoles(a) \/ Sweep(a)
      <4>1. PICK S, R : \/ work' = [work EXCEPT ![a].missing = S, ![a].stale = R]
                        \/ work' = [work EXCEPT ![a].todo = S, ![a].stale = R]
        <5>1. CASE ReadRoles(a)
          BY <5>1 DEF ReadRoles
        <5>2. CASE Sweep(a)
          <6>1. PICK m : work' = [work EXCEPT ![a].todo = work[a].todo \ {m},
                                             ![a].stale = Mine(RolesSeen(a, m))]
            BY <1>0, <5>2 DEF Sweep, TypeOK
          <6> QED BY <6>1
        <5> QED BY <3>1, <5>1, <5>2
      <4> QED BY <1>0, <4>1 DEF TypeOK, Work
    <3>2. CASE EndGrants(a) \/ EndSweep(a)
      BY <3>2 DEF EndGrants, EndSweep
    <3> QED BY <1>10, <3>1, <3>2
  <2>2. /\ req' = req
        /\ \/ pc[a] = "read_roles" /\ pc'[a] = "grant"
           \/ pc[a] \in {"grant", "sweep"} /\ pc'[a] = "revoke"
           \/ pc[a] = "sweep" /\ pc'[a] = "commit"
    BY <1>0, <1>10 DEF ReadRoles, EndGrants, Sweep, EndSweep, TypeOK, Goto
  <2> QED BY <1>0, <2>1, <2>2 DEF RequestAt, Declaration
<1>11. CASE Grant(a) \/ Revoke(a)
  <2>1. CASE \E how : EndWith(a, how)
    BY <1>1, <1>11, <2>1 DEF Grant, Revoke
  <2>2. CASE ~\E how : EndWith(a, how)
    <3>1. UNCHANGED <<req, pc>>
      BY <1>11, <2>2 DEF Grant, Revoke
    <3>2. PICK S : work' = [work EXCEPT ![a].missing = S] \/ work' = [work EXCEPT ![a].stale = S]
      <4>1. CASE Grant(a)
        <5>1. PICK role \in work[a].missing : work' = [work EXCEPT ![a].missing = @ \ {role}]
          BY <2>2, <4>1 DEF Grant
        <5>2. work' = [work EXCEPT ![a].missing = work[a].missing \ {role}]
          BY <1>0, <5>1 DEF TypeOK
        <5> QED BY <5>2
      <4>2. CASE Revoke(a)
        <5>1. PICK s \in work[a].stale : work' = [work EXCEPT ![a].stale = @ \ {s}]
          BY <4>2 DEF Revoke
        <5>2. work' = [work EXCEPT ![a].stale = work[a].stale \ {s}]
          BY <1>0, <5>1 DEF TypeOK
        <5> QED BY <5>2
      <4> QED BY <1>11, <4>1, <4>2
    <3>3. work'[a].at = work[a].at
      BY <1>0, <3>2 DEF TypeOK, Work
    <3> QED BY <1>0, <3>1, <3>3 DEF RequestAt, Declaration
  <2> QED BY <2>1, <2>2
<1>12. CASE EndRevokes(a)
  <2>1. /\ req' = req /\ pc[a] = "revoke" /\ pc'[a] \in {"sweep", "find_principal"}
        /\ work' = work \/ work' = [work EXCEPT ![a].at = @ + 1]
    BY <1>0, <1>12 DEF EndRevokes, TypeOK, Goto
  <2>2. work'[a].at # 0
    <3>1. CASE work' = work
      BY <1>0, <3>1 DEF RequestAt
    <3>2. CASE work' = [work EXCEPT ![a].at = @ + 1]
      BY <1>0, <3>2 DEF TypeOK, Work
    <3> QED BY <2>1, <3>1, <3>2
  <2> QED BY <1>0, <2>1, <2>2 DEF RequestAt
<1>13. CASE BreakDeadlock(a) \/ Crash(a)
  <2>1. pc[a] # "idle"
    BY <1>13, StepRuns
  <2> QED BY <1>1, <1>13, <2>1 DEF BreakDeadlock, Crash
<1> QED
  BY <1>2, <1>3, <1>4, <1>5, <1>6, <1>7, <1>8, <1>9, <1>10, <1>11, <1>12, <1>13
     DEF Moves, Step

LEMMA ITypeStep == IType /\ [Next]_vars => IType'
<1> SUFFICES ASSUME IType, [Next]_vars PROVE IType'
  OBVIOUS
<1>1. ASSUME NEW a \in Actors, Moves(a) PROVE IType'
  <2>1. TypeOK' /\ RequestAt(a)'
    BY <1>1, TypeStep, MoverRequest
  <2>2. ASSUME NEW b \in Actors \ {a} PROVE RequestAt(b)'
    BY <1>1, OthersUntouched DEF IType, RequestAt, Declaration
  <2> QED BY <2>1, <2>2 DEF IType
<1>2. ASSUME NEW g \in HandGrants, HandGrant(g) PROVE IType'
  <2>1. [who |-> g.who, role |-> g.role, by |-> "hand"] \in RoleRow
    BY <1>2, HandGrantsAssumption DEF RoleRow
  <2>2. TypeOK'
    BY <1>2, <2>1 DEF IType, TypeOK, HandGrant
  <2>3. \A b \in Actors : RequestAt(b)'
    BY <1>2 DEF IType, HandGrant, RequestAt, Declaration
  <2> QED BY <2>2, <2>3 DEF IType
<1>3. CASE UNCHANGED vars
  BY <1>3 DEF vars, db, IType, TypeOK, RequestAt, Declaration
<1> QED BY <1>1, <1>2, <1>3 DEF Next, Quiet, Moves

LEMMA ITypeInit == Init => IType
<1> SUFFICES ASSUME Init PROVE IType
  OBVIOUS
<1>1. TypeOK
  BY NoTxnType, NoWorkType, ConstantsAssumption DEF Init, TypeOK, Label, RoleRow
<1>2. \A a \in Actors : RequestAt(a)
  BY DEF Init, RequestAt, NoWork
<1> QED BY <1>1, <1>2 DEF IType

(* Type correctness, for any sign-ins, patches, boots and hand grants.     *)
THEOREM TypeCorrect == Spec => []TypeOK
<1>1. IType => TypeOK
  BY DEF IType
<1> QED BY <1>1, ITypeInit, ITypeStep, PTL DEF Spec

-----------------------------------------------------------------------------
(***************************************************************************)
(* What a transaction holds, and that nobody else holds or has committed   *)
(* it: the inserts wait for each other on the unique keys.                 *)
(***************************************************************************)
NotYet == {"idle", "verify", "find_profile", "save_profile", "resolve", "authorize",
           "patch_profile", "save_flag", "done"}

HoldsOnly(a) ==
    /\ pc[a] \in NotYet \/ (pc[a] = "insert_principal" /\ req[a] \in SignIn) => txn[a] = NoTxn
    /\ pc[a] = "grant_default" => txn[a].principals = {req[a].who}
    /\ pc[a] # "grant_default" => txn[a].principals \subseteq Machines
    /\ \A r \in txn[a].added : r.who \in Machines /\ r.by = Registry
    /\ \A r \in txn[a].removed : r.who \in Machines
    /\ \A s \in work[a].stale : s.who \in Machines /\ s.by = Registry

Exclusive ==
    /\ \A a \in Actors : txn[a].principals \cap principals = {}
    /\ \A a, b \in Actors : a # b => /\ txn[a].principals \cap txn[b].principals = {}
                                     /\ KeysHeld(a) \cap KeysHeld(b) = {}
    /\ \A a \in Actors : \A r \in txn[a].added, q \in roles : Key(q) = Key(r) => q \in txn[a].removed
    /\ \A q, r \in roles : Key(q) = Key(r) => q = r
    /\ \A r \in roles : r.who \in People => r.who \in principals

IHeld == IType /\ (\A a \in Actors : HoldsOnly(a)) /\ Exclusive

(***************************************************************************)
(* The ways a step leaves the actor's transaction and stale grants.        *)
(***************************************************************************)
Keeps(a) ==
    /\ txn'[a] = txn[a] /\ UNCHANGED <<principals, roles>>
    /\ pc[a] # "grant_default" /\ pc'[a] # "grant_default"
    /\ pc'[a] \in NotYet => pc[a] \in NotYet
    /\ pc'[a] = "insert_principal" /\ req'[a] \in SignIn => pc[a] \in NotYet
    /\ \A s \in work'[a].stale :
          \/ s \in work[a].stale
          \/ s \in (roles \ txn[a].removed) \cup txn[a].added /\ s.who \in Machines /\ s.by = Registry

Inserts(a) ==
    /\ pc[a] = "insert_principal" /\ UNCHANGED <<db, req, work>>
    /\ Subject(a) \notin principals
    /\ \A b \in Others(a) : Subject(a) \notin txn[b].principals
    /\ txn'[a] = [txn[a] EXCEPT !.principals = txn[a].principals \cup {Subject(a)}]
    /\ \/ req[a] \in SignIn /\ Subject(a) = req[a].who /\ pc'[a] = "grant_default"
       \/ req[a] \in Boot /\ Subject(a) \in Machines /\ pc'[a] = "read_roles"

Grants(a, m, role) ==
    /\ pc[a] = "grant" /\ UNCHANGED <<db, req, pc>>
    /\ m \in Machines /\ role \in work[a].missing
    /\ BlockedFor(a, <<m, role>>) = {}
    /\ ~\E r \in roles \ txn[a].removed : Key(r) = <<m, role>>
    /\ txn'[a] = [txn[a] EXCEPT !.added =
                     txn[a].added \cup {[who |-> m, role |-> role, by |-> Registry]}]
    /\ work'[a] = [work[a] EXCEPT !.missing = work[a].missing \ {role}]

Revokes(a, s) ==
    /\ pc[a] = "revoke" /\ UNCHANGED <<db, req, pc>>
    /\ s \in work[a].stale /\ BlockedFor(a, Key(s)) = {}
    /\ txn'[a] = [txn[a] EXCEPT !.removed = txn[a].removed \cup {r \in roles : Key(r) = Key(s)}]
    /\ work'[a] = [work[a] EXCEPT !.stale = work[a].stale \ {s}]

LEMMA StepCases ==
    ASSUME IType, NEW a \in Actors, Moves(a)
    PROVE  \/ Ended(a) /\ pc[a] # "idle" /\ UNCHANGED db
           \/ Keeps(a)
           \/ Inserts(a)
           \/ \E m, role : Grants(a, m, role)
           \/ \E s : Revokes(a, s)
           \/ GrantDefault(a) \/ SaveFlag(a) \/ Commit(a)
<1>0. TypeOK /\ RequestAt(a) /\ txn[a] \in Txn /\ work[a] \in Work
  BY DEF IType, TypeOK
<1>1. ASSUME NEW how, EndWith(a, how), pc[a] # "idle"
      PROVE  Ended(a) /\ pc[a] # "idle" /\ UNCHANGED db
  BY <1>0, <1>1, EndEnds
<1>2. CASE Begin(a)
  <2>1. PICK r : req' = [req EXCEPT ![a] = r] /\ Goto(a, EntryOf(r))
    BY <1>2 DEF Begin
  <2>2. pc'[a] \in {"verify", "find_principal"}
    BY <1>0, <2>1 DEF TypeOK, Goto, EntryOf
  <2> QED BY <1>2, <2>2 DEF Begin, Keeps, NotYet, db
<1>3. CASE VerifyBearer(a) \/ RequireScope(a) \/ SaveProfile(a) \/ Resolve(a)
  <2>1. CASE \E how : EndWith(a, how)
    BY <1>1, <1>3, <2>1 DEF VerifyBearer, RequireScope, SaveProfile, Resolve
  <2>2. CASE ~\E how : EndWith(a, how)
    <3>1. /\ UNCHANGED <<req, txn, work, principals, roles>> /\ pc[a] \in NotYet
          /\ pc'[a] \in {"authorize", "find_profile", "patch_profile", "resolve",
                         "insert_principal"}
      BY <1>0, <1>3, <2>2
         DEF VerifyBearer, RequireScope, SaveProfile, Resolve, TypeOK, Goto, NotYet, db
    <3> QED BY <3>1 DEF Keeps, NotYet
  <2> QED BY <2>1, <2>2
<1>4. CASE FindProfile(a) \/ PatchProfile(a)
  <2>1. CASE \E how : EndWith(a, how)
    BY <1>1, <1>4, <2>1 DEF FindProfile, PatchProfile
  <2>2. CASE ~\E how : EndWith(a, how)
    <3>1. /\ UNCHANGED <<req, txn, principals, roles>> /\ pc[a] \in NotYet
          /\ pc'[a] \in {"save_profile", "save_flag"}
      BY <1>0, <1>4, <2>2 DEF FindProfile, PatchProfile, TypeOK, Goto, NotYet, db
    <3>2. work'[a].stale = work[a].stale
      BY <1>0, <1>4, <2>2 DEF FindProfile, PatchProfile, TypeOK, Work
    <3> QED BY <3>1, <3>2 DEF Keeps, NotYet
  <2> QED BY <2>1, <2>2
<1>5. CASE InsertPrincipal(a)
  <2>1. CASE \E how : EndWith(a, how)
    BY <1>1, <1>5, <2>1 DEF InsertPrincipal
  <2>2. CASE ~\E how : EndWith(a, how)
    <3>1. /\ pc[a] = "insert_principal" /\ BlockedBy(a) = {} /\ Subject(a) \notin principals
          /\ txn'[a] = [txn[a] EXCEPT !.principals = txn[a].principals \cup {Subject(a)}]
          /\ pc'[a] = IF req[a].kind = "boot" THEN "read_roles" ELSE "grant_default"
          /\ UNCHANGED <<db, req, work>>
      BY <1>0, <1>5, <2>2 DEF InsertPrincipal, TypeOK, Goto
    <3>2. \A b \in Others(a) : Subject(a) \notin txn[b].principals
      BY <3>1 DEF BlockedBy
    <3>3. CASE req[a] \in SignIn
      BY <3>1, <3>2, <3>3 DEF Inserts, SignIn, Subject
    <3>4. CASE req[a] \in Boot
      <4>1. req[a].kind = "boot"
        BY <3>4 DEF Boot
      <4>2. Subject(a) \in Machines
        BY <1>0, <3>1, <3>4, <4>1, WantedType DEF Subject, RequestAt
      <4> QED BY <3>1, <3>2, <3>4, <4>1, <4>2 DEF Inserts
    <3> QED BY <1>0, <3>1, <3>3, <3>4 DEF RequestAt
  <2> QED BY <2>1, <2>2
<1>6. CASE FindPrincipal(a)
  <2>1. CASE \E how : EndWith(a, how)
    BY <1>1, <1>6, <2>1 DEF FindPrincipal
  <2>2. CASE ~\E how : EndWith(a, how)
    <3>1. /\ pc[a] = "find_principal" /\ req[a] \in Boot
          /\ UNCHANGED <<db, req, txn>>
          /\ pc'[a] \in {"find_principal", "sweep", "read_roles", "insert_principal"}
      BY <1>0, <1>6, <2>2 DEF FindPrincipal, TypeOK, Goto, RequestAt
    <3>2. PICK n, S : work' = work \/ work' = [work EXCEPT ![a].at = n]
                      \/ work' = [work EXCEPT ![a].todo = S]
      <4>1. \/ work' = work
            \/ work' = [work EXCEPT ![a].at = @ + 1]
            \/ \E S : work' = [work EXCEPT ![a].todo = S]
        BY <1>6, <2>2 DEF FindPrincipal
      <4>2. [work EXCEPT ![a].at = @ + 1] = [work EXCEPT ![a].at = work[a].at + 1]
        BY <1>0 DEF TypeOK
      <4> QED BY <4>1, <4>2
    <3>3. work'[a].stale = work[a].stale
      BY <1>0, <3>2 DEF TypeOK, Work
    <3>4. req'[a] \notin SignIn
      BY <3>1 DEF Boot, SignIn
    <3> QED BY <3>1, <3>3, <3>4 DEF Keeps, NotYet, db
  <2> QED BY <2>1, <2>2
<1>7. CASE ReadRoles(a) \/ Sweep(a)
  <2>1. /\ UNCHANGED <<db, req, txn>> /\ pc[a] \in {"read_roles", "sweep"}
        /\ pc'[a] \in {"grant", "revoke"}
    BY <1>0, <1>7 DEF ReadRoles, Sweep, TypeOK, Goto
  <2>2. PICK m \in Machines : \E S :
           \/ work' = [work EXCEPT ![a].missing = S,
                                   ![a].stale = Mine(RolesSeen(a, m))]
           \/ work' = [work EXCEPT ![a].todo = S,
                                   ![a].stale = Mine(RolesSeen(a, m))]
           \/ \E W : work' = [work EXCEPT ![a].missing = S,
                 ![a].stale = {r \in Mine(RolesSeen(a, m)) : r.role \notin W}]
    <3>1. CASE ReadRoles(a)
      <4>1. Wanted(a).name \in Machines
        BY <1>0, <3>1, WantedType DEF ReadRoles, RequestAt
      <4> QED BY <3>1, <4>1 DEF ReadRoles
    <3>2. CASE Sweep(a)
      <4>1. PICK m \in work[a].todo :
               work' = [work EXCEPT ![a].todo = work[a].todo \ {m},
                                    ![a].stale = Mine(RolesSeen(a, m))]
        BY <1>0, <3>2 DEF Sweep, TypeOK
      <4>2. m \in Machines
        BY <1>0 DEF Work
      <4> QED BY <4>1, <4>2
    <3> QED BY <1>7, <3>1, <3>2
  <2>3. work'[a].stale \subseteq Mine(RolesSeen(a, m))
    BY <1>0, <2>2 DEF TypeOK, Work
  <2> QED BY <2>1, <2>3 DEF Keeps, NotYet, db, Mine, RolesSeen
<1>8. CASE Grant(a)
  <2>1. CASE \E how : EndWith(a, how)
    BY <1>1, <1>8, <2>1 DEF Grant
  <2>2. CASE ~\E how : EndWith(a, how)
    <3>1. Wanted(a).name \in Machines
      BY <1>0, <1>8, WantedType DEF Grant, RequestAt
    <3>2. PICK m \in Machines, role \in work[a].missing :
             /\ BlockedFor(a, <<m, role>>) = {}
             /\ ~\E r \in roles \ txn[a].removed : Key(r) = <<m, role>>
             /\ txn' = [txn EXCEPT ![a].added = @ \cup
                           {[who |-> m, role |-> role, by |-> Registry]}]
             /\ work' = [work EXCEPT ![a].missing = @ \ {role}]
             /\ UNCHANGED <<db, req, pc, answer, alone>>
      BY <1>8, <2>2, <3>1 DEF Grant
    <3>3. /\ txn'[a] = [txn[a] EXCEPT !.added =
                           txn[a].added \cup {[who |-> m, role |-> role, by |-> Registry]}]
          /\ work'[a] = [work[a] EXCEPT !.missing = work[a].missing \ {role}]
      BY <1>0, <3>2 DEF TypeOK
    <3> QED BY <1>8, <3>2, <3>3 DEF Grants, Grant
  <2> QED BY <2>1, <2>2
<1>9. CASE Revoke(a)
  <2>1. PICK s \in work[a].stale :
           /\ BlockedFor(a, Key(s)) = {}
           /\ txn' = [txn EXCEPT ![a].removed = @ \cup {r \in roles : Key(r) = Key(s)}]
           /\ work' = [work EXCEPT ![a].stale = @ \ {s}]
    BY <1>9 DEF Revoke
  <2>2. /\ txn'[a] = [txn[a] EXCEPT !.removed =
                         txn[a].removed \cup {r \in roles : Key(r) = Key(s)}]
        /\ work'[a] = [work[a] EXCEPT !.stale = work[a].stale \ {s}]
    BY <1>0, <2>1 DEF TypeOK
  <2> QED BY <1>9, <2>1, <2>2 DEF Revokes, Revoke
<1>10. CASE EndGrants(a) \/ EndRevokes(a) \/ EndSweep(a)
  <2>1. /\ UNCHANGED <<db, req, txn>> /\ pc[a] \in {"grant", "revoke", "sweep"}
        /\ pc'[a] \in {"revoke", "sweep", "find_principal", "commit"}
        /\ work' = work \/ work' = [work EXCEPT ![a].at = @ + 1]
    BY <1>0, <1>10 DEF EndGrants, EndRevokes, EndSweep, TypeOK, Goto
  <2>2. work'[a].stale = work[a].stale
    <3>1. CASE work' = work
      BY <3>1
    <3>2. CASE work' = [work EXCEPT ![a].at = @ + 1]
      BY <1>0, <3>2 DEF TypeOK, Work
    <3> QED BY <2>1, <3>1, <3>2
  <2> QED BY <2>1, <2>2 DEF Keeps, NotYet, db
<1>11. CASE BreakDeadlock(a) \/ Crash(a)
  <2>1. pc[a] # "idle"
    BY <1>11, StepRuns
  <2> QED BY <1>1, <1>11, <2>1 DEF BreakDeadlock, Crash
<1> QED
  BY <1>2, <1>3, <1>4, <1>5, <1>6, <1>7, <1>8, <1>9, <1>10, <1>11 DEF Moves, Step

LEMMA HoldsMover ==
    ASSUME IHeld, NEW a \in Actors, Moves(a)
    PROVE  HoldsOnly(a)'
<1>0. TypeOK /\ IType /\ HoldsOnly(a) /\ txn[a] \in Txn /\ work[a] \in Work
  BY DEF IHeld, IType, TypeOK
<1>1. ASSUME pc'[a] = "done", txn'[a] = NoTxn, work'[a] = NoWork PROVE HoldsOnly(a)'
  BY <1>1 DEF HoldsOnly, NoTxn, NoWork
<1>2. CASE Keeps(a)
  BY <1>0, <1>2 DEF Keeps, HoldsOnly
<1>3. CASE Inserts(a)
  <2>1. /\ txn'[a].principals = txn[a].principals \cup {Subject(a)}
        /\ txn'[a].added = txn[a].added /\ txn'[a].removed = txn[a].removed
        /\ work'[a] = work[a] /\ req' = req
    BY <1>0, <1>3 DEF Inserts, Txn
  <2>2. CASE req[a] \in SignIn /\ Subject(a) = req[a].who /\ pc'[a] = "grant_default"
    <3>1. txn[a].principals = {}
      BY <1>0, <1>3, <2>2 DEF Inserts, HoldsOnly, NoTxn
    <3> QED BY <1>0, <2>1, <2>2, <3>1 DEF HoldsOnly, NotYet
  <2>3. CASE req[a] \in Boot /\ Subject(a) \in Machines /\ pc'[a] = "read_roles"
    <3>1. pc[a] # "grant_default"
      BY <1>3 DEF Inserts
    <3> QED BY <1>0, <2>1, <2>3, <3>1 DEF HoldsOnly, NotYet
  <2> QED BY <1>3, <2>2, <2>3 DEF Inserts
<1>4. ASSUME NEW m, NEW role, Grants(a, m, role) PROVE HoldsOnly(a)'
  <2>1. /\ txn'[a].added = txn[a].added \cup {[who |-> m, role |-> role, by |-> Registry]}
        /\ txn'[a].principals = txn[a].principals /\ txn'[a].removed = txn[a].removed
        /\ work'[a].stale = work[a].stale /\ pc' = pc /\ pc[a] = "grant" /\ m \in Machines
    BY <1>0, <1>4 DEF Grants, Txn, Work
  <2> QED BY <1>0, <2>1 DEF HoldsOnly, NotYet
<1>5. ASSUME NEW s, Revokes(a, s) PROVE HoldsOnly(a)'
  <2>1. /\ txn'[a].removed = txn[a].removed \cup {r \in roles : Key(r) = Key(s)}
        /\ txn'[a].principals = txn[a].principals /\ txn'[a].added = txn[a].added
        /\ work'[a].stale = work[a].stale \ {s} /\ pc' = pc /\ pc[a] = "revoke"
        /\ s \in work[a].stale
    BY <1>0, <1>5 DEF Revokes, Txn, Work
  <2>2. \A r \in roles : Key(r) = Key(s) => r.who \in Machines
    BY <1>0, <2>1 DEF HoldsOnly, Key
  <2> QED BY <1>0, <2>1, <2>2 DEF HoldsOnly, NotYet
<1>6. CASE Ended(a) \/ GrantDefault(a) \/ Commit(a)
  BY <1>0, <1>1, <1>6 DEF Ended, GrantDefault, Commit, TypeOK, Goto
<1>7. CASE SaveFlag(a)
  <2>1. pc'[a] = "done" /\ txn'[a] = txn[a] /\ work'[a] = NoWork /\ txn[a] = NoTxn
    BY <1>0, <1>7 DEF SaveFlag, TypeOK, Goto, HoldsOnly, NotYet
  <2> QED BY <1>1, <2>1
<1> QED BY <1>0, <1>2, <1>3, <1>4, <1>5, <1>6, <1>7, StepCases

(* Exclusive, for an actor that goes on or ends without committing.        *)
LEMMA ExclusiveHolds ==
    ASSUME IHeld, IType', NEW a \in Actors, Moves(a), UNCHANGED <<principals, roles>>,
           txn'[a].principals \cap principals = {},
           \A b \in Others(a) : txn'[a].principals \cap txn[b].principals = {},
           \A b \in Others(a) : KeysHeld(a)' \cap KeysHeld(b) = {},
           \A r \in txn'[a].added, q \in roles : Key(q) = Key(r) => q \in txn'[a].removed
    PROVE  Exclusive'
<1>1. \A b \in Actors \ {a} : txn'[b] = txn[b]
  BY OthersUntouched DEF IHeld, IType
<1>2. \A b \in Actors \ {a} : KeysHeld(b)' = KeysHeld(b)
  BY <1>1 DEF KeysHeld, Key
<1>3. \A b, c \in Actors : b # c => /\ txn'[b].principals \cap txn'[c].principals = {}
                                    /\ KeysHeld(b)' \cap KeysHeld(c)' = {}
  BY <1>1, <1>2 DEF IHeld, Exclusive, Others
<1> QED BY <1>1, <1>3 DEF IHeld, Exclusive, Key

LEMMA ExclusiveStep ==
    ASSUME IHeld, IType', NEW a \in Actors, Moves(a)
    PROVE  Exclusive'
<1>0. TypeOK /\ IType /\ HoldsOnly(a) /\ Exclusive /\ txn[a] \in Txn /\ work[a] \in Work
  BY DEF IHeld, IType, TypeOK
<1>1. \A b \in Actors \ {a} : txn'[b] = txn[b]
  BY <1>0, OthersUntouched
<1>2. \A b \in Actors \ {a} : KeysHeld(b)' = KeysHeld(b)
  BY <1>1 DEF KeysHeld, Key
<1>3. ASSUME UNCHANGED <<principals, roles>>, txn'[a] = txn[a] \/ txn'[a] = NoTxn
      PROVE  Exclusive'
  <2>1. KeysHeld(a)' = KeysHeld(a) \/ KeysHeld(a)' = {}
    BY <1>3 DEF KeysHeld, NoTxn, Key
  <2>2. txn'[a].principals = txn[a].principals \/ txn'[a].principals = {}
    BY <1>3 DEF NoTxn
  <2>3. /\ txn'[a].added = txn[a].added /\ txn'[a].removed = txn[a].removed
        \/ txn'[a].added = {}
    BY <1>3 DEF NoTxn
  <2> QED BY <1>0, <1>3, <2>1, <2>2, <2>3, ExclusiveHolds DEF Exclusive, Others
<1>4. CASE Ended(a) /\ UNCHANGED db
  BY <1>3, <1>4 DEF Ended, db
<1>5. CASE Keeps(a)
  BY <1>3, <1>5 DEF Keeps
<1>6. CASE Inserts(a)
  <2>1. /\ txn'[a].principals = txn[a].principals \cup {Subject(a)}
        /\ txn'[a].added = txn[a].added /\ txn'[a].removed = txn[a].removed
        /\ UNCHANGED <<principals, roles>>
    BY <1>0, <1>6 DEF Inserts, Txn, db
  <2>2. KeysHeld(a)' = KeysHeld(a)
    BY <2>1 DEF KeysHeld, Key
  <2>3. Subject(a) \notin principals /\ \A b \in Others(a) : Subject(a) \notin txn[b].principals
    BY <1>6 DEF Inserts
  <2>4. txn'[a].principals \cap principals = {}
    BY <1>0, <2>1, <2>3 DEF Exclusive
  <2>5. \A b \in Others(a) : /\ txn'[a].principals \cap txn[b].principals = {}
                            /\ KeysHeld(a)' \cap KeysHeld(b) = {}
    BY <1>0, <2>1, <2>2, <2>3 DEF Exclusive, Others
  <2>6. \A r \in txn'[a].added, q \in roles : Key(q) = Key(r) => q \in txn'[a].removed
    BY <1>0, <2>1 DEF Exclusive
  <2> QED BY <2>1, <2>4, <2>5, <2>6, ExclusiveHolds
<1>7. ASSUME NEW m, NEW role, Grants(a, m, role) PROVE Exclusive'
  <2> DEFINE row == [who |-> m, role |-> role, by |-> Registry]
  <2>1. /\ txn'[a].added = txn[a].added \cup {row}
        /\ txn'[a].principals = txn[a].principals /\ txn'[a].removed = txn[a].removed
        /\ UNCHANGED <<principals, roles>>
    BY <1>0, <1>7 DEF Grants, Txn, db
  <2>2. Key(row) = <<m, role>>
    BY DEF Key
  <2>3. KeysHeld(a)' = KeysHeld(a) \cup {<<m, role>>}
    BY <2>1, <2>2 DEF KeysHeld, Key
  <2>4. \A b \in Others(a) : <<m, role>> \notin KeysHeld(b)
    BY <1>7 DEF Grants, BlockedFor
  <2>5. \A r \in txn'[a].added, q \in roles : Key(q) = Key(r) => q \in txn'[a].removed
    BY <1>0, <1>7, <2>1, <2>2 DEF Grants, Exclusive
  <2> QED BY <1>0, <2>1, <2>3, <2>4, <2>5, ExclusiveHolds DEF Exclusive, Others
<1>8. ASSUME NEW s, Revokes(a, s) PROVE Exclusive'
  <2>1. /\ txn'[a].removed = txn[a].removed \cup {r \in roles : Key(r) = Key(s)}
        /\ txn'[a].principals = txn[a].principals /\ txn'[a].added = txn[a].added
        /\ UNCHANGED <<principals, roles>>
    BY <1>0, <1>8 DEF Revokes, Txn, db
  <2>2. KeysHeld(a)' \subseteq KeysHeld(a) \cup {Key(s)}
    BY <2>1 DEF KeysHeld, Key
  <2>3. \A b \in Others(a) : Key(s) \notin KeysHeld(b)
    BY <1>8 DEF Revokes, BlockedFor
  <2> QED BY <1>0, <2>1, <2>2, <2>3, ExclusiveHolds DEF Exclusive, Others
<1>9. CASE SaveFlag(a)
  BY <1>0, <1>3, <1>9 DEF SaveFlag, TypeOK
<1>10. CASE GrantDefault(a)
  <2> DEFINE row == [who |-> req[a].who, role |-> DefaultRole(a), by |-> Provision]
  <2>1. /\ txn[a].principals = {req[a].who} /\ req[a].who \in People /\ txn'[a] = NoTxn
        /\ principals' = principals \cup {req[a].who} /\ roles' = roles \cup {row}
    BY <1>0, <1>10 DEF GrantDefault, HoldsOnly, IType, TypeOK, RequestAt, SignIn
  <2>2. \A q \in roles : Key(q) # Key(row)
    <3>1. req[a].who \notin principals
      BY <1>0, <2>1 DEF Exclusive
    <3> QED BY <1>0, <2>1, <3>1 DEF Exclusive, Key
  <2>3. \A b \in Others(a) : \A r \in txn[b].added : Key(row) # Key(r)
    BY <2>1, ConstantsAssumption DEF IHeld, HoldsOnly, Key, Others
  <2>4. KeysHeld(a)' = {} /\ txn'[a].principals = {} /\ txn'[a].added = {}
    BY <2>1 DEF KeysHeld, NoTxn
  <2>5. \A b \in Actors : txn'[b].principals \cap principals' = {}
    BY <1>0, <1>1, <2>1, <2>4 DEF Exclusive
  <2>6. \A b, c \in Actors : b # c => /\ txn'[b].principals \cap txn'[c].principals = {}
                                      /\ KeysHeld(b)' \cap KeysHeld(c)' = {}
    BY <1>0, <1>1, <1>2, <2>4 DEF Exclusive
  <2>7. \A b \in Actors : \A r \in txn'[b].added, q \in roles' :
           Key(q) = Key(r) => q \in txn'[b].removed
    BY <1>0, <1>1, <2>1, <2>3, <2>4 DEF Exclusive, Others
  <2>8. \A q, r \in roles' : Key(q) = Key(r) => q = r
    BY <1>0, <2>1, <2>2 DEF Exclusive
  <2>9. \A r \in roles' : r.who \in People => r.who \in principals'
    BY <1>0, <2>1 DEF Exclusive
  <2> QED BY <2>5, <2>6, <2>7, <2>8, <2>9 DEF Exclusive, Key
<1>11. CASE Commit(a)
  <2>1. /\ txn[a].principals \subseteq Machines /\ txn'[a] = NoTxn
        /\ principals' = principals \cup txn[a].principals
        /\ roles' = (roles \ txn[a].removed) \cup txn[a].added
    BY <1>0, <1>11 DEF Commit, HoldsOnly, TypeOK
  <2>2. KeysHeld(a)' = {} /\ txn'[a].principals = {} /\ txn'[a].added = {}
    BY <2>1 DEF KeysHeld, NoTxn
  <2>3. \A b \in Actors : txn'[b].principals \cap principals' = {}
    BY <1>0, <1>1, <2>1, <2>2 DEF Exclusive
  <2>4. \A b, c \in Actors : b # c => /\ txn'[b].principals \cap txn'[c].principals = {}
                                      /\ KeysHeld(b)' \cap KeysHeld(c)' = {}
    BY <1>0, <1>1, <1>2, <2>2 DEF Exclusive
  <2>5. ASSUME NEW b \in Actors, NEW r \in txn'[b].added, NEW q \in roles', Key(q) = Key(r)
        PROVE  q \in txn'[b].removed
    <3>1. b # a /\ r \in txn[b].added /\ txn'[b] = txn[b]
      BY <1>1, <2>2, <2>5
    <3>2. q \notin txn[a].added
      <4>1. Key(r) \in KeysHeld(b)
        BY <3>1 DEF KeysHeld
      <4> QED BY <1>0, <2>5, <3>1, <4>1 DEF Exclusive, KeysHeld
    <3> QED BY <1>0, <2>1, <2>5, <3>1, <3>2 DEF Exclusive
  <2>6. ASSUME NEW q \in roles', NEW r \in roles', Key(q) = Key(r) PROVE q = r
    <3>1. ASSUME NEW x \in txn[a].added, NEW y \in txn[a].added, Key(x) = Key(y) PROVE x = y
      BY <1>0, <3>1 DEF HoldsOnly, Key, Txn, RoleRow
    <3>2. ASSUME NEW x \in txn[a].added, NEW y \in roles \ txn[a].removed PROVE Key(x) # Key(y)
      BY <1>0, <3>2 DEF Exclusive
    <3>3. ASSUME NEW x \in roles, NEW y \in roles, Key(x) = Key(y) PROVE x = y
      BY <1>0, <3>3 DEF Exclusive
    <3> QED BY <2>1, <2>6, <3>1, <3>2, <3>3
  <2>7. \A r \in roles' : r.who \in People => r.who \in principals'
    BY <1>0, <2>1, ConstantsAssumption DEF Exclusive, HoldsOnly
  <2> QED BY <2>3, <2>4, <2>5, <2>6, <2>7 DEF Exclusive, Key
<1> QED BY <1>0, <1>4, <1>5, <1>6, <1>7, <1>8, <1>9, <1>10, <1>11, StepCases

LEMMA HandExclusive ==
    ASSUME IHeld, NEW g \in HandGrants, HandGrant(g)
    PROVE  Exclusive'
<1> DEFINE row == [who |-> g.who, role |-> g.role, by |-> "hand"]
<1>1. /\ roles' = roles \cup {row} /\ g.who \in principals /\ UNCHANGED <<principals, txn>>
      /\ Key(row) = <<g.who, g.role>>
  BY DEF HandGrant, Key
<1>2. \A r \in roles : Key(r) # Key(row)
  BY <1>1 DEF HandGrant
<1>3. \A b \in Actors : \A r \in txn[b].added : Key(r) # Key(row)
  BY <1>1 DEF HandGrant, KeysHeld
<1>4. \A b \in Actors : KeysHeld(b)' = KeysHeld(b)
  BY <1>1 DEF KeysHeld, Key
<1>5. \A b \in Actors : \A r \in txn'[b].added, q \in roles' :
         Key(q) = Key(r) => q \in txn'[b].removed
  BY <1>1, <1>3 DEF IHeld, Exclusive
<1>6. \A q, r \in roles' : Key(q) = Key(r) => q = r
  BY <1>1, <1>2 DEF IHeld, Exclusive
<1>7. \A r \in roles' : r.who \in People => r.who \in principals'
  BY <1>1 DEF IHeld, Exclusive
<1> QED BY <1>1, <1>4, <1>5, <1>6, <1>7 DEF IHeld, Exclusive, Key

LEMMA IHeldStep == IHeld /\ [Next]_vars => IHeld'
<1> SUFFICES ASSUME IHeld, [Next]_vars PROVE IHeld'
  OBVIOUS
<1>0. TypeOK /\ IType /\ IType'
  BY ITypeStep DEF IHeld, IType
<1>1. ASSUME NEW a \in Actors, Moves(a) PROVE IHeld'
  <2>1. ASSUME NEW b \in Actors \ {a} PROVE HoldsOnly(b)'
    <3>1. req'[b] = req[b] /\ pc'[b] = pc[b] /\ txn'[b] = txn[b] /\ work'[b] = work[b]
      BY <1>0, <1>1, OthersUntouched
    <3> QED BY <3>1 DEF IHeld, HoldsOnly
  <2> QED BY <1>0, <1>1, <2>1, HoldsMover, ExclusiveStep DEF IHeld
<1>2. ASSUME NEW g \in HandGrants, HandGrant(g) PROVE IHeld'
  <2>1. \A b \in Actors : HoldsOnly(b)'
    BY <1>2 DEF IHeld, HandGrant, HoldsOnly
  <2> QED BY <1>0, <1>2, <2>1, HandExclusive DEF IHeld
<1>3. CASE UNCHANGED vars
  <2>1. \A b \in Actors : HoldsOnly(b)' /\ KeysHeld(b)' = KeysHeld(b)
    BY <1>3 DEF vars, db, IHeld, HoldsOnly, KeysHeld, Key
  <2>2. Exclusive'
    BY <1>3, <2>1 DEF vars, db, IHeld, Exclusive, Key
  <2> QED BY <1>0, <2>1, <2>2 DEF IHeld
<1> QED BY <1>1, <1>2, <1>3 DEF Next, Quiet, Moves

LEMMA IHeldInit == Init => IHeld
<1> SUFFICES ASSUME Init PROVE IHeld
  OBVIOUS
<1>1. \A a \in Actors : HoldsOnly(a)
  BY DEF Init, HoldsOnly, NoTxn, NoWork
<1>2. Exclusive
  <2>1. \A q, r \in roles : Key(q) = Key(r) => q = r
    BY DEF Init, Key
  <2>2. \A r \in roles : r.who \in principals
    BY DEF Init
  <2>3. \A a \in Actors : KeysHeld(a) = {} /\ txn[a].principals = {} /\ txn[a].added = {}
    BY DEF Init, KeysHeld, NoTxn
  <2> QED BY <2>1, <2>2, <2>3 DEF Exclusive
<1> QED BY <1>1, <1>2, ITypeInit DEF IHeld

LEMMA IHeldInvariant == Spec => []IHeld
BY IHeldInit, IHeldStep, PTL DEF Spec


-----------------------------------------------------------------------------
(***************************************************************************)
(* A boot that nobody overlapped: nobody else is under way, so that the    *)
(* store it reads is the one it commits to, and by key it deletes the very *)
(* grants it read.                                                         *)
(***************************************************************************)
AloneHolds(a) ==
    /\ pc[a] = "idle" => a \notin alone /\ work[a].stale = {}
    /\ a \in alone /\ a \in InFlight => InFlight = {a} /\ work[a].stale \subseteq roles \cup txn[a].added
    /\ a \in alone => \A r \in txn[a].removed : r.by = Registry

IAlone == IHeld /\ \A a \in Actors : AloneHolds(a)

(* Only the beginning of another actor, or a grant by hand, overlaps one.  *)
LEMMA AloneMoves ==
    ASSUME IType, NEW a \in Actors, Moves(a)
    PROVE  \/ Begin(a)
           \/ alone' = alone /\ a \in InFlight /\ pc'[a] # "idle"
<1>0. TypeOK
  BY DEF IType
<1>1. CASE BreakDeadlock(a) \/ Crash(a)
  BY <1>0, <1>1, StepRuns, EndEnds DEF BreakDeadlock, Crash, InFlight, Ended
<1>2. CASE Step(a)
  <2>0. a \in InFlight
    BY <1>2, StepRuns DEF InFlight
  <2> USE DEF Goto, EndWith, TypeOK
  <2>1. CASE VerifyBearer(a) \/ FindProfile(a) \/ SaveProfile(a) \/ Resolve(a)
    BY <1>0, <2>0, <2>1 DEF VerifyBearer, FindProfile, SaveProfile, Resolve
  <2>2. CASE InsertPrincipal(a) \/ GrantDefault(a) \/ RequireScope(a) \/ PatchProfile(a)
             \/ SaveFlag(a)
    BY <1>0, <2>0, <2>2 DEF InsertPrincipal, GrantDefault, RequireScope, PatchProfile, SaveFlag
  <2>3. CASE FindPrincipal(a) \/ ReadRoles(a)
    BY <1>0, <2>0, <2>3 DEF FindPrincipal, ReadRoles
  <2>4. CASE Grant(a) \/ EndGrants(a) \/ Revoke(a)
    BY <1>0, <2>0, <2>4 DEF Grant, EndGrants, Revoke
  <2>5. CASE EndRevokes(a) \/ Sweep(a) \/ EndSweep(a) \/ Commit(a)
    BY <1>0, <2>0, <2>5 DEF EndRevokes, Sweep, EndSweep, Commit
  <2> QED BY <1>2, <2>1, <2>2, <2>3, <2>4, <2>5 DEF Step
<1> QED BY <1>1, <1>2 DEF Moves

LEMMA AloneMover ==
    ASSUME IAlone, IHeld', NEW a \in Actors, Moves(a)
    PROVE  AloneHolds(a)'
<1>0. TypeOK /\ IHeld /\ IType /\ Exclusive /\ HoldsOnly(a) /\ AloneHolds(a) /\ HoldsOnly(a)'
      /\ txn[a] \in Txn /\ work[a] \in Work
  BY DEF IAlone, IHeld, IType, TypeOK
<1>1. \A b \in Actors \ {a} : pc'[b] = pc[b]
  BY <1>0, OthersUntouched
<1>2. CASE Begin(a)
  <2>1. /\ UNCHANGED <<roles, txn, work>> /\ pc[a] = "idle"
        /\ alone' = IF InFlight = {} THEN alone \cup {a} ELSE alone \ InFlight
    BY <1>2 DEF Begin, db
  <2>2. txn[a].removed = {}
    BY <1>0, <2>1 DEF HoldsOnly, NotYet, NoTxn
  <2>3. pc'[a] # "idle"
    BY <1>0, <1>2 DEF Begin, TypeOK, Goto, EntryOf
  <2>4. a \in alone' => InFlight = {}
    BY <1>0, <2>1 DEF AloneHolds
  <2>5. InFlight = {} => InFlight' \subseteq {a}
    BY <1>1 DEF InFlight
  <2> QED BY <1>0, <2>1, <2>2, <2>3, <2>4, <2>5 DEF AloneHolds
<1>3. CASE ~Begin(a)
  <2>1. alone' = alone /\ a \in InFlight /\ pc'[a] # "idle"
    BY <1>0, <1>3, AloneMoves
  <2>2. CASE a \notin alone
    BY <2>1, <2>2 DEF AloneHolds
  <2>3. CASE a \in alone
    <3>1. /\ InFlight = {a} /\ work[a].stale \subseteq roles \cup txn[a].added
          /\ \A r \in txn[a].removed : r.by = Registry
      BY <1>0, <2>1, <2>3 DEF AloneHolds
    <3>2. InFlight' \subseteq {a}
      BY <1>1, <3>1 DEF InFlight
    <3>3. ASSUME pc'[a] = "done" PROVE AloneHolds(a)'
      <4>1. txn'[a].removed = {}
        BY <1>0, <3>3 DEF HoldsOnly, NotYet, NoTxn
      <4> QED BY <3>3, <4>1 DEF AloneHolds, InFlight
    <3>4. SUFFICES ASSUME pc'[a] # "done"
                   PROVE  /\ work'[a].stale \subseteq roles' \cup txn'[a].added
                          /\ \A r \in txn'[a].removed : r.by = Registry
      BY <2>1, <3>2, <3>3 DEF AloneHolds
    <3>5. CASE Keeps(a)
      BY <3>1, <3>5 DEF Keeps
    <3>6. CASE Inserts(a)
      BY <1>0, <3>1, <3>6 DEF Inserts, Txn, db
    <3>7. ASSUME NEW m, NEW role, Grants(a, m, role)
          PROVE  /\ work'[a].stale \subseteq roles' \cup txn'[a].added
                 /\ \A r \in txn'[a].removed : r.by = Registry
      <4>1. /\ txn[a].added \subseteq txn'[a].added /\ txn'[a].removed = txn[a].removed
            /\ work'[a].stale = work[a].stale /\ roles' = roles
        BY <1>0, <3>7 DEF Grants, Txn, Work, db
      <4> QED BY <3>1, <4>1
    <3>8. ASSUME NEW s, Revokes(a, s)
          PROVE  /\ work'[a].stale \subseteq roles' \cup txn'[a].added
                 /\ \A r \in txn'[a].removed : r.by = Registry
      <4>1. /\ txn'[a].removed = txn[a].removed \cup {r \in roles : Key(r) = Key(s)}
            /\ txn'[a].added = txn[a].added /\ roles' = roles
            /\ work'[a].stale = work[a].stale \ {s} /\ s \in work[a].stale
        BY <1>0, <3>8 DEF Revokes, Txn, Work, db
      <4>2. s.by = Registry
        BY <1>0, <4>1 DEF HoldsOnly
      <4>3. ASSUME NEW r \in roles, Key(r) = Key(s) PROVE r.by = Registry
        <5>1. CASE s \in roles
          BY <1>0, <4>2, <4>3, <5>1 DEF Exclusive
        <5>2. CASE s \in txn[a].added
          BY <1>0, <3>1, <4>3, <5>2 DEF Exclusive
        <5> QED BY <3>1, <4>1, <5>1, <5>2
      <4> QED BY <3>1, <4>1, <4>3
    <3>9. CASE GrantDefault(a) \/ SaveFlag(a) \/ Commit(a)
      BY <1>0, <3>4, <3>9 DEF GrantDefault, SaveFlag, Commit, TypeOK, Goto
    <3> QED BY <1>0, <3>4, <3>5, <3>6, <3>7, <3>8, <3>9, StepCases DEF Ended
  <2> QED BY <2>2, <2>3
<1> QED BY <1>2, <1>3

(* Of the others, those that ended hold nothing, and one that is alone and *)
(* under way would have been overlapped.                                   *)
LEMMA AloneOthers ==
    ASSUME IAlone, NEW a \in Actors, Moves(a), NEW b \in Actors \ {a}
    PROVE  AloneHolds(b)'
<1>0. TypeOK /\ IType /\ HoldsOnly(b) /\ AloneHolds(a) /\ AloneHolds(b)
  BY DEF IAlone, IHeld, IType
<1>1. pc'[b] = pc[b] /\ txn'[b] = txn[b] /\ work'[b] = work[b]
  BY <1>0, OthersUntouched
<1>2. b \in InFlight' <=> b \in InFlight
  BY <1>1 DEF InFlight
<1>3. CASE Begin(a)
  <2>1. b \in alone' => b \in alone /\ b \notin InFlight
    BY <1>3 DEF Begin
  <2> QED BY <1>0, <1>1, <1>2, <2>1 DEF AloneHolds
<1>4. CASE ~Begin(a)
  <2>1. alone' = alone /\ a \in InFlight
    BY <1>0, <1>4, AloneMoves
  <2>2. b \in alone => b \notin InFlight
    BY <1>0, <2>1 DEF AloneHolds
  <2> QED BY <1>0, <1>1, <1>2, <2>1, <2>2 DEF AloneHolds
<1> QED BY <1>3, <1>4

LEMMA IAloneStep == IAlone /\ [Next]_vars => IAlone'
<1> SUFFICES ASSUME IAlone, [Next]_vars PROVE IAlone'
  OBVIOUS
<1>0. IHeld /\ IHeld'
  BY IHeldStep DEF IAlone
<1>1. ASSUME NEW a \in Actors, Moves(a) PROVE IAlone'
  BY <1>0, <1>1, AloneMover, AloneOthers DEF IAlone
<1>2. ASSUME NEW g \in HandGrants, HandGrant(g) PROVE IAlone'
  <2>1. \A b \in Actors : AloneHolds(b)'
    BY <1>2 DEF IAlone, AloneHolds, HandGrant, InFlight
  <2> QED BY <1>0, <2>1 DEF IAlone
<1>3. CASE UNCHANGED vars
  <2>1. \A b \in Actors : AloneHolds(b)'
    BY <1>3 DEF vars, db, IAlone, AloneHolds, InFlight
  <2> QED BY <1>0, <2>1 DEF IAlone
<1> QED BY <1>1, <1>2, <1>3 DEF Next, Quiet, Moves

LEMMA IAloneInit == Init => IAlone
<1> SUFFICES ASSUME Init PROVE IAlone
  OBVIOUS
<1>1. \A a \in Actors : AloneHolds(a)
  BY DEF Init, AloneHolds, InFlight, NoTxn, NoWork
<1> QED BY <1>1, IHeldInit DEF IAlone

(* Only the commit of its transaction ends a boot as reconciled.           *)
LEMMA ReconciledCommits ==
    ASSUME IType, [Next]_vars, NEW a \in Actors, Reconciled(a)
    PROVE  Commit(a)
<1>0. TypeOK
  BY DEF IType
<1>1. ASSUME NEW b \in Actors, Moves(b) PROVE Commit(a)
  <2>1. b = a
    BY <1>0, <1>1, OthersUntouched DEF Reconciled
  <2>2. ASSUME NEW how, EndWith(a, how) PROVE how = "reconciled"
    BY <1>0, <2>2, EndEnds DEF Reconciled
  <2>3. CASE BreakDeadlock(a) \/ Crash(a)
    BY <2>2, <2>3 DEF BreakDeadlock, Crash
  <2>4. CASE Begin(a) \/ FindProfile(a) \/ ReadRoles(a) \/ EndGrants(a) \/ Revoke(a)
             \/ EndRevokes(a) \/ Sweep(a) \/ EndSweep(a)
    BY <2>4 DEF Begin, FindProfile, ReadRoles, EndGrants, Revoke, EndRevokes, Sweep, EndSweep,
                Reconciled
  <2>5. CASE GrantDefault(a) \/ SaveFlag(a)
    BY <1>0, <2>5 DEF GrantDefault, SaveFlag, Reconciled, TypeOK
  <2>6. CASE VerifyBearer(a) \/ SaveProfile(a) \/ Resolve(a) \/ RequireScope(a)
             \/ PatchProfile(a)
    BY <2>2, <2>6 DEF VerifyBearer, SaveProfile, Resolve, RequireScope, PatchProfile,
                      Reconciled
  <2>7. CASE InsertPrincipal(a) \/ FindPrincipal(a) \/ Grant(a)
    BY <2>2, <2>7 DEF InsertPrincipal, FindPrincipal, Grant, Reconciled
  <2> QED BY <1>1, <2>1, <2>3, <2>4, <2>5, <2>6, <2>7 DEF Moves, Step
<1>2. CASE (\E g \in HandGrants : HandGrant(g)) \/ UNCHANGED vars
  BY <1>2 DEF HandGrant, vars, Reconciled
<1> QED BY <1>1, <1>2 DEF Next, Quiet, Moves

(* Reconciliation touches no profile, no person and no principal that      *)
(* exists, and, where nothing overlapped it, removes no grant that it did  *)
(* not make (identity_registry.reconcile).                                 *)
THEOREM BootKeepsItsLimits == Spec => BootTouchesOnlyItsOwn
<1>1. ASSUME IAlone, [Next]_vars, NEW a \in Actors, Reconciled(a)
      PROVE  /\ profile' = profile
             /\ principals \subseteq principals'
             /\ principals' \ principals \subseteq Machines
             /\ \A r \in roles' \ roles : r.who \in Machines /\ r.by = Registry
             /\ \A r \in roles \ roles' :
                   r.who \in Machines /\ (a \in alone => r.by = Registry)
  <2>1. Commit(a)
    BY <1>1, ReconciledCommits DEF IAlone, IHeld
  <2>2. /\ HoldsOnly(a) /\ AloneHolds(a) /\ pc[a] = "commit"
        /\ principals' = principals \cup txn[a].principals /\ profile' = profile
        /\ roles' = (roles \ txn[a].removed) \cup txn[a].added
    BY <1>1, <2>1 DEF IAlone, IHeld, Commit
  <2>3. txn[a].principals \subseteq Machines
    BY <2>2 DEF HoldsOnly
  <2> QED BY <2>2, <2>3 DEF HoldsOnly, AloneHolds
<1>2. IAlone /\ [Next]_vars =>
         [\A a \in Actors : Reconciled(a) =>
             /\ profile' = profile
             /\ principals \subseteq principals'
             /\ principals' \ principals \subseteq Machines
             /\ \A r \in roles' \ roles : r.who \in Machines /\ r.by = Registry
             /\ \A r \in roles \ roles' :
                   r.who \in Machines /\ (a \in alone => r.by = Registry)]_vars
  BY <1>1
<1> QED BY <1>2, IAloneInit, IAloneStep, PTL DEF Spec, BootTouchesOnlyItsOwn

-----------------------------------------------------------------------------
(***************************************************************************)
(* People.  A sign-in that has come so far has saved the profile it is     *)
(* about, and an admin flag that one has read was set by a patch that has  *)
(* been answered, except on those whom the migration made admins.          *)
(***************************************************************************)
GivenTo(p) == {r \in roles : r.who = p /\ r.by = Provision}
Made(p) == \E a \in Actors : /\ answer[a] = "200"
                             /\ req[a].kind = "patch" /\ req[a].who = p /\ req[a].admin

Saved == {"resolve", "insert_principal", "grant_default"}
ReadFlag == Saved \cup {"save_profile"}

SignsIn(a) ==
    /\ answer[a] # "none" => pc[a] = "done"
    /\ req[a] \in SignIn /\ pc[a] \in Saved => profile[req[a].who] # "none"
    /\ req[a] \in SignIn /\ pc[a] \in ReadFlag /\ work[a].admin /\ req[a].who \notin Admins
          => Made(req[a].who)
    /\ req[a] \in SignIn /\ pc[a] = "done" /\ answer[a] = "200" =>
          /\ profile[req[a].who] # "none"
          /\ PlanOf[plan].people_issuer => req[a].who \in principals

Provisioned(p) ==
    /\ p \in Admins => p \in principals /\ GivenTo(p) = {}
    /\ p \in principals \ Admins => \E r : GivenTo(p) = {r}
    /\ p \notin Admins /\ profile[p] = "admin" => Made(p)
    /\ p \notin Admins /\ (\E r \in GivenTo(p) : r.role = AdminRole) => Made(p)

IPeople ==
    /\ IHeld
    /\ \A a \in Actors : SignsIn(a)
    /\ \A p \in People : Provisioned(p)

(* A step that is not about a person: it ends short of 200 or goes on.     *)
Elsewhere(a) ==
    /\ UNCHANGED db
    /\ \/ pc'[a] = "done" /\ answer'[a] # "200"
       \/ answer'[a] = answer[a] /\ pc[a] # "done" /\ pc'[a] \notin ReadFlag \cup {"done"}
       \/ answer'[a] = answer[a] /\ pc[a] # "done" /\ pc'[a] # "done" /\ req'[a] \notin SignIn

LEMMA PeopleCases ==
    ASSUME IType, NEW a \in Actors, Moves(a)
    PROVE  \/ Elsewhere(a)
           \/ FindProfile(a) \/ SaveProfile(a) \/ Resolve(a) \/ InsertPrincipal(a)
           \/ GrantDefault(a) \/ SaveFlag(a) \/ Commit(a)
<1>0. TypeOK /\ RequestAt(a)
  BY DEF IType
<1>1. ASSUME NEW how, EndWith(a, how), how # "200" PROVE Elsewhere(a)
  BY <1>0, <1>1, EndEnds DEF Ended, Elsewhere
<1>2. CASE Begin(a)
  <2>1. PICK r : Goto(a, EntryOf(r))
    BY <1>2 DEF Begin
  <2>2. pc'[a] \in {"verify", "find_principal"}
    BY <1>0, <2>1 DEF TypeOK, Goto, EntryOf
  <2> QED BY <1>2, <2>2 DEF Begin, Elsewhere, ReadFlag, Saved
<1>3. CASE BreakDeadlock(a) \/ Crash(a)
  BY <1>1, <1>3 DEF BreakDeadlock, Crash
<1>4. CASE VerifyBearer(a) \/ RequireScope(a) \/ PatchProfile(a)
  <2>1. CASE EndWith(a, "401") \/ EndWith(a, "403") \/ EndWith(a, "404")
    BY <1>1, <2>1
  <2>2. CASE ~(EndWith(a, "401") \/ EndWith(a, "403") \/ EndWith(a, "404"))
    <3>1. /\ pc[a] # "done" /\ UNCHANGED <<db, answer>>
          /\ pc'[a] \in {"authorize", "find_profile", "patch_profile", "save_flag"}
      BY <1>0, <1>4, <2>2 DEF VerifyBearer, RequireScope, PatchProfile, TypeOK, Goto
    <3> QED BY <3>1 DEF Elsewhere, ReadFlag, Saved
  <2> QED BY <2>1, <2>2
<1>5. CASE FindPrincipal(a) \/ ReadRoles(a) \/ Grant(a) \/ EndGrants(a) \/ Revoke(a)
           \/ EndRevokes(a) \/ Sweep(a) \/ EndSweep(a)
  <2>1. CASE EndWith(a, "nothing") \/ EndWith(a, "failed")
    BY <1>1, <2>1
  <2>2. CASE ~(EndWith(a, "nothing") \/ EndWith(a, "failed"))
    <3>1. pc[a] \in {"find_principal", "read_roles", "grant", "revoke", "sweep"}
      BY <1>5 DEF FindPrincipal, ReadRoles, Grant, EndGrants, Revoke, EndRevokes, Sweep, EndSweep
    <3>2. req[a] \in Boot
      BY <1>0, <3>1 DEF RequestAt
    <3>3. req[a] \notin SignIn
      BY <3>2 DEF Boot, SignIn
    <3>4. CASE FindPrincipal(a) \/ Grant(a)
      <4>1. /\ UNCHANGED <<db, req, answer>>
            /\ pc'[a] \in {"find_principal", "sweep", "read_roles", "insert_principal", "grant"}
        BY <1>0, <2>2, <3>4 DEF FindPrincipal, Grant, TypeOK, Goto
      <4> QED BY <3>1, <3>3, <4>1 DEF Elsewhere
    <3>5. CASE ReadRoles(a) \/ EndGrants(a) \/ Revoke(a) \/ EndRevokes(a) \/ Sweep(a) \/ EndSweep(a)
      <4>1. /\ UNCHANGED <<db, req, answer>>
            /\ pc'[a] \in {"find_principal", "sweep", "grant", "revoke", "commit"}
        BY <1>0, <3>5
           DEF ReadRoles, EndGrants, Revoke, EndRevokes, Sweep, EndSweep, TypeOK, Goto
      <4> QED BY <3>1, <3>3, <4>1 DEF Elsewhere
    <3> QED BY <1>5, <3>4, <3>5
  <2> QED BY <2>1, <2>2
<1> QED BY <1>2, <1>3, <1>4, <1>5 DEF Moves, Step

(* What has been answered stays answered, and a profile stays.             *)
LEMMA AnsweredStay ==
    ASSUME IPeople, [Next]_vars, NEW a \in Actors, answer[a] # "none"
    PROVE  answer'[a] = answer[a] /\ req'[a] = req[a] /\ pc'[a] = pc[a]
<1>0. TypeOK /\ pc[a] = "done"
  BY DEF IPeople, IHeld, IType, SignsIn
<1>1. ASSUME NEW b \in Actors, Moves(b) PROVE answer'[a] = answer[a] /\ req'[a] = req[a] /\ pc'[a] = pc[a]
  <2>1. b # a
    <3>1. ~Begin(a)
      BY <1>0 DEF Begin
    <3> QED BY <1>0, <1>1, <3>1, StepRuns DEF Moves
  <2> QED BY <1>0, <1>1, <2>1, OthersUntouched
<1>2. CASE (\E g \in HandGrants : HandGrant(g)) \/ UNCHANGED vars
  BY <1>2 DEF HandGrant, vars
<1> QED BY <1>1, <1>2 DEF Next, Quiet, Moves

LEMMA MadeStays ==
    ASSUME IPeople, [Next]_vars, NEW p, Made(p)
    PROVE  Made(p)'
<1>1. PICK a \in Actors : answer[a] = "200" /\ req[a].kind = "patch" /\ req[a].who = p /\ req[a].admin
  BY DEF Made
<1>2. answer'[a] = answer[a] /\ req'[a] = req[a]
  BY <1>1, AnsweredStay
<1> QED BY <1>1, <1>2 DEF Made

(* The ways a step leaves the profiles and the grants of people.           *)
LEMMA PeopleStore ==
    ASSUME IPeople, NEW a \in Actors, Moves(a)
    PROVE  /\ \A p \in People : profile[p] # "none" => profile'[p] # "none"
           /\ \A p \in People : profile'[p] = "admin" =>
                 profile[p] = "admin" \/ Made(p)'
           /\ principals \subseteq principals'
<1>0. TypeOK /\ IType /\ RequestAt(a) /\ SignsIn(a)
  BY DEF IPeople, IHeld, IType
<1>1. CASE Elsewhere(a) \/ FindProfile(a) \/ Resolve(a) \/ InsertPrincipal(a)
  BY <1>1 DEF Elsewhere, FindProfile, Resolve, InsertPrincipal, EndWith, db
<1>2. CASE SaveProfile(a)
  <2>1. \/ UNCHANGED <<profile, principals>>
        \/ /\ profile' = [profile EXCEPT ![req[a].who] = IF @ = "none" THEN "member" ELSE @]
           /\ UNCHANGED principals
    BY <1>2 DEF SaveProfile, EndWith, db
  <2> QED BY <1>0, <2>1 DEF TypeOK
<1>3. CASE GrantDefault(a) \/ Commit(a)
  BY <1>3 DEF GrantDefault, Commit
<1>4. CASE SaveFlag(a)
  <2>0. req[a] \in Patch /\ req' = req /\ answer'[a] = "200" /\ UNCHANGED principals
    BY <1>0, <1>4 DEF SaveFlag, RequestAt, TypeOK
  <2>1. req[a].who \in People /\ req[a].kind = "patch" /\ req[a].admin \in BOOLEAN
    BY <2>0 DEF Patch
  <2>2. CASE profile' = profile
    BY <2>0, <2>2
  <2>3. CASE profile' = [profile EXCEPT ![req[a].who] = IF req[a].admin THEN "admin" ELSE "member"]
    <3>1. req[a].admin => Made(req[a].who)'
      BY <2>0, <2>1 DEF Made
    <3> QED BY <1>0, <2>0, <2>1, <2>3, <3>1 DEF TypeOK
  <2> QED BY <1>4, <2>2, <2>3 DEF SaveFlag
<1> QED BY <1>0, <1>1, <1>2, <1>3, <1>4, PeopleCases

LEMMA PlanStays ==
    ASSUME NEW a \in Actors, Moves(a)
    PROVE  plan' = plan
<1>1. CASE Begin(a) \/ BreakDeadlock(a) \/ Crash(a)
  BY <1>1 DEF Begin, BreakDeadlock, Crash, EndWith, db
<1>2. CASE Step(a)
  BY <1>2
     DEF db, Step, EndWith, VerifyBearer, FindProfile, SaveProfile, Resolve, InsertPrincipal,
         GrantDefault, RequireScope, PatchProfile, SaveFlag, FindPrincipal, ReadRoles, Grant,
         EndGrants, Revoke, EndRevokes, Sweep, EndSweep, Commit
<1> QED BY <1>1, <1>2 DEF Moves

LEMMA SignsInMover ==
    ASSUME IPeople, [Next]_vars, NEW a \in Actors, Moves(a)
    PROVE  SignsIn(a)'
<1>0. TypeOK /\ IType /\ IHeld /\ RequestAt(a) /\ SignsIn(a) /\ HoldsOnly(a) /\ plan' = plan
      /\ work[a] \in Work
  BY PlanStays DEF IPeople, IHeld, IType, TypeOK
<1>p. PICK p : p = req[a].who
  OBVIOUS
<1>1. ASSUME NEW how, EndWith(a, how), how # "200" PROVE SignsIn(a)'
  BY <1>0, <1>1, EndEnds DEF Ended, SignsIn, Saved, ReadFlag
<1>2. CASE Elsewhere(a)
  <2>1. CASE pc'[a] = "done" /\ answer'[a] # "200"
    BY <2>1 DEF SignsIn, Saved, ReadFlag
  <2>2. CASE answer'[a] = answer[a] /\ pc[a] # "done" /\ pc'[a] \notin ReadFlag \cup {"done"}
    BY <1>0, <2>2 DEF SignsIn, Saved, ReadFlag
  <2>3. CASE answer'[a] = answer[a] /\ pc[a] # "done" /\ pc'[a] # "done" /\ req'[a] \notin SignIn
    BY <1>0, <2>3 DEF SignsIn
  <2> QED BY <1>2, <2>1, <2>2, <2>3 DEF Elsewhere
<1>3. CASE FindProfile(a)
  <2>1. /\ pc[a] = "find_profile" /\ pc'[a] = "save_profile" /\ UNCHANGED <<req, answer>>
        /\ work'[a].admin = (profile[req[a].who] = "admin")
    BY <1>0, <1>3 DEF FindProfile, TypeOK, Goto, Work
  <2>2. req[a].who \in People
    BY <1>0, <2>1 DEF RequestAt, SignIn
  <2>3. p \notin Admins /\ profile[p] = "admin" => Made(p)
    BY <1>p, <2>2 DEF IPeople, Provisioned
  <2>4. work'[a].admin /\ p \notin Admins => Made(p)'
    BY <1>p, <2>1, <2>3, MadeStays
  <2> QED BY <1>0, <1>p, <2>1, <2>4 DEF SignsIn, Saved, ReadFlag, Made
<1>4. CASE SaveProfile(a)
  <2>1. CASE EndWith(a, "500")
    BY <1>1, <2>1
  <2>2. CASE ~EndWith(a, "500")
    <3>1. /\ pc[a] = "save_profile" /\ pc'[a] = "resolve" /\ UNCHANGED <<req, answer, work>>
          /\ profile' = [profile EXCEPT ![req[a].who] = IF @ = "none" THEN "member" ELSE @]
      BY <1>0, <1>4, <2>2 DEF SaveProfile, TypeOK, Goto
    <3>2. req[a] \in SignIn /\ req[a].who \in People
      BY <1>0, <3>1 DEF RequestAt, SignIn
    <3>3. profile'[req[a].who] # "none"
      BY <1>0, <3>1, <3>2 DEF TypeOK
    <3>4. work[a].admin /\ p \notin Admins => Made(p)'
      BY <1>0, <3>1, <3>2, <1>p, MadeStays DEF SignsIn, ReadFlag, Saved
    <3> QED BY <1>0, <3>1, <1>p, <3>3, <3>4 DEF SignsIn, Saved, ReadFlag, Made
  <2> QED BY <2>1, <2>2
<1>5. CASE Resolve(a)
  <2>0. pc[a] = "resolve" /\ req[a] \in SignIn
    BY <1>0, <1>5 DEF Resolve, RequestAt
  <2>1. CASE EndWith(a, "200")
    <3>1. /\ pc'[a] = "done" /\ UNCHANGED db /\ req' = req /\ answer'[a] = "200"
      BY <1>0, <2>1, EndEnds DEF Ended
    <3>2. req[a].who \in principals \/ ~PlanOf[plan].people_issuer
      BY <1>5, <2>0, <2>1, <1>0, <3>1 DEF Resolve, Goto, TypeOK
    <3>3. profile[req[a].who] # "none"
      BY <1>0, <2>0 DEF SignsIn, Saved
    <3> QED BY <1>0, <3>1, <3>2, <3>3 DEF SignsIn, Saved, ReadFlag, db
  <2>2. CASE ~EndWith(a, "200")
    <3>1. pc'[a] = "insert_principal" /\ UNCHANGED <<db, req, answer, work>>
      BY <1>0, <1>5, <2>2 DEF Resolve, TypeOK, Goto
    <3>2. work[a].admin /\ p \notin Admins => Made(p)'
      BY <1>0, <2>0, <1>p, MadeStays DEF SignsIn, ReadFlag, Saved
    <3> QED BY <1>0, <2>0, <1>p, <3>1, <3>2 DEF SignsIn, Saved, ReadFlag, Made, db
  <2> QED BY <2>1, <2>2
<1>6. CASE InsertPrincipal(a)
  <2>1. CASE EndWith(a, "failed") \/ EndWith(a, "500")
    BY <1>1, <2>1
  <2>2. CASE ~(EndWith(a, "failed") \/ EndWith(a, "500"))
    <3>1. /\ pc[a] = "insert_principal" /\ pc'[a] \in {"grant_default", "read_roles"}
          /\ UNCHANGED <<db, req, answer, work>>
      BY <1>0, <1>6, <2>2 DEF InsertPrincipal, TypeOK, Goto
    <3>2. req[a] \in SignIn /\ work[a].admin /\ p \notin Admins => Made(p)'
      BY <1>0, <3>1, <1>p, MadeStays DEF SignsIn, ReadFlag, Saved
    <3> QED BY <1>0, <1>p, <3>1, <3>2 DEF SignsIn, Saved, ReadFlag, Made, db
  <2> QED BY <2>1, <2>2
<1>7. CASE GrantDefault(a)
  <2>1. /\ pc[a] = "grant_default" /\ pc'[a] = "done" /\ UNCHANGED <<profile, req>>
        /\ answer'[a] = "200" /\ principals' = principals \cup txn[a].principals
    BY <1>0, <1>7 DEF GrantDefault, TypeOK, Goto
  <2>2. req[a].who \in principals'
    BY <1>0, <2>1 DEF HoldsOnly
  <2>3. req[a] \in SignIn /\ profile[req[a].who] # "none"
    BY <1>0, <2>1 DEF SignsIn, Saved, RequestAt
  <2> QED BY <2>1, <2>2, <2>3 DEF SignsIn, Saved, ReadFlag
<1>8. CASE SaveFlag(a) \/ Commit(a)
  <2>1. pc'[a] = "done" /\ req' = req /\ (req[a] \in Patch \/ req[a] \in Boot)
    BY <1>0, <1>8 DEF SaveFlag, Commit, TypeOK, Goto, RequestAt
  <2>2. req[a] \notin SignIn
    BY <2>1 DEF Patch, Boot, SignIn
  <2> QED BY <2>1, <2>2 DEF SignsIn
<1> QED BY <1>0, <1>2, <1>3, <1>4, <1>5, <1>6, <1>7, <1>8, PeopleCases

LEMMA ProvisionedStep ==
    ASSUME IPeople, [Next]_vars, NEW a \in Actors, Moves(a), NEW p \in People
    PROVE  Provisioned(p)'
<1>0. /\ TypeOK /\ IType /\ RequestAt(a) /\ SignsIn(a) /\ HoldsOnly(a) /\ Exclusive
      /\ Provisioned(p)
  BY DEF IPeople, IHeld, IType
<1>1. p \notin Admins /\ profile'[p] = "admin" => Made(p)'
  BY <1>0, PeopleStore, MadeStays DEF Provisioned
<1>2. ASSUME GivenTo(p)' = GivenTo(p), p \in principals' <=> p \in principals
      PROVE  Provisioned(p)'
  <2>1. p \notin Admins /\ (\E r \in GivenTo(p)' : r.role = AdminRole) => Made(p)'
    BY <1>0, <1>2, MadeStays DEF Provisioned
  <2> QED BY <1>0, <1>1, <1>2, <2>1 DEF Provisioned
<1>3. CASE UNCHANGED <<principals, roles>>
  BY <1>2, <1>3 DEF GivenTo
<1>4. CASE Commit(a)
  <2>1. /\ principals' = principals \cup txn[a].principals /\ txn[a].principals \subseteq Machines
        /\ roles' = (roles \ txn[a].removed) \cup txn[a].added
    BY <1>0, <1>4 DEF Commit, HoldsOnly
  <2>2. GivenTo(p)' = GivenTo(p)
    BY <1>0, <2>1, ConstantsAssumption DEF GivenTo, HoldsOnly
  <2> QED BY <1>2, <2>1, <2>2, ConstantsAssumption
<1>5. CASE GrantDefault(a)
  <2> DEFINE row == [who |-> req[a].who, role |-> DefaultRole(a), by |-> Provision]
  <2>1. /\ req[a] \in SignIn /\ req[a].who \in People /\ pc[a] = "grant_default"
        /\ principals' = principals \cup {req[a].who} /\ roles' = roles \cup {row}
    BY <1>0, <1>5 DEF GrantDefault, RequestAt, SignIn, HoldsOnly
  <2>2. CASE p # req[a].who
    BY <1>2, <2>1, <2>2 DEF GivenTo
  <2>3. CASE p = req[a].who
    <3>1. p \notin principals
      BY <1>0, <2>1, <2>3 DEF Exclusive, HoldsOnly
    <3>2. p \notin Admins /\ p \in principals'
      BY <1>0, <2>1, <2>3, <3>1 DEF Provisioned
    <3>3. GivenTo(p)' = {row}
      BY <1>0, <2>1, <2>3, <3>1 DEF Exclusive, GivenTo
    <3>4. row.role = AdminRole => Made(p)'
      <4>1. row.role = AdminRole => work[a].admin
        BY ConstantsAssumption DEF DefaultRole
      <4> QED BY <1>0, <2>1, <2>3, <3>2, <4>1, MadeStays DEF SignsIn, ReadFlag, Saved
    <3> QED BY <1>1, <3>2, <3>3, <3>4 DEF Provisioned
  <2> QED BY <2>2, <2>3
<1>6. CASE Elsewhere(a) \/ FindProfile(a) \/ SaveProfile(a) \/ Resolve(a) \/ InsertPrincipal(a)
           \/ SaveFlag(a)
  BY <1>3, <1>6
     DEF Elsewhere, FindProfile, SaveProfile, Resolve, InsertPrincipal, SaveFlag, EndWith, db
<1> QED BY <1>0, <1>4, <1>5, <1>6, PeopleCases

LEMMA IPeopleStep == IPeople /\ [Next]_vars => IPeople'
<1> SUFFICES ASSUME IPeople, [Next]_vars PROVE IPeople'
  OBVIOUS
<1>0. TypeOK /\ IHeld'
  BY IHeldStep DEF IPeople, IHeld, IType
<1>1. ASSUME NEW a \in Actors, Moves(a) PROVE IPeople'
  <2>1. ASSUME NEW b \in Actors \ {a} PROVE SignsIn(b)'
    <3>1. req'[b] = req[b] /\ pc'[b] = pc[b] /\ answer'[b] = answer[b] /\ work'[b] = work[b]
      BY <1>0, <1>1, OthersUntouched
    <3>2. SignsIn(b) /\ (req[b] \in SignIn => req[b].who \in People)
      BY DEF IPeople, SignIn
    <3>3. PICK p : p = req[b].who
      OBVIOUS
    <3>4. /\ Made(p) => Made(p)'
          /\ p \in People /\ profile[p] # "none" => profile'[p] # "none"
          /\ principals \subseteq principals' /\ plan' = plan
      BY <1>1, MadeStays, PeopleStore, PlanStays
    <3> QED BY <1>0, <3>1, <3>2, <3>3, <3>4 DEF SignsIn, Made
  <2> QED BY <1>0, <1>1, <2>1, SignsInMover, ProvisionedStep DEF IPeople
<1>2. ASSUME NEW g \in HandGrants, HandGrant(g) PROVE IPeople'
  <2>1. UNCHANGED <<plan, profile, principals, req, pc, answer, work>>
        /\ roles' = roles \cup {[who |-> g.who, role |-> g.role, by |-> "hand"]}
    BY <1>2 DEF HandGrant
  <2>2. \A p \in People : GivenTo(p)' = GivenTo(p) /\ (Made(p)' <=> Made(p))
    BY <2>1 DEF GivenTo, Made, Provision
  <2>3. \A b \in Actors : SignsIn(b)'
    BY <2>1 DEF IPeople, SignsIn, Made
  <2>4. \A p \in People : Provisioned(p)'
    BY <2>1, <2>2 DEF IPeople, Provisioned
  <2> QED BY <1>0, <2>3, <2>4 DEF IPeople
<1>3. CASE UNCHANGED vars
  <2>1. \A p \in People : GivenTo(p)' = GivenTo(p) /\ (Made(p)' <=> Made(p))
    BY <1>3 DEF vars, db, GivenTo, Made
  <2>2. \A b \in Actors : SignsIn(b)'
    BY <1>3 DEF vars, db, IPeople, SignsIn, Made
  <2>3. \A p \in People : Provisioned(p)'
    BY <1>3, <2>1 DEF vars, db, IPeople, Provisioned
  <2> QED BY <1>0, <2>2, <2>3 DEF IPeople
<1> QED BY <1>1, <1>2, <1>3 DEF Next, Quiet, Moves

LEMMA IPeopleInit == Init => IPeople
<1> SUFFICES ASSUME Init PROVE IPeople
  OBVIOUS
<1>1. \A a \in Actors : SignsIn(a)
  BY DEF Init, SignsIn, Saved, ReadFlag
<1>2. \A p \in People : GivenTo(p) = {}
  BY DEF Init, GivenTo, Provision
<1>3. \A p \in People : Provisioned(p)
  BY <1>2 DEF Init, Provisioned
<1> QED BY <1>1, <1>3, IHeldInit DEF IPeople

LEMMA IPeopleInvariant == Spec => []IPeople
BY IPeopleInit, IPeopleStep, PTL DEF Spec

(* A known person holds exactly one provisioned role, and an admin of the  *)
(* migration none, whatever sign-ins raced or were cut off, and who was    *)
(* answered 200 is known (auth.provision_human, wcs_me).                   *)
THEOREM PeopleHoldOneRole == Spec => []KnownPeopleHoldOneRole
<1>1. IPeople => KnownPeopleHoldOneRole
  <2> SUFFICES ASSUME IPeople PROVE KnownPeopleHoldOneRole
    OBVIOUS
  <2>1. ASSUME NEW p \in People \cap principals
        PROVE  Cardinality(GivenTo(p)) = IF p \in Admins THEN 0 ELSE 1
    <3>1. CASE p \in Admins
      BY <3>1, FS_EmptySet DEF IPeople, Provisioned
    <3>2. CASE p \notin Admins
      <4>1. PICK r : GivenTo(p) = {r}
        BY <2>1, <3>2 DEF IPeople, Provisioned
      <4> QED BY <3>2, <4>1, FS_Singleton
    <3> QED BY <3>1, <3>2
  <2>2. ASSUME NEW a \in Actors, pc[a] = "done", answer[a] = "200", req[a].kind = "sign_in"
        PROVE  /\ profile[req[a].who] # "none"
               /\ PlanOf[plan].people_issuer => req[a].who \in principals
    <3>1. req[a] \in Request
      BY <2>2 DEF IPeople, IHeld, IType, RequestAt
    <3>2. req[a] \in SignIn
      BY <2>2, <3>1, KindsOfRequests
    <3> QED BY <2>2, <3>2 DEF IPeople, SignsIn
  <2> QED BY <2>1, <2>2 DEF KnownPeopleHoldOneRole, GivenTo
<1> QED BY <1>1, IPeopleInvariant, PTL

(* Whoever is provisioned as an admin had the flag set by a patch that an  *)
(* admin was answered for (auth.provision_human, patch_wcs_admin_user).    *)
THEOREM OnlyAdminsMakeAdmins == Spec => []AdminsMadeByAdmins
<1>1. IPeople => AdminsMadeByAdmins
  BY DEF IPeople, Provisioned, GivenTo, Made, AdminsMadeByAdmins
<1> QED BY <1>1, IPeopleInvariant, PTL

-----------------------------------------------------------------------------
(***************************************************************************)
(* A boot that nobody overlaps, entry by entry.  A grant has a principal,  *)
(* as the foreign key requires.                                            *)
(***************************************************************************)
SeesRoles(a) == (roles \ txn[a].removed) \cup txn[a].added

HasPrincipals ==
    /\ \A r \in roles : r.who \in principals
    /\ \A a \in Actors :
          /\ \A r \in txn[a].added : r.who \in SeesPrincipals(a)
          /\ pc[a] \in {"read_roles", "grant"} => Wanted(a).name \in SeesPrincipals(a)

Planned(a) == IF pc[a] = "idle" THEN work[a].at = 1 ELSE req[a] \in PlanOf[plan].requests[a]

(* Entry i is as declared in what the transaction sees.                    *)
Held(a, m, R) == \A role \in R : \E r \in SeesRoles(a) : r.who = m /\ r.role = role

Applied(a, i) ==
    LET d == Declaration(a)[i]
    IN  d.roles \subseteq PlanOf[plan].roles =>
            /\ d.name \in SeesPrincipals(a)
            /\ Held(a, d.name, d.roles)
            /\ \A r \in SeesRoles(a) : r.who = d.name /\ r.by = Registry => r.role \in d.roles

(* The entry it is at lacks the roles still missing and has the stale ones *)
(* in excess.                                                              *)
AtEntry(a) ==
    LET d == Wanted(a)
    IN  /\ work[a].missing \subseteq d.roles
        /\ d.name \in SeesPrincipals(a)
        /\ Held(a, d.name, d.roles \ work[a].missing)
        /\ \A r \in SeesRoles(a) :
              r.who = d.name /\ r.by = Registry => r.role \in d.roles \/ r \in work[a].stale
        /\ \A s \in work[a].stale : s.who = d.name /\ s.role \notin d.roles

(* Of the machines that are not declared, those it has swept hold nothing  *)
(* of its own, and the one it sweeps what is stale.                        *)
Sweeps(a) ==
    /\ pc[a] = "commit" => work[a].todo = {}
    /\ work[a].todo \cap Declared(a) = {}
    /\ pc[a] = "revoke" => \A s \in work[a].stale : s.who \notin Declared(a)
    /\ \A r \in SeesRoles(a) :
          r.by = Registry /\ r.who \in Machines /\ r.who \notin Declared(a) =>
              r.who \in work[a].todo \/ (pc[a] = "revoke" /\ r \in work[a].stale)

Behind(a, i) ==
    i < work[a].at \/ (i = work[a].at /\ pc[a] \in {"grant", "revoke"})

Progress(a) ==
    /\ \A i \in DOMAIN Declaration(a) : i < work[a].at => Applied(a, i)
    /\ \A r \in txn[a].added :
          \E i \in DOMAIN Declaration(a) : Behind(a, i) /\ r.who = Declaration(a)[i].name
    /\ pc[a] \in {"grant", "revoke"} => work[a].stale \subseteq roles \ txn[a].added
    /\ pc[a] \in {"grant", "revoke"} /\ ~AfterEntries(a) => AtEntry(a)
    /\ pc[a] = "revoke" /\ ~AfterEntries(a) => work[a].missing = {}
    /\ pc[a] \in {"sweep", "commit"} => AfterEntries(a)
    /\ pc[a] \in {"sweep", "revoke", "commit"} /\ AfterEntries(a) => Sweeps(a)

Boots(a) == a \in alone /\ a \in InFlight /\ req[a] \in Boot

IBoots ==
    /\ IAlone /\ HasPrincipals
    /\ \A a \in Actors : Planned(a) /\ (Boots(a) => Progress(a))

-----------------------------------------------------------------------------
(* The declaration, and the statements that leave it alone.                *)

LEMMA DeclarationOf ==
    ASSUME IType, NEW a \in Actors, Planned(a), pc[a] # "idle", req[a] \in Boot
    PROVE  /\ Len(Declaration(a)) \in Nat /\ DOMAIN Declaration(a) = 1..Len(Declaration(a))
           /\ work[a].at \in Nat \ {0}
           /\ AfterEntries(a) <=> work[a].at \notin DOMAIN Declaration(a)
           /\ \A i \in DOMAIN Declaration(a) : Declaration(a)[i].name \in Machines
           /\ \A i, j \in DOMAIN Declaration(a) :
                 Declaration(a)[i].name = Declaration(a)[j].name => i = j
<1>1. PICK d : d = Declaration(a)
  OBVIOUS
<1>2. d \in Seq(Entry)
  BY <1>1 DEF Boot, Declaration
<1>3. /\ Len(d) \in Nat /\ DOMAIN d = 1..Len(d)
      /\ \A i \in DOMAIN d : d[i].name \in Machines
  <2>1. Len(d) \in Nat /\ DOMAIN d = 1..Len(d) /\ \A i \in 1..Len(d) : d[i] \in Entry
    BY <1>2
  <2>2. \A e \in Entry : e.name \in Machines
    BY DEF Entry
  <2> QED BY <2>1, <2>2
<1>4. work[a].at \in Nat \ {0}
  BY DEF IType, TypeOK, Work, RequestAt
<1>5. PICK k \in Nat \ {0} : k = work[a].at
  BY <1>4
<1>6. k > Len(d) <=> k \notin DOMAIN d
  BY <1>3
<1>7. plan \in Plans /\ req[a] \in PlanOf[plan].requests[a] /\ req[a].kind = "boot"
  BY DEF Planned, IType, TypeOK, Boot
<1>8. \A x, y \in DOMAIN d : d[x].name = d[y].name => x = y
  BY <1>1, <1>7, DeclarationAssumption DEF Declaration
<1> QED BY <1>1, <1>3, <1>5, <1>6, <1>8 DEF AfterEntries

(* An entry stays as declared while no row of its machine appears or goes. *)
LEMMA AppliedKept ==
    ASSUME NEW a \in Actors, req' = req, plan' = plan, NEW i, Applied(a, i),
           SeesPrincipals(a) \subseteq SeesPrincipals(a)',
           \A r : r.who = Declaration(a)[i].name => (r \in SeesRoles(a)' <=> r \in SeesRoles(a))
    PROVE  Applied(a, i)'
<1>1. PICK d : d = Declaration(a)[i] /\ d = Declaration(a)[i]'
  BY DEF Declaration
<1>2. SUFFICES ASSUME d.roles \subseteq PlanOf[plan].roles
               PROVE  /\ d.name \in SeesPrincipals(a)'
                      /\ Held(a, d.name, d.roles)'
                      /\ \A r \in SeesRoles(a)' :
                            r.who = d.name /\ r.by = Registry => r.role \in d.roles
  BY <1>1 DEF Applied
<1>3. /\ d.name \in SeesPrincipals(a)
      /\ \A role \in d.roles : \E r \in SeesRoles(a) : r.who = d.name /\ r.role = role
      /\ \A r \in SeesRoles(a) : r.who = d.name /\ r.by = Registry => r.role \in d.roles
  BY <1>1, <1>2 DEF Applied, Held
<1>4. \A r : r.who = d.name => (r \in SeesRoles(a)' <=> r \in SeesRoles(a))
  BY <1>1
<1>5. \A role \in d.roles : \E r \in SeesRoles(a)' : r.who = d.name /\ r.role = role
  BY <1>3, <1>4
<1> QED BY <1>3, <1>4, <1>5 DEF Held

-----------------------------------------------------------------------------
(* The statements of a boot that nobody overlaps, one by one.              *)

LEMMA FindGoesOn ==
    ASSUME IBoots, NEW a \in Actors, Boots(a), FindPrincipal(a), pc'[a] # "done"
    PROVE  Progress(a)'
<1>0. /\ IType /\ TypeOK /\ HasPrincipals /\ Planned(a) /\ Progress(a) /\ pc[a] = "find_principal"
      /\ req[a] \in Boot /\ work[a] \in Work
  BY DEF IBoots, IAlone, IHeld, IType, TypeOK, Boots, FindPrincipal
<1>1. /\ Len(Declaration(a)) \in Nat /\ DOMAIN Declaration(a) = 1..Len(Declaration(a))
      /\ work[a].at \in Nat \ {0} /\ (AfterEntries(a) <=> work[a].at \notin DOMAIN Declaration(a))
  BY <1>0, DeclarationOf
<1>2. /\ UNCHANGED <<plan, principals, roles, req>>
      /\ txn'[a] = txn[a] /\ SeesRoles(a)' = SeesRoles(a) /\ Declaration(a)' = Declaration(a)
      /\ SeesPrincipals(a)' = SeesPrincipals(a)
  <2>1. UNCHANGED <<plan, principals, roles, req, txn>>
    BY <1>0 DEF FindPrincipal, EndWith, Goto, db, TypeOK
  <2> QED BY <2>1 DEF SeesRoles, Declaration, SeesPrincipals
<1>3. ASSUME NEW i, Applied(a, i) PROVE Applied(a, i)'
  BY <1>2, <1>3, AppliedKept
<1>4. \A r \in txn[a].added :
         \E i \in DOMAIN Declaration(a) : i < work[a].at /\ r.who = Declaration(a)[i].name
  BY <1>0 DEF Progress, Behind
<1>5. CASE AfterEntries(a)
  <2>1. /\ pc'[a] = "sweep"
        /\ work' = [work EXCEPT ![a].todo = {m \in Machines : m \in SeesPrincipals(a)} \ Declared(a)]
    BY <1>0, <1>5 DEF FindPrincipal, EndWith, Goto, TypeOK
  <2>2. /\ work'[a].todo = {m \in Machines : m \in SeesPrincipals(a)} \ Declared(a)
        /\ work'[a].at = work[a].at
    BY <1>0, <2>1 DEF TypeOK, Work
  <2>3. AfterEntries(a)' /\ Declared(a)' = Declared(a)
    BY <1>2, <1>5, <2>2 DEF AfterEntries, Declared
  <2>4. \A r \in SeesRoles(a) : r.who \in SeesPrincipals(a)
    BY <1>0 DEF HasPrincipals, SeesRoles, SeesPrincipals
  <2>5. Sweeps(a)'
    BY <1>2, <2>1, <2>2, <2>3, <2>4 DEF Sweeps
  <2> QED BY <1>0, <1>2, <1>3, <1>4, <2>1, <2>2, <2>3, <2>5 DEF Progress, Behind
<1>6. CASE ~AfterEntries(a)
  <2>1. CASE Wanted(a).roles \subseteq PlanOf[plan].roles
    <3>1. /\ pc'[a] \in {"read_roles", "insert_principal"} /\ work' = work
      BY <1>0, <1>6, <2>1 DEF FindPrincipal, EndWith, Goto, TypeOK
    <3> QED BY <1>0, <1>2, <1>3, <1>4, <3>1 DEF Progress, Behind
  <2>2. CASE ~(Wanted(a).roles \subseteq PlanOf[plan].roles)
    <3>1. pc' = pc /\ work' = [work EXCEPT ![a].at = work[a].at + 1]
      BY <1>0, <1>6, <2>2 DEF FindPrincipal, EndWith, Goto, TypeOK
    <3>2. work'[a].at = work[a].at + 1
      BY <1>0, <3>1 DEF TypeOK, Work
    <3>3. Applied(a, work[a].at)
      BY <2>2 DEF Applied, Wanted
    <3>4. \A i \in DOMAIN Declaration(a) : i < work[a].at + 1 => i < work[a].at \/ i = work[a].at
      BY <1>1
    <3>5. \A i \in DOMAIN Declaration(a) : i < work[a].at + 1 => Applied(a, i)
      BY <1>0, <3>3, <3>4 DEF Progress
    <3>6. \A i \in DOMAIN Declaration(a) : i < work[a].at => i < work[a].at + 1
      BY <1>1
    <3> QED BY <1>0, <1>2, <1>3, <1>4, <3>1, <3>2, <3>5, <3>6 DEF Progress, Behind
  <2> QED BY <2>1, <2>2
<1> QED BY <1>5, <1>6

LEMMA InsertGoesOn ==
    ASSUME IBoots, NEW a \in Actors, Boots(a), InsertPrincipal(a), pc'[a] # "done"
    PROVE  Progress(a)'
<1>0. /\ IType /\ TypeOK /\ Progress(a) /\ pc[a] = "insert_principal"
      /\ req[a] \in Boot /\ req[a].kind = "boot" /\ txn[a] \in Txn
  BY DEF IBoots, IAlone, IHeld, IType, TypeOK, Boots, Boot, InsertPrincipal
<1>1. /\ UNCHANGED <<plan, principals, roles, req, work>> /\ pc'[a] = "read_roles"
      /\ txn' = [txn EXCEPT ![a].principals = txn[a].principals \cup {Subject(a)}]
  BY <1>0 DEF InsertPrincipal, EndWith, Goto, db, TypeOK
<1>2. /\ txn'[a].added = txn[a].added /\ txn'[a].removed = txn[a].removed
      /\ txn[a].principals \subseteq txn'[a].principals
  BY <1>0, <1>1 DEF TypeOK, Txn
<1>3. /\ SeesRoles(a)' = SeesRoles(a) /\ Declaration(a)' = Declaration(a)
      /\ SeesPrincipals(a) \subseteq SeesPrincipals(a)'
  BY <1>1, <1>2 DEF SeesRoles, Declaration, SeesPrincipals
<1>4. ASSUME NEW i, Applied(a, i) PROVE Applied(a, i)'
  BY <1>1, <1>3, <1>4, AppliedKept
<1> QED BY <1>0, <1>1, <1>2, <1>3, <1>4 DEF Progress, Behind

LEMMA EndGrantsGoesOn ==
    ASSUME IBoots, NEW a \in Actors, Boots(a), EndGrants(a)
    PROVE  Progress(a)'
<1>0. /\ IType /\ TypeOK /\ Planned(a) /\ Progress(a) /\ pc[a] = "grant" /\ RequestAt(a)
      /\ req[a] \in Boot
  BY DEF IBoots, IAlone, IHeld, IType, Boots, EndGrants
<1>1. UNCHANGED <<plan, principals, roles, req, txn, work>> /\ pc'[a] = "revoke"
      /\ work[a].missing = {}
  BY <1>0 DEF EndGrants, Goto, db, TypeOK
<1>2. ~AfterEntries(a) /\ AtEntry(a)
  <2>1. work[a].at \in DOMAIN Declaration(a)
    BY <1>0 DEF RequestAt
  <2> QED BY <1>0, <2>1, DeclarationOf DEF Progress
<1>3. /\ SeesRoles(a)' = SeesRoles(a) /\ Declaration(a)' = Declaration(a)
      /\ SeesPrincipals(a) = SeesPrincipals(a)' /\ (AfterEntries(a)' <=> AfterEntries(a))
  BY <1>1 DEF SeesRoles, Declaration, SeesPrincipals, AfterEntries
<1>4. ASSUME NEW i, Applied(a, i) PROVE Applied(a, i)'
  BY <1>1, <1>3, <1>4, AppliedKept
<1>5. AtEntry(a)'
  BY <1>1, <1>2, <1>3 DEF AtEntry, Held, Wanted
<1> QED BY <1>0, <1>1, <1>2, <1>3, <1>4, <1>5 DEF Progress, Behind

LEMMA EndSweepGoesOn ==
    ASSUME IBoots, NEW a \in Actors, Boots(a), EndSweep(a)
    PROVE  Progress(a)'
<1>0. /\ TypeOK /\ Progress(a) /\ pc[a] = "sweep"
  BY DEF IBoots, IAlone, IHeld, IType, Boots, EndSweep
<1>1. UNCHANGED <<plan, principals, roles, req, txn, work>> /\ pc'[a] = "commit"
      /\ work[a].todo = {}
  BY <1>0 DEF EndSweep, Goto, db, TypeOK
<1>3. /\ SeesRoles(a)' = SeesRoles(a) /\ Declaration(a)' = Declaration(a)
      /\ SeesPrincipals(a) = SeesPrincipals(a)' /\ (AfterEntries(a)' <=> AfterEntries(a))
      /\ Declared(a)' = Declared(a)
  BY <1>1 DEF SeesRoles, Declaration, SeesPrincipals, AfterEntries, Declared
<1>4. ASSUME NEW i, Applied(a, i) PROVE Applied(a, i)'
  BY <1>1, <1>3, <1>4, AppliedKept
<1>5. AfterEntries(a) /\ Sweeps(a)'
  BY <1>0, <1>1, <1>3 DEF Progress, Sweeps
<1> QED BY <1>0, <1>1, <1>3, <1>4, <1>5 DEF Progress, Behind

(* Reading the roles of an entry: what is in excess is stored, for the     *)
(* transaction has granted nothing to this machine yet.                    *)
LEMMA ReadGoesOn ==
    ASSUME IBoots, NEW a \in Actors, Boots(a), ReadRoles(a)
    PROVE  Progress(a)'
<1>0. /\ IType /\ TypeOK /\ HasPrincipals /\ Planned(a) /\ Progress(a) /\ pc[a] = "read_roles"
      /\ req[a] \in Boot /\ RequestAt(a) /\ work[a] \in Work
  BY DEF IBoots, IAlone, IHeld, IType, TypeOK, Boots, ReadRoles
<1>1. PICK k, d : k = work[a].at /\ d = Declaration(a)
  OBVIOUS
<1>2. k \in DOMAIN d /\ Wanted(a) = d[k] /\ ~AfterEntries(a)
  BY <1>0, <1>1, DeclarationOf DEF RequestAt, Wanted
<1>3. /\ DOMAIN d = 1..Len(d) /\ Len(d) \in Nat
      /\ \A i, j \in DOMAIN d : d[i].name = d[j].name => i = j
  BY <1>0, <1>1, DeclarationOf
<1>4. /\ UNCHANGED <<plan, principals, roles, req, txn>> /\ pc'[a] = "grant"
      /\ work'[a].missing = d[k].roles \ {r.role : r \in RolesSeen(a, d[k].name)}
      /\ work'[a].stale = {r \in Mine(RolesSeen(a, d[k].name)) : r.role \notin d[k].roles}
      /\ work'[a].at = k
  <2>1. work' = [work EXCEPT
              ![a].missing = d[k].roles \ {r.role : r \in RolesSeen(a, d[k].name)},
              ![a].stale = {r \in Mine(RolesSeen(a, d[k].name)) : r.role \notin d[k].roles}]
    BY <1>2 DEF ReadRoles
  <2> QED BY <1>0, <1>1, <2>1 DEF ReadRoles, Goto, db, TypeOK, Work
<1>5. /\ SeesRoles(a)' = SeesRoles(a) /\ Declaration(a)' = d
      /\ SeesPrincipals(a) = SeesPrincipals(a)' /\ ~AfterEntries(a)' /\ Wanted(a)' = d[k]
  BY <1>1, <1>2, <1>4 DEF SeesRoles, Declaration, SeesPrincipals, AfterEntries, Wanted
<1>6. ASSUME NEW i, Applied(a, i) PROVE Applied(a, i)'
  BY <1>1, <1>4, <1>5, <1>6, AppliedKept
<1>7. \A r \in txn[a].added : \E i \in DOMAIN d : i < k /\ r.who = d[i].name
  BY <1>0, <1>1 DEF Progress, Behind
<1>8. \A r \in txn[a].added : r.who # d[k].name
  BY <1>2, <1>3, <1>7
<1>9. work'[a].stale \subseteq roles \ txn[a].added
  BY <1>4, <1>8 DEF RolesSeen, Mine
<1>10. AtEntry(a)'
  <2>1. d[k].name \in SeesPrincipals(a)
    BY <1>0, <1>2 DEF HasPrincipals
  <2>2. \A role \in d[k].roles \ work'[a].missing :
           \E r \in SeesRoles(a) : r.who = d[k].name /\ r.role = role
    BY <1>4 DEF RolesSeen, SeesRoles
  <2>3. \A r \in SeesRoles(a) :
           r.who = d[k].name /\ r.by = Registry => r.role \in d[k].roles \/ r \in work'[a].stale
    BY <1>4 DEF RolesSeen, SeesRoles, Mine
  <2>4. \A s \in work'[a].stale : s.who = d[k].name /\ s.role \notin d[k].roles
    BY <1>4 DEF RolesSeen, Mine
  <2>5. work'[a].missing \subseteq d[k].roles
    BY <1>4
  <2> QED BY <1>5, <2>1, <2>2, <2>3, <2>4, <2>5 DEF AtEntry, Held
<1>11. \A i \in DOMAIN d : i < k => Applied(a, i)'
  BY <1>0, <1>1, <1>6 DEF Progress
<1> QED BY <1>4, <1>5, <1>7, <1>9, <1>10, <1>11 DEF Progress, Behind

LEMMA GrantGoesOn ==
    ASSUME IBoots, NEW a \in Actors, Boots(a), Grant(a), pc'[a] # "done"
    PROVE  Progress(a)'
<1>0. /\ IType /\ TypeOK /\ Planned(a) /\ Progress(a) /\ pc[a] = "grant"
      /\ req[a] \in Boot /\ RequestAt(a) /\ work[a] \in Work /\ txn[a] \in Txn
  BY DEF IBoots, IAlone, IHeld, IType, TypeOK, Boots, Grant
<1>1. PICK k, d : k = work[a].at /\ d = Declaration(a)
  OBVIOUS
<1>2. k \in DOMAIN d /\ Wanted(a) = d[k] /\ ~AfterEntries(a)
  BY <1>0, <1>1, DeclarationOf DEF RequestAt, Wanted
<1>3. /\ DOMAIN d = 1..Len(d) /\ Len(d) \in Nat
      /\ \A i, j \in DOMAIN d : d[i].name = d[j].name => i = j
  BY <1>0, <1>1, DeclarationOf
<1>4. PICK role, x :
         /\ role \in work[a].missing
         /\ x = [who |-> d[k].name, role |-> role, by |-> Registry]
         /\ txn' = [txn EXCEPT ![a].added = txn[a].added \cup {x}]
         /\ work' = [work EXCEPT ![a].missing = work[a].missing \ {role}]
         /\ UNCHANGED <<plan, principals, roles, req, pc>>
  <2>1. \A how : ~EndWith(a, how)
    BY <1>0 DEF EndWith, Goto, TypeOK
  <2>2. PICK role \in work[a].missing :
           /\ txn' = [txn EXCEPT ![a].added = @ \cup
                         {[who |-> d[k].name, role |-> role, by |-> Registry]}]
           /\ work' = [work EXCEPT ![a].missing = @ \ {role}]
           /\ UNCHANGED <<db, req, pc, answer, alone>>
    BY <1>2, <2>1 DEF Grant
  <2> QED BY <1>0, <2>2 DEF db, TypeOK
<1>5. /\ txn'[a].added = txn[a].added \cup {x} /\ txn'[a].removed = txn[a].removed
      /\ txn'[a].principals = txn[a].principals
      /\ work'[a].missing = work[a].missing \ {role}
      /\ work'[a].at = k /\ work'[a].stale = work[a].stale
      /\ x.who = d[k].name /\ x.role = role /\ x.by = Registry
  BY <1>0, <1>1, <1>4 DEF TypeOK, Txn, Work
<1>6. /\ SeesRoles(a)' = SeesRoles(a) \cup {x} /\ Declaration(a)' = d
      /\ SeesPrincipals(a) = SeesPrincipals(a)' /\ ~AfterEntries(a)' /\ Wanted(a)' = d[k]
  BY <1>1, <1>2, <1>4, <1>5 DEF SeesRoles, Declaration, SeesPrincipals, AfterEntries, Wanted
<1>7. \A i \in DOMAIN d : i < k => d[i].name # d[k].name
  BY <1>2, <1>3
<1>8. ASSUME NEW i \in DOMAIN d, i < k PROVE Applied(a, i)'
  <2>1. Applied(a, i) /\ d[i].name # x.who
    BY <1>0, <1>1, <1>5, <1>7, <1>8 DEF Progress
  <2> QED BY <1>1, <1>4, <1>6, <2>1, AppliedKept
<1>9. /\ AtEntry(a) /\ work[a].stale \subseteq roles \ txn[a].added
      /\ \A r \in txn[a].added : \E i \in DOMAIN d : Behind(a, i) /\ r.who = d[i].name
  BY <1>0, <1>1, <1>2 DEF Progress
<1>10. work[a].missing \subseteq d[k].roles /\ \A s \in work[a].stale : s.role \notin d[k].roles
  BY <1>2, <1>9 DEF AtEntry
<1>11. work'[a].stale \subseteq roles' \ txn'[a].added
  BY <1>4, <1>5, <1>9, <1>10
<1>12. \A r \in txn'[a].added : \E i \in DOMAIN d : Behind(a, i)' /\ r.who = d[i].name
  <2>1. \A i : Behind(a, i)' <=> Behind(a, i)
    BY <1>1, <1>4, <1>5 DEF Behind
  <2>2. Behind(a, k)
    BY <1>0, <1>1 DEF Behind
  <2> QED BY <1>2, <1>5, <1>9, <2>1, <2>2
<1>13. AtEntry(a)'
  <2>1. /\ \A role2 \in d[k].roles \ work[a].missing :
              \E r \in SeesRoles(a) : r.who = d[k].name /\ r.role = role2
        /\ d[k].name \in SeesPrincipals(a)
        /\ \A r \in SeesRoles(a) :
              r.who = d[k].name /\ r.by = Registry => r.role \in d[k].roles \/ r \in work[a].stale
        /\ \A s \in work[a].stale : s.who = d[k].name /\ s.role \notin d[k].roles
    BY <1>2, <1>9 DEF AtEntry, Held
  <2>2. \A role2 \in d[k].roles \ work'[a].missing :
           \E r \in SeesRoles(a)' : r.who = d[k].name /\ r.role = role2
    BY <1>5, <1>6, <2>1
  <2>3. \A r \in SeesRoles(a)' :
           r.who = d[k].name /\ r.by = Registry => r.role \in d[k].roles \/ r \in work'[a].stale
    BY <1>4, <1>5, <1>6, <1>10, <2>1
  <2>4. work'[a].missing \subseteq d[k].roles
    BY <1>5, <1>10
  <2> QED BY <1>5, <1>6, <2>1, <2>2, <2>3, <2>4 DEF AtEntry, Held
<1> QED BY <1>0, <1>4, <1>5, <1>6, <1>8, <1>11, <1>12, <1>13 DEF Progress

(* A stale grant goes by its key, and no other grant has it.               *)
LEMMA RevokeGoesOn ==
    ASSUME IBoots, NEW a \in Actors, Boots(a), Revoke(a)
    PROVE  Progress(a)'
<1>0. /\ IType /\ TypeOK /\ Planned(a) /\ Progress(a) /\ pc[a] = "revoke"
      /\ req[a] \in Boot /\ work[a] \in Work /\ txn[a] \in Txn
  BY DEF IBoots, IAlone, IHeld, IType, TypeOK, Boots, Revoke
<1>1. PICK k, d : k = work[a].at /\ d = Declaration(a)
  OBVIOUS
<1>2. PICK s, gone :
         /\ s \in work[a].stale
         /\ gone = {r \in roles : Key(r) = Key(s)}
         /\ txn' = [txn EXCEPT ![a].removed = txn[a].removed \cup gone]
         /\ work' = [work EXCEPT ![a].stale = work[a].stale \ {s}]
         /\ UNCHANGED <<plan, principals, roles, req, pc>>
  BY <1>0 DEF Revoke, db, TypeOK
<1>3. /\ txn'[a].removed = txn[a].removed \cup gone /\ txn'[a].added = txn[a].added
      /\ txn'[a].principals = txn[a].principals
      /\ work'[a].missing = work[a].missing /\ work'[a].todo = work[a].todo
      /\ work'[a].at = k /\ work'[a].stale = work[a].stale \ {s}
  BY <1>0, <1>1, <1>2 DEF TypeOK, Txn, Work
<1>4. /\ Declaration(a)' = d /\ SeesPrincipals(a) = SeesPrincipals(a)'
      /\ (AfterEntries(a)' <=> AfterEntries(a)) /\ Wanted(a)' = Wanted(a)
      /\ Declared(a)' = Declared(a)
  BY <1>1, <1>2, <1>3 DEF Declaration, SeesPrincipals, AfterEntries, Wanted, Declared
<1>5. work[a].stale \subseteq roles \ txn[a].added
  BY <1>0 DEF Progress
<1>6. /\ SeesRoles(a)' \subseteq SeesRoles(a) /\ s \notin SeesRoles(a)'
      /\ \A r \in SeesRoles(a) : r \notin SeesRoles(a)' => r.who = s.who /\ r.role = s.role
  <2>1. SeesRoles(a)' = (roles \ (txn[a].removed \cup gone)) \cup txn[a].added
    BY <1>2, <1>3 DEF SeesRoles
  <2>2. s \in gone /\ s \notin txn[a].added
    BY <1>2, <1>5
  <2>3. \A r \in gone : r.who = s.who /\ r.role = s.role
    BY <1>2 DEF Key
  <2> QED BY <2>1, <2>2, <2>3 DEF SeesRoles
<1>7. \A r : r.who # s.who => (r \in SeesRoles(a)' <=> r \in SeesRoles(a))
  BY <1>6
<1>8. /\ DOMAIN d = 1..Len(d) /\ Len(d) \in Nat /\ k \in Nat
      /\ (AfterEntries(a) <=> k \notin DOMAIN d)
      /\ \A i, j \in DOMAIN d : d[i].name = d[j].name => i = j
  BY <1>0, <1>1, DeclarationOf
<1>9. \A i \in DOMAIN d : i < k => s.who # d[i].name
  <2>1. CASE AfterEntries(a)
    <3>1. s.who \notin Declared(a)
      BY <1>0, <1>2, <2>1 DEF Progress, Sweeps
    <3> QED BY <1>1, <3>1 DEF Declared
  <2>2. CASE ~AfterEntries(a)
    <3>1. s.who = d[k].name
      BY <1>0, <1>1, <1>2, <2>2 DEF Progress, AtEntry, Wanted
    <3> QED BY <1>8, <2>2, <3>1
  <2> QED BY <2>1, <2>2
<1>10. ASSUME NEW i \in DOMAIN d, i < k PROVE Applied(a, i)'
  <2>1. Applied(a, i) /\ s.who # d[i].name
    BY <1>0, <1>1, <1>9, <1>10 DEF Progress
  <2> QED BY <1>1, <1>2, <1>4, <1>7, <2>1, AppliedKept
<1>11. CASE ~AfterEntries(a)
  <2>1. AtEntry(a) /\ work[a].missing = {} /\ Wanted(a) = d[k]
    BY <1>0, <1>1, <1>11 DEF Progress, Wanted
  <2>2. /\ \A role \in d[k].roles : \E r \in SeesRoles(a) : r.who = d[k].name /\ r.role = role
        /\ d[k].name \in SeesPrincipals(a)
        /\ \A r \in SeesRoles(a) :
              r.who = d[k].name /\ r.by = Registry => r.role \in d[k].roles \/ r \in work[a].stale
        /\ \A q \in work[a].stale : q.who = d[k].name /\ q.role \notin d[k].roles
    BY <2>1 DEF AtEntry, Held
  <2>3. \A role \in d[k].roles : \E r \in SeesRoles(a)' : r.who = d[k].name /\ r.role = role
    BY <1>2, <1>6, <2>2
  <2>4. \A r \in SeesRoles(a)' :
           r.who = d[k].name /\ r.by = Registry => r.role \in d[k].roles \/ r \in work'[a].stale
    BY <1>3, <1>6, <2>2
  <2>5. AtEntry(a)'
    BY <1>3, <1>4, <2>1, <2>2, <2>3, <2>4 DEF AtEntry, Held
  <2> QED BY <1>0, <1>2, <1>3, <1>4, <1>5, <1>10, <1>11, <2>1, <2>5, <1>1 DEF Progress, Behind
<1>12. CASE AfterEntries(a)
  <2>1. Sweeps(a)
    BY <1>0, <1>12 DEF Progress
  <2>2. Sweeps(a)'
    BY <1>0, <1>2, <1>3, <1>4, <1>6, <2>1 DEF Sweeps
  <2> QED BY <1>0, <1>2, <1>3, <1>4, <1>5, <1>10, <1>12, <2>2, <1>1 DEF Progress, Behind
<1> QED BY <1>11, <1>12

(* With nothing missing and nothing stale, the entry is as declared.       *)
LEMMA EndRevokesGoesOn ==
    ASSUME IBoots, NEW a \in Actors, Boots(a), EndRevokes(a)
    PROVE  Progress(a)'
<1>0. /\ IType /\ TypeOK /\ Planned(a) /\ Progress(a) /\ pc[a] = "revoke"
      /\ req[a] \in Boot /\ work[a] \in Work /\ work[a].stale = {}
  BY DEF IBoots, IAlone, IHeld, IType, TypeOK, Boots, EndRevokes
<1>1. PICK k, d : k = work[a].at /\ d = Declaration(a)
  OBVIOUS
<1>2. UNCHANGED <<plan, principals, roles, req, txn>>
  BY DEF EndRevokes, db
<1>3. /\ SeesRoles(a)' = SeesRoles(a) /\ Declaration(a)' = d
      /\ SeesPrincipals(a) = SeesPrincipals(a)' /\ Declared(a)' = Declared(a)
  BY <1>1, <1>2 DEF SeesRoles, Declaration, SeesPrincipals, Declared
<1>4. ASSUME NEW i, Applied(a, i) PROVE Applied(a, i)'
  BY <1>2, <1>3, <1>4, AppliedKept
<1>5. /\ DOMAIN d = 1..Len(d) /\ Len(d) \in Nat /\ k \in Nat
      /\ (AfterEntries(a) <=> k \notin DOMAIN d)
  BY <1>0, <1>1, DeclarationOf
<1>6. CASE AfterEntries(a)
  <2>1. pc'[a] = "sweep" /\ work' = work
    BY <1>0, <1>6 DEF EndRevokes, Goto, TypeOK
  <2>2. Sweeps(a) /\ (AfterEntries(a)' <=> AfterEntries(a))
    BY <1>0, <1>1, <1>3, <1>6, <2>1 DEF Progress, AfterEntries
  <2>3. Sweeps(a)'
    BY <1>0, <1>3, <2>1, <2>2 DEF Sweeps
  <2>4. \A i \in DOMAIN d : Behind(a, i) => i < k
    BY <1>1, <1>5, <1>6 DEF Behind
  <2>5. \A i : i < k => Behind(a, i)'
    BY <1>1, <2>1 DEF Behind
  <2> QED BY <1>0, <1>1, <1>2, <1>3, <1>4, <1>6, <2>1, <2>2, <2>3, <2>4, <2>5 DEF Progress
<1>7. CASE ~AfterEntries(a)
  <2>1. pc'[a] = "find_principal" /\ work' = [work EXCEPT ![a].at = k + 1]
    BY <1>0, <1>1, <1>7 DEF EndRevokes, Goto, TypeOK
  <2>2. work'[a].at = k + 1
    BY <1>0, <2>1 DEF TypeOK, Work
  <2>3. Applied(a, k)
    <3>1. AtEntry(a) /\ work[a].missing = {} /\ Wanted(a) = d[k]
      BY <1>0, <1>1, <1>7 DEF Progress, Wanted
    <3> QED BY <1>0, <1>1, <3>1 DEF AtEntry, Applied, Held
  <2>4. \A i \in DOMAIN d : i < k + 1 => Applied(a, i)'
    <3>1. \A i \in DOMAIN d : i < k + 1 => i < k \/ i = k
      BY <1>5
    <3> QED BY <1>0, <1>1, <1>4, <2>3, <3>1 DEF Progress
  <2>5. \A i \in DOMAIN d : Behind(a, i) => i < k + 1
    BY <1>1, <1>5 DEF Behind
  <2>6. \A i : i < k + 1 => Behind(a, i)'
    BY <2>2 DEF Behind
  <2> QED BY <1>0, <1>1, <1>2, <1>3, <2>1, <2>2, <2>4, <2>5, <2>6 DEF Progress
<1> QED BY <1>6, <1>7

LEMMA SweepGoesOn ==
    ASSUME IBoots, NEW a \in Actors, Boots(a), Sweep(a)
    PROVE  Progress(a)'
<1>0. /\ TypeOK /\ Progress(a) /\ pc[a] = "sweep" /\ work[a] \in Work
  BY DEF IBoots, IAlone, IHeld, IType, TypeOK, Boots, Sweep
<1>1. PICK d : d = Declaration(a)
  OBVIOUS
<1>2. PICK m \in work[a].todo :
         /\ work' = [work EXCEPT ![a].todo = work[a].todo \ {m},
                                 ![a].stale = Mine(RolesSeen(a, m))]
         /\ pc'[a] = "revoke" /\ UNCHANGED <<plan, principals, roles, req, txn>>
  BY <1>0 DEF Sweep, Goto, db, TypeOK
<1>3. /\ work'[a].todo = work[a].todo \ {m} /\ work'[a].stale = Mine(RolesSeen(a, m))
      /\ work'[a].at = work[a].at
  BY <1>0, <1>2 DEF TypeOK, Work
<1>4. /\ SeesRoles(a)' = SeesRoles(a) /\ Declaration(a)' = d
      /\ SeesPrincipals(a) = SeesPrincipals(a)' /\ Declared(a)' = Declared(a)
      /\ (AfterEntries(a)' <=> AfterEntries(a))
  BY <1>1, <1>2, <1>3 DEF SeesRoles, Declaration, SeesPrincipals, Declared, AfterEntries
<1>5. ASSUME NEW i, Applied(a, i) PROVE Applied(a, i)'
  BY <1>2, <1>4, <1>5, AppliedKept
<1>6. AfterEntries(a) /\ Sweeps(a)
  BY <1>0 DEF Progress
<1>7. m \notin Declared(a)
  BY <1>2, <1>6 DEF Sweeps
<1>8. \A r \in txn[a].added : r.who \in Declared(a)
  BY <1>0 DEF Progress, Declared
<1>9. \A s \in work'[a].stale : s.who = m /\ s \in roles \ txn[a].added
  BY <1>3, <1>7, <1>8 DEF RolesSeen, Mine
<1>10. Sweeps(a)'
  <2>1. \A r \in SeesRoles(a) : r.by = Registry /\ r.who = m => r \in work'[a].stale
    BY <1>3 DEF SeesRoles, RolesSeen, Mine
  <2>2. \A r \in SeesRoles(a) :
           r.by = Registry /\ r.who \in Machines /\ r.who \notin Declared(a) =>
              r.who \in work[a].todo
    BY <1>0, <1>6 DEF Sweeps
  <2> QED BY <1>2, <1>3, <1>4, <1>6, <1>7, <1>9, <2>1, <2>2 DEF Sweeps
<1>11. \A i : Behind(a, i) => Behind(a, i)'
  BY <1>2, <1>3 DEF Behind
<1> QED BY <1>0, <1>1, <1>2, <1>3, <1>4, <1>5, <1>6, <1>9, <1>10, <1>11 DEF Progress

-----------------------------------------------------------------------------
(* Together.                                                               *)

LEMMA BootGoesOn ==
    ASSUME IBoots, NEW a \in Actors, Moves(a), Boots(a)'
    PROVE  Progress(a)'
<1>0. TypeOK /\ IType /\ IAlone /\ AloneHolds(a) /\ RequestAt(a) /\ HoldsOnly(a)
  BY DEF IBoots, IAlone, IHeld, IType
<1>1. pc'[a] \notin {"idle", "done"}
  BY DEF Boots, InFlight
<1>2. CASE Begin(a)
  <2>1. /\ txn' = txn /\ work' = work /\ pc[a] = "idle"
        /\ pc'[a] = EntryOf(req'[a])
    BY <1>0, <1>2 DEF Begin, TypeOK, Goto
  <2>2. pc'[a] = "find_principal"
    BY <2>1 DEF EntryOf, Boots, Boot
  <2>3. txn[a].added = {} /\ work[a].at = 1
    BY <1>0, <2>1 DEF HoldsOnly, NotYet, NoTxn, IBoots, Planned
  <2>4. \A i \in DOMAIN Declaration(a)' : ~(i < 1)
    <3>1. req'[a] \in Boot
      BY DEF Boots
    <3>2. Declaration(a)' \in Seq(Entry)
      BY <3>1 DEF Boot, Declaration
    <3> QED BY <3>2
  <2> QED BY <2>1, <2>2, <2>3, <2>4 DEF Progress
<1>3. CASE ~Begin(a)
  <2>1. a \in alone /\ a \in InFlight /\ req' = req
    BY <1>0, <1>3, AloneMoves, RequestsStay DEF Boots
  <2>2. Boots(a)
    BY <2>1 DEF Boots
  <2>3. \A how : ~EndWith(a, how)
    BY <1>0, <1>1 DEF EndWith, Goto, TypeOK
  <2>4. Step(a)
    BY <1>3, <2>3 DEF Moves, BreakDeadlock, Crash
  <2>5. req[a] \notin SignIn \cup Patch
    BY <2>2 DEF Boots, SignIn, Patch, Boot
  <2>6. ~(VerifyBearer(a) \/ FindProfile(a) \/ SaveProfile(a) \/ Resolve(a) \/ GrantDefault(a)
             \/ RequireScope(a) \/ PatchProfile(a) \/ SaveFlag(a))
    BY <1>0, <2>5 DEF RequestAt, VerifyBearer, FindProfile, SaveProfile, Resolve, GrantDefault,
                      RequireScope, PatchProfile, SaveFlag
  <2>7. ~Commit(a)
    BY <1>0, <1>1 DEF Commit, Goto, TypeOK
  <2> QED BY <1>1, <2>2, <2>4, <2>6, <2>7, FindGoesOn, InsertGoesOn, ReadGoesOn, GrantGoesOn,
             EndGrantsGoesOn, RevokeGoesOn, EndRevokesGoesOn, SweepGoesOn, EndSweepGoesOn DEF Step
<1> QED BY <1>2, <1>3

(* Whoever another's step leaves alone has ended.                          *)
LEMMA OthersBoots ==
    ASSUME IBoots, NEW a \in Actors, Moves(a), NEW b \in Actors \ {a}
    PROVE  ~Boots(b)'
<1>0. TypeOK /\ IType /\ AloneHolds(b)
  BY DEF IBoots, IAlone, IHeld, IType
<1>1. pc'[b] = pc[b]
  BY <1>0, OthersUntouched
<1>2. CASE Begin(a)
  BY <1>1, <1>2 DEF Begin, Boots, InFlight
<1>3. CASE ~Begin(a)
  <2>1. alone' = alone /\ a \in InFlight
    BY <1>0, <1>3, AloneMoves
  <2> QED BY <1>0, <1>1, <2>1 DEF AloneHolds, Boots, InFlight
<1> QED BY <1>2, <1>3

(* Grants have principals.                                                 *)
LEMMA EntryHasPrincipal ==
    ASSUME IHeld, HasPrincipals, NEW a \in Actors, Moves(a), pc'[a] \in {"read_roles", "grant"}
    PROVE  Wanted(a)'.name \in SeesPrincipals(a)'
<1>0. TypeOK /\ RequestAt(a) /\ work[a] \in Work /\ txn[a] \in Txn
  BY DEF IHeld, IType, TypeOK
<1>1. \A how : ~EndWith(a, how)
  BY <1>0 DEF EndWith, Goto, TypeOK
<1>2. CASE Begin(a)
  BY <1>0, <1>2 DEF Begin, EntryOf, Goto, TypeOK
<1>3. CASE FindPrincipal(a)
  <2>1. /\ Wanted(a).name \in SeesPrincipals(a) /\ UNCHANGED <<principals, req, txn, work>>
    BY <1>0, <1>1, <1>3 DEF FindPrincipal, Goto, TypeOK, db
  <2> QED BY <2>1 DEF SeesPrincipals, Wanted, Declaration
<1>4. CASE InsertPrincipal(a)
  <2>1. /\ UNCHANGED <<principals, req, work>> /\ req[a].kind = "boot"
        /\ txn' = [txn EXCEPT ![a].principals = txn[a].principals \cup {Subject(a)}]
    BY <1>0, <1>1, <1>4 DEF InsertPrincipal, Goto, TypeOK, db
  <2>2. Subject(a) \in txn'[a].principals /\ Subject(a) = Wanted(a).name
    BY <1>0, <2>1 DEF TypeOK, Txn, Subject
  <2> QED BY <2>1, <2>2 DEF SeesPrincipals, Wanted, Declaration
<1>5. CASE ReadRoles(a) \/ Grant(a)
  <2>1. /\ UNCHANGED <<principals, req>> /\ pc[a] \in {"read_roles", "grant"}
        /\ txn'[a].principals = txn[a].principals /\ work'[a].at = work[a].at
    <3>1. CASE ReadRoles(a)
      BY <1>0, <3>1 DEF ReadRoles, TypeOK, Work, db
    <3>2. CASE Grant(a)
      <4>1. PICK S, R : /\ txn' = [txn EXCEPT ![a].added = R]
                        /\ work' = [work EXCEPT ![a].missing = S]
                        /\ UNCHANGED <<principals, req>> /\ pc[a] = "grant"
        BY <1>0, <1>1, <3>2 DEF Grant, TypeOK, db
      <4> QED BY <1>0, <4>1 DEF TypeOK, Work, Txn
    <3> QED BY <1>5, <3>1, <3>2
  <2> QED BY <2>1 DEF HasPrincipals, SeesPrincipals, Wanted, Declaration
<1>6. CASE VerifyBearer(a) \/ FindProfile(a) \/ SaveProfile(a) \/ Resolve(a) \/ GrantDefault(a)
           \/ RequireScope(a) \/ PatchProfile(a) \/ SaveFlag(a)
  BY <1>0, <1>1, <1>6 DEF VerifyBearer, FindProfile, SaveProfile, Resolve, GrantDefault,
                          RequireScope, PatchProfile, SaveFlag, Goto, TypeOK
<1>7. CASE EndGrants(a) \/ Revoke(a) \/ EndRevokes(a) \/ Sweep(a) \/ EndSweep(a) \/ Commit(a)
  BY <1>0, <1>7 DEF EndGrants, Revoke, EndRevokes, Sweep, EndSweep, Commit, Goto, TypeOK
<1>8. CASE BreakDeadlock(a) \/ Crash(a)
  BY <1>1, <1>8 DEF BreakDeadlock, Crash
<1> QED BY <1>2, <1>3, <1>4, <1>5, <1>6, <1>7, <1>8 DEF Moves, Step

LEMMA AddedAtEntry ==
    ASSUME TypeOK, NEW a \in Actors, Moves(a), pc[a] = "grant"
    PROVE  \A r \in txn'[a].added : r \in txn[a].added \/ r.who = Wanted(a).name
<1>1. ASSUME NEW how, EndWith(a, how) PROVE txn'[a].added = {}
  BY <1>1, EndEnds DEF Ended, NoTxn
<1>2. CASE Grant(a) /\ ~\E how : EndWith(a, how)
  <2>1. PICK role : txn' = [txn EXCEPT ![a].added = txn[a].added \cup
                        {[who |-> Wanted(a).name, role |-> role, by |-> Registry]}]
    BY <1>2 DEF Grant, TypeOK
  <2>2. txn'[a].added = txn[a].added \cup
                        {[who |-> Wanted(a).name, role |-> role, by |-> Registry]}
    BY <2>1 DEF TypeOK, Txn
  <2> QED BY <2>2
<1>3. CASE EndGrants(a)
  BY <1>3 DEF EndGrants
<1>4. ~(Begin(a) \/ VerifyBearer(a) \/ FindProfile(a) \/ SaveProfile(a) \/ Resolve(a)
           \/ InsertPrincipal(a) \/ GrantDefault(a) \/ RequireScope(a) \/ PatchProfile(a)
           \/ SaveFlag(a) \/ FindPrincipal(a) \/ ReadRoles(a) \/ Revoke(a) \/ EndRevokes(a)
           \/ Sweep(a) \/ EndSweep(a) \/ Commit(a))
  BY DEF Begin, VerifyBearer, FindProfile, SaveProfile, Resolve, InsertPrincipal, GrantDefault,
         RequireScope, PatchProfile, SaveFlag, FindPrincipal, ReadRoles, Revoke, EndRevokes,
         Sweep, EndSweep, Commit
<1> QED BY <1>1, <1>2, <1>3, <1>4 DEF Moves, Step, BreakDeadlock, Crash

LEMMA PrincipalsStay ==
    ASSUME IHeld, HasPrincipals, NEW a \in Actors, Moves(a)
    PROVE  HasPrincipals'
<1>0. TypeOK /\ IType /\ HoldsOnly(a) /\ txn[a] \in Txn
  BY DEF IHeld, IType, TypeOK
<1>1. ASSUME NEW b \in Actors \ {a}
      PROVE  /\ txn'[b] = txn[b] /\ pc'[b] = pc[b] /\ Wanted(b)' = Wanted(b)
  <2>1. txn'[b] = txn[b] /\ pc'[b] = pc[b] /\ work'[b] = work[b] /\ req'[b] = req[b]
    BY <1>0, OthersUntouched
  <2> QED BY <2>1 DEF Wanted, Declaration
<1>2. /\ principals \subseteq principals'
      /\ \A r \in roles' : r.who \in principals'
      /\ \A r \in txn'[a].added : r.who \in SeesPrincipals(a)'
  <2>0. /\ \A r \in roles : r.who \in principals
        /\ \A r \in txn[a].added : r.who \in principals \cup txn[a].principals
    BY DEF HasPrincipals, SeesPrincipals
  <2>1. CASE Ended(a) /\ UNCHANGED db
    BY <2>0, <2>1 DEF Ended, NoTxn, db
  <2>2. CASE Keeps(a)
    BY <2>0, <2>2 DEF Keeps, SeesPrincipals
  <2>3. CASE Inserts(a)
    <3>1. UNCHANGED <<principals, roles>> /\ txn'[a].added = txn[a].added
          /\ txn[a].principals \subseteq txn'[a].principals
      BY <1>0, <2>3 DEF Inserts, Txn, db
    <3> QED BY <2>0, <3>1 DEF SeesPrincipals
  <2>4. ASSUME NEW m, NEW role, Grants(a, m, role)
        PROVE  /\ principals \subseteq principals'
               /\ \A r \in roles' : r.who \in principals'
               /\ \A r \in txn'[a].added : r.who \in SeesPrincipals(a)'
    <3>1. /\ UNCHANGED <<principals, roles>> /\ pc[a] = "grant"
          /\ txn'[a].principals = txn[a].principals
      BY <1>0, <2>4 DEF Grants, Txn, db
    <3>2. \A r \in txn'[a].added : r \in txn[a].added \/ r.who = Wanted(a).name
      BY <1>0, <3>1, AddedAtEntry
    <3>3. Wanted(a).name \in principals \cup txn[a].principals
      BY <3>1 DEF HasPrincipals, SeesPrincipals
    <3> QED BY <2>0, <3>1, <3>2, <3>3 DEF SeesPrincipals
  <2>5. ASSUME NEW s, Revokes(a, s)
        PROVE  /\ principals \subseteq principals'
               /\ \A r \in roles' : r.who \in principals'
               /\ \A r \in txn'[a].added : r.who \in SeesPrincipals(a)'
    <3>1. /\ UNCHANGED <<principals, roles>> /\ txn'[a].added = txn[a].added
          /\ txn'[a].principals = txn[a].principals
      BY <1>0, <2>5 DEF Revokes, Txn, db
    <3> QED BY <2>0, <3>1 DEF SeesPrincipals
  <2>6. CASE GrantDefault(a)
    <3>1. /\ principals' = principals \cup {req[a].who} /\ txn'[a].added = {}
          /\ roles' = roles \cup {[who |-> req[a].who, role |-> DefaultRole(a), by |-> Provision]}
      BY <1>0, <2>6 DEF GrantDefault, HoldsOnly, NoTxn, TypeOK
    <3> QED BY <2>0, <3>1
  <2>7. CASE SaveFlag(a)
    BY <2>0, <2>7 DEF SaveFlag, SeesPrincipals
  <2>8. CASE Commit(a)
    <3>1. /\ principals' = principals \cup txn[a].principals /\ txn'[a].added = {}
          /\ roles' = (roles \ txn[a].removed) \cup txn[a].added
      BY <1>0, <2>8 DEF Commit, NoTxn, TypeOK
    <3> QED BY <2>0, <3>1
  <2> QED BY <1>0, <2>1, <2>2, <2>3, <2>4, <2>5, <2>6, <2>7, <2>8, StepCases
<1>3. \A b \in Actors : \A r \in txn'[b].added : r.who \in SeesPrincipals(b)'
  BY <1>1, <1>2 DEF HasPrincipals, SeesPrincipals
<1>4. \A b \in Actors : pc'[b] \in {"read_roles", "grant"} => Wanted(b)'.name \in SeesPrincipals(b)'
  BY <1>1, <1>2, EntryHasPrincipal DEF HasPrincipals, SeesPrincipals
<1> QED BY <1>2, <1>3, <1>4 DEF HasPrincipals

LEMMA PlannedStays ==
    ASSUME IBoots, NEW a \in Actors, Moves(a), NEW b \in Actors
    PROVE  Planned(b)'
<1>0. TypeOK /\ IType /\ Planned(b) /\ plan' = plan
  BY PlanStays DEF IBoots, IAlone, IHeld, IType
<1>1. CASE b # a
  <2>1. pc'[b] = pc[b] /\ work'[b] = work[b] /\ req'[b] = req[b]
    BY <1>0, <1>1, OthersUntouched
  <2> QED BY <1>0, <2>1 DEF Planned
<1>2. CASE b = a /\ Begin(a)
  <2>1. req'[a] \in PlanOf[plan].requests[a] /\ pc'[a] # "idle"
    BY <1>0, <1>2 DEF Begin, EntryOf, Goto, TypeOK
  <2> QED BY <1>0, <1>2, <2>1 DEF Planned
<1>3. CASE b = a /\ ~Begin(a)
  <2>1. req' = req /\ pc'[a] # "idle" /\ pc[a] # "idle"
    BY <1>0, <1>3, AloneMoves, RequestsStay DEF InFlight
  <2> QED BY <1>0, <1>3, <2>1 DEF Planned
<1> QED BY <1>1, <1>2, <1>3

LEMMA IBootsStep == IBoots /\ [Next]_vars => IBoots'
<1> SUFFICES ASSUME IBoots, [Next]_vars PROVE IBoots'
  OBVIOUS
<1>0. TypeOK /\ IHeld /\ IAlone /\ IAlone' /\ HasPrincipals
  BY IAloneStep DEF IBoots, IAlone, IHeld, IType
<1>1. ASSUME NEW a \in Actors, Moves(a) PROVE IBoots'
  <2>1. HasPrincipals'
    BY <1>0, <1>1, PrincipalsStay
  <2>2. \A b \in Actors : Planned(b)'
    BY <1>1, PlannedStays
  <2>3. \A b \in Actors : Boots(b)' => Progress(b)'
    BY <1>1, BootGoesOn, OthersBoots
  <2> QED BY <1>0, <2>1, <2>2, <2>3 DEF IBoots
<1>2. ASSUME NEW g \in HandGrants, HandGrant(g) PROVE IBoots'
  <2>1. /\ g.who \in principals /\ UNCHANGED <<plan, principals, req, pc, txn, work>>
        /\ roles' = roles \cup {[who |-> g.who, role |-> g.role, by |-> "hand"]}
        /\ alone' = alone \ InFlight
    BY <1>2 DEF HandGrant
  <2>2. \A b \in Actors : ~Boots(b)'
    BY <2>1 DEF Boots, InFlight
  <2>3. HasPrincipals' /\ \A b \in Actors : Planned(b)'
    BY <1>0, <2>1 DEF IBoots, HasPrincipals, SeesPrincipals, Planned, Wanted, Declaration
  <2> QED BY <1>0, <2>2, <2>3 DEF IBoots
<1>3. CASE UNCHANGED vars
  <2>1. HasPrincipals' /\ \A b \in Actors : Planned(b)'
    BY <1>0, <1>3 DEF IBoots, HasPrincipals, SeesPrincipals, Planned, Wanted, Declaration, vars, db
  <2>2. ASSUME NEW b \in Actors, Boots(b)' PROVE Progress(b)'
    <3>1. Boots(b) /\ Progress(b)
      BY <1>3, <2>2 DEF IBoots, Boots, InFlight, vars
    <3>2. /\ SeesRoles(b)' = SeesRoles(b) /\ Declaration(b)' = Declaration(b)
          /\ SeesPrincipals(b)' = SeesPrincipals(b) /\ Wanted(b)' = Wanted(b)
          /\ Declared(b)' = Declared(b) /\ (AfterEntries(b)' <=> AfterEntries(b))
      BY <1>3 DEF vars, db, SeesRoles, Declaration, SeesPrincipals, Wanted, Declared, AfterEntries
    <3>3. ASSUME NEW i, Applied(b, i) PROVE Applied(b, i)'
      BY <1>3, <3>2, <3>3, AppliedKept DEF vars, db
    <3>4. (AtEntry(b) => AtEntry(b)') /\ (Sweeps(b) => Sweeps(b)')
      BY <1>3, <3>2 DEF AtEntry, Held, Sweeps, vars
    <3> QED BY <1>3, <3>1, <3>2, <3>3, <3>4 DEF Progress, Behind, vars, db
  <2> QED BY <1>0, <2>1, <2>2 DEF IBoots
<1> QED BY <1>1, <1>2, <1>3 DEF Next, Quiet, Moves

LEMMA IBootsInit == Init => IBoots
<1> SUFFICES ASSUME Init PROVE IBoots
  OBVIOUS
<1>1. HasPrincipals
  BY DEF Init, HasPrincipals, NoTxn
<1>2. \A a \in Actors : Planned(a) /\ ~Boots(a)
  BY DEF Init, Planned, Boots, NoWork
<1> QED BY <1>1, <1>2, IAloneInit DEF IBoots

(* A boot that nothing overlapped leaves the store as it is declared,      *)
(* whatever earlier boots, grants by hand and crashes have left there: each*)
(* machine with known roles has a principal that holds them and nothing    *)
(* else that reconciliation granted, and no other machine holds any of it. *)
THEOREM QuietBoots == Spec => QuietBootApplies
<1>1. ASSUME IBoots, [Next]_vars, NEW a \in Actors, Reconciled(a), a \in alone
      PROVE  /\ \A i \in DOMAIN Declaration(a) :
                   LET m == Declaration(a)[i].name
                       wanted == Declaration(a)[i].roles
                   IN  wanted \subseteq PlanOf[plan].roles =>
                          /\ m \in principals'
                          /\ wanted \subseteq HeldBy(m, roles')
                          /\ HeldBy(m, Mine(roles')) \subseteq wanted
             /\ \A m \in Machines \ Declared(a) : HeldBy(m, Mine(roles')) = {}
  <2>0. IType /\ TypeOK /\ RequestAt(a) /\ Planned(a)
    BY <1>1 DEF IBoots, IAlone, IHeld, IType
  <2>1. /\ pc[a] = "commit" /\ principals' = SeesPrincipals(a) /\ roles' = SeesRoles(a)
    BY <1>1, <2>0, ReconciledCommits DEF Commit, SeesPrincipals, SeesRoles
  <2>2. req[a] \in Boot /\ Progress(a)
    BY <1>1, <2>0, <2>1 DEF IBoots, Boots, InFlight, RequestAt
  <2>3. /\ DOMAIN Declaration(a) = 1..Len(Declaration(a)) /\ Len(Declaration(a)) \in Nat
        /\ work[a].at \in Nat /\ AfterEntries(a)
    BY <2>0, <2>1, <2>2, DeclarationOf DEF Progress
  <2>4. \A i \in DOMAIN Declaration(a) : i < work[a].at
    BY <2>3 DEF AfterEntries
  <2>5. ASSUME NEW i \in DOMAIN Declaration(a), NEW m, NEW wanted,
               m = Declaration(a)[i].name, wanted = Declaration(a)[i].roles,
               wanted \subseteq PlanOf[plan].roles
        PROVE  /\ m \in principals'
               /\ wanted \subseteq HeldBy(m, roles')
               /\ HeldBy(m, Mine(roles')) \subseteq wanted
    <3>1. Applied(a, i)
      BY <2>2, <2>4 DEF Progress
    <3>2. /\ m \in SeesPrincipals(a)
          /\ \A role \in wanted : \E r \in SeesRoles(a) : r.who = m /\ r.role = role
          /\ \A r \in SeesRoles(a) : r.who = m /\ r.by = Registry => r.role \in wanted
      BY <2>5, <3>1 DEF Applied, Held
    <3> QED BY <2>1, <3>2 DEF HeldBy, Mine
  <2>6. ASSUME NEW m \in Machines \ Declared(a) PROVE HeldBy(m, Mine(roles')) = {}
    <3>1. Sweeps(a)
      BY <2>1, <2>2, <2>3 DEF Progress
    <3>2. \A r \in SeesRoles(a) : r.by = Registry => r.who # m
      BY <2>1, <2>6, <3>1 DEF Sweeps
    <3> QED BY <2>1, <3>2 DEF HeldBy, Mine
  <2> QED BY <2>5, <2>6
<1>2. IBoots /\ [Next]_vars =>
         [\A a \in Actors : Reconciled(a) /\ a \in alone =>
             /\ \A i \in DOMAIN Declaration(a) :
                   LET m == Declaration(a)[i].name
                       wanted == Declaration(a)[i].roles
                   IN  wanted \subseteq PlanOf[plan].roles =>
                          /\ m \in principals'
                          /\ wanted \subseteq HeldBy(m, roles')
                          /\ HeldBy(m, Mine(roles')) \subseteq wanted
             /\ \A m \in Machines \ Declared(a) : HeldBy(m, Mine(roles')) = {}]_vars
  BY <1>1
<1> QED BY <1>2, IBootsInit, IBootsStep, PTL DEF Spec, QuietBootApplies
=============================================================================
