------------------------------ MODULE Identity ------------------------------
(***************************************************************************)
(* Who the service knows and what they may do: the profiles and principals *)
(* that POST /v1/wcs/me creates, the admin's patch of a profile, and the   *)
(* reconciliation of the declared machines that every boot runs.           *)
(*                                                                         *)
(* A request and a boot are both an actor with one database session.  A    *)
(* sign-in commits twice: the profile, then the principal with its first   *)
(* role.  A boot is one transaction.  As in WcsPipeline, a statement reads *)
(* what is committed and what its own transaction wrote, and waits for     *)
(* another transaction that holds a key it inserts or a row it deletes.    *)
(*                                                                         *)
(* An operator named Op_Fault is Op with a plausible bug, used by no       *)
(* action.                                                                 *)
(***************************************************************************)
EXTENDS Naturals, Sequences, FiniteSets

CONSTANTS
    Actors,        \* the requests served and the boots run, one session each
    Plans,         \* names of the workloads that may turn out to happen
    PlanOf,        \* what each of them is
    People, Machines,
    Admins,        \* the people whom migration 026 made admins
    Roles,         \* role names a declaration may hold
    AdminRole,     \* wcs-admin
    ReaderRole,    \* wcs-reader, HUMAN_DEFAULT_ROLE
    GrantScopes,   \* the roles that carry wcs.grants.write
    HandGrants,    \* [who, role]: the one-off grants someone may make by hand
    NoOne

SignIn == [kind : {"sign_in"}, who : People]
Patch  == [kind : {"patch"}, caller : People \cup Machines, who : People, admin : BOOLEAN]
Entry  == [name : Machines, roles : SUBSET Roles]
Boot   == [kind : {"boot"}, declaration : Seq(Entry)]
Request == SignIn \cup Patch \cup Boot

(* A workload: what the migrations left in the store (the role vocabulary, *)
(* and whether the issuers of people and of machines have a row), what an  *)
(* actor may turn out to do, and how many are under way at once.           *)
Plan == [roles : SUBSET Roles, people_issuer : BOOLEAN, machine_issuer : BOOLEAN,
         requests : [Actors -> SUBSET Request], width : Nat]

ASSUME ConstantsAssumption ==
    /\ IsFiniteSet(Actors)
    /\ PlanOf \in [Plans -> Plan]
    /\ Admins \subseteq People
    /\ People \cap Machines = {}
    /\ {AdminRole, ReaderRole} \subseteq Roles
    /\ AdminRole # ReaderRole
    /\ GrantScopes \subseteq Roles
    /\ NoOne \notin Request \cup People \cup Machines

(* Migration 023 adds the issuer of people together with the two roles     *)
(* that provisioning grants, which nothing removes.                        *)
ASSUME SeedAssumption ==
    \A p \in Plans : PlanOf[p].people_issuer => {AdminRole, ReaderRole} \subseteq PlanOf[p].roles

ASSUME HandGrantsAssumption == HandGrants \subseteq [who : People \cup Machines, role : Roles]

(* "The name is the whole identity": a machine is declared once.           *)
ASSUME DeclarationAssumption ==
    \A p \in Plans, a \in Actors : \A r \in PlanOf[p].requests[a] :
        r.kind = "boot" =>
            \A i, j \in DOMAIN r.declaration :
                r.declaration[i].name = r.declaration[j].name => i = j

VARIABLES
    plan,          \* the workload that happens
    profile,       \* wcs_user_profiles: absent, or with is_admin unset or set
    principals,    \* identity_principals, by subject
    roles,         \* identity_principal_roles
    req,           \* what an actor does
    pc,            \* the statement it is at
    answer,        \* how it ended
    txn,           \* the uncommitted writes of its session
    work,          \* its local variables
    alone          \* the actors that nobody has overlapped so far

db == <<plan, profile, principals, roles>>
vars == <<db, req, pc, answer, txn, work, alone>>

Registry  == "identity_registry"
Provision == "provision_human"
RoleRow == [who : People \cup Machines, role : Roles,
            by : {Registry, Provision, "migration_026", "hand"}]

Label == {"idle", "verify", "find_profile", "save_profile", "resolve", "authorize",
          "patch_profile", "save_flag", "find_principal", "insert_principal",
          "grant_default", "read_roles", "grant", "revoke", "sweep", "commit", "done"}

Txn == [principals : SUBSET (People \cup Machines), added : SUBSET RoleRow,
        removed : SUBSET RoleRow]
NoTxn == [principals |-> {}, added |-> {}, removed |-> {}]

Work == [admin : BOOLEAN, known : BOOLEAN, at : Nat, todo : SUBSET Machines,
         missing : SUBSET Roles, stale : SUBSET RoleRow]
NoWork == [admin |-> FALSE, known |-> FALSE, at |-> 1, todo |-> {}, missing |-> {},
           stale |-> {}]

Init ==
    /\ plan \in Plans
    /\ profile = [w \in People |-> IF w \in Admins THEN "admin" ELSE "none"]
    /\ principals = Admins
    /\ roles = [who : Admins, role : {AdminRole, ReaderRole}, by : {"migration_026"}]
    /\ req = [a \in Actors |-> NoOne]
    /\ pc = [a \in Actors |-> "idle"]
    /\ answer = [a \in Actors |-> "none"]
    /\ txn = [a \in Actors |-> NoTxn]
    /\ work = [a \in Actors |-> NoWork]
    /\ alone = {}

-----------------------------------------------------------------------------
(* What an actor sees and what it waits for.                               *)

Others(a) == Actors \ {a}
InFlight == {a \in Actors : pc[a] \notin {"idle", "done"}}

SeesPrincipals(a) == principals \cup txn[a].principals
RolesSeen(a, who) == {r \in (roles \ txn[a].removed) \cup txn[a].added : r.who = who}

Declaration(a) == req[a].declaration
Declared(a) == {Declaration(a)[i].name : i \in DOMAIN Declaration(a)}
Wanted(a) == Declaration(a)[work[a].at]

(* The principal an actor is about to insert.                              *)
Subject(a) == IF req[a].kind = "boot" THEN Wanted(a).name ELSE req[a].who

Key(r) == <<r.who, r.role>>
KeysHeld(b) == {Key(r) : r \in txn[b].added \cup txn[b].removed}

(* The inserts and deletes a may send next: any order within one flush.    *)
BlockedFor(a, key) == {b \in Others(a) : key \in KeysHeld(b)}
BlockedBy(a) ==
    CASE pc[a] = "insert_principal" -> {b \in Others(a) : Subject(a) \in txn[b].principals}
      [] pc[a] = "grant" /\ work[a].missing # {} ->
           LET ways == {BlockedFor(a, <<Wanted(a).name, r>>) : r \in work[a].missing}
           IN  IF {} \in ways THEN {} ELSE UNION ways
      [] pc[a] = "revoke" /\ work[a].stale # {} ->
           LET ways == {BlockedFor(a, Key(r)) : r \in work[a].stale}
           IN  IF {} \in ways THEN {} ELSE UNION ways
      [] OTHER -> {}

WaitsWithin(S) == S # {} /\ \A a \in S : BlockedBy(a) \cap S # {}
Deadlocked(a) ==
    BlockedBy(a) # {} /\ \E S \in SUBSET Actors :
        /\ a \in S
        /\ WaitsWithin(S)
        /\ \A R \in SUBSET S : WaitsWithin(R) => R = S

Goto(a, label) == pc' = [pc EXCEPT ![a] = label]

EndWith_KeepsLocks(a, how) ==
    /\ Goto(a, "done")
    /\ answer' = [answer EXCEPT ![a] = how]
    /\ UNCHANGED <<db, req, txn, work, alone>>

(* The actor ends; what it has not committed is rolled back.               *)
EndWith(a, how) ==
    /\ Goto(a, "done")
    /\ answer' = [answer EXCEPT ![a] = how]
    /\ txn' = [txn EXCEPT ![a] = NoTxn]
    /\ work' = [work EXCEPT ![a] = NoWork]
    /\ UNCHANGED <<db, req, alone>>

EntryOf(r) == IF r.kind = "boot" THEN "find_principal" ELSE "verify"

(* reconcile reads the issuer only when it has machines to create.         *)
Begin(a) ==
    /\ pc[a] = "idle"
    /\ Cardinality(InFlight) < PlanOf[plan].width
    /\ \E r \in PlanOf[plan].requests[a] :
          /\ req' = [req EXCEPT ![a] = r]
          /\ Goto(a, EntryOf(r))
    /\ alone' = IF InFlight = {} THEN (alone \cup {a}) ELSE alone \ InFlight
    /\ UNCHANGED <<db, answer, txn, work>>

-----------------------------------------------------------------------------
(* POST /v1/wcs/me: upsert_wcs_me, then provision_human.                   *)

(* verify_bearer: an external verifier accepts the credential or not.      *)
VerifyBearer(a) ==
    /\ pc[a] = "verify"
    /\ \/ EndWith(a, "401")
       \/ /\ Goto(a, IF req[a].kind = "patch" THEN "authorize" ELSE "find_profile")
          /\ UNCHANGED <<db, req, answer, txn, work, alone>>

FindProfile(a) ==
    /\ pc[a] = "find_profile"
    /\ LET found == profile[req[a].who]
       IN  work' = [work EXCEPT ![a].known = (found # "none"),
                                ![a].admin = (found = "admin")]
    /\ Goto(a, "save_profile")
    /\ UNCHANGED <<db, req, answer, txn, alone>>

(* Insert and commit, or set the identity fields of the row that was found *)
(* and commit.  A profile inserted since the lookup violates the primary   *)
(* key.  The loaded is_admin survives the commit.                          *)
SaveProfile(a) ==
    /\ pc[a] = "save_profile"
    /\ IF ~work[a].known /\ profile[req[a].who] # "none"
       THEN EndWith(a, "500")
       ELSE /\ profile' = [profile EXCEPT ![req[a].who] = IF @ = "none" THEN "member" ELSE @]
            /\ Goto(a, "resolve")
            /\ UNCHANGED <<plan, principals, roles, req, answer, txn, work, alone>>

(* A known principal ends the call; an issuer without a row cannot have    *)
(* principals, and the call succeeds without one.                          *)
Resolve(a) ==
    /\ pc[a] = "resolve"
    /\ IF req[a].who \in principals \/ ~PlanOf[plan].people_issuer
       THEN EndWith(a, "200")
       ELSE Goto(a, "insert_principal") /\ UNCHANGED <<db, req, answer, txn, work, alone>>

(* The principal committed before its first role is added.                 *)
InsertPrincipal_Commits(a) ==
    /\ pc[a] = "insert_principal"
    /\ BlockedBy(a) = {}
    /\ IF Subject(a) \in principals
       THEN EndWith(a, "500")
       ELSE /\ principals' = principals \cup {Subject(a)}
            /\ Goto(a, IF req[a].kind = "boot" THEN "read_roles" ELSE "grant_default")
            /\ UNCHANGED <<plan, profile, roles, req, answer, txn, work, alone>>

(* session.add and flush: waits for a transaction that inserted the same   *)
(* principal, and violates the unique key once that one has committed.     *)
InsertPrincipal(a) ==
    /\ pc[a] = "insert_principal"
    /\ BlockedBy(a) = {}
    /\ IF Subject(a) \in principals
       THEN EndWith(a, IF req[a].kind = "boot" THEN "failed" ELSE "500")
       ELSE /\ txn' = [txn EXCEPT ![a].principals = @ \cup {Subject(a)}]
            /\ Goto(a, IF req[a].kind = "boot" THEN "read_roles" ELSE "grant_default")
            /\ UNCHANGED <<db, req, answer, work, alone>>

DefaultRole_Swapped(a) == IF work[a].admin THEN ReaderRole ELSE AdminRole
DefaultRole(a) == IF work[a].admin THEN AdminRole ELSE ReaderRole

(* The first role and the commit of the second transaction.  The foreign   *)
(* key of the grant finds the role: see SeedAssumption.                    *)
GrantDefault(a) ==
    /\ pc[a] = "grant_default"
    /\ principals' = principals \cup txn[a].principals
    /\ roles' = roles \cup {[who |-> req[a].who, role |-> DefaultRole(a), by |-> Provision]}
    /\ Goto(a, "done")
    /\ answer' = [answer EXCEPT ![a] = "200"]
    /\ txn' = [txn EXCEPT ![a] = NoTxn]
    /\ work' = [work EXCEPT ![a] = NoWork]
    /\ UNCHANGED <<plan, profile, req, alone>>

-----------------------------------------------------------------------------
(* PATCH /v1/wcs/admin/users/{user_id}.                                    *)

(* require_scope: resolve, load the roles, decide.                         *)
Allowed(who) == \E r \in roles : r.who = who /\ r.role \in GrantScopes

RequireScope(a) ==
    /\ pc[a] = "authorize"
    /\ IF Allowed(req[a].caller)
       THEN Goto(a, "patch_profile") /\ UNCHANGED <<db, req, answer, txn, work, alone>>
       ELSE EndWith(a, "403")

PatchProfile(a) ==
    /\ pc[a] = "patch_profile"
    /\ IF profile[req[a].who] = "none"
       THEN EndWith(a, "404")
       ELSE /\ work' = [work EXCEPT ![a].admin = (profile[req[a].who] = "admin")]
            /\ Goto(a, "save_flag")
            /\ UNCHANGED <<db, req, answer, txn, alone>>

(* The commit sends an UPDATE only where the value differs from the loaded *)
(* one: a flag someone changed meanwhile then stays as they left it.       *)
SaveFlag(a) ==
    /\ pc[a] = "save_flag"
    /\ profile' = IF req[a].admin = work[a].admin THEN profile
                  ELSE [profile EXCEPT ![req[a].who] = IF req[a].admin THEN "admin" ELSE "member"]
    /\ Goto(a, "done")
    /\ answer' = [answer EXCEPT ![a] = "200"]
    /\ work' = [work EXCEPT ![a] = NoWork]
    /\ UNCHANGED <<plan, principals, roles, req, txn, alone>>

-----------------------------------------------------------------------------
(* reconcile: one transaction over the declared machines, in their order.  *)

AfterEntries_SkipsLast(a) == work[a].at >= Len(Declaration(a))
AfterEntries(a) == work[a].at > Len(Declaration(a))

(* The next entry: one that declares an unknown role is skipped.  After    *)
(* the last, the principals of undeclared machines are swept.              *)
FindPrincipal(a) ==
    /\ pc[a] = "find_principal"
    /\ UNCHANGED <<db, req, alone>>
    /\ CASE Declaration(a) # <<>> /\ ~PlanOf[plan].machine_issuer -> EndWith(a, "nothing")
         [] (Declaration(a) = <<>> \/ PlanOf[plan].machine_issuer) /\ AfterEntries(a) ->
              /\ Goto(a, "sweep")
              /\ work' = [work EXCEPT ![a].todo =
                             {m \in Machines : m \in SeesPrincipals(a)} \ Declared(a)]
              /\ UNCHANGED <<answer, txn>>
         [] OTHER ->
              IF Wanted(a).roles \subseteq PlanOf[plan].roles
              THEN /\ Goto(a, IF Wanted(a).name \in SeesPrincipals(a)
                              THEN "read_roles" ELSE "insert_principal")
                   /\ UNCHANGED <<answer, txn, work>>
              ELSE /\ work' = [work EXCEPT ![a].at = @ + 1]
                   /\ UNCHANGED <<pc, answer, txn>>

Mine_All(S) == S
(* The grants this module made itself: the only ones it removes.           *)
Mine(S) == {r \in S : r.by = Registry}

ReadRoles(a) ==
    /\ pc[a] = "read_roles"
    /\ LET current == RolesSeen(a, Wanted(a).name)
       IN  work' = [work EXCEPT
              ![a].missing = Wanted(a).roles \ {r.role : r \in current},
              ![a].stale = {r \in Mine(current) : r.role \notin Wanted(a).roles}]
    /\ Goto(a, "grant")
    /\ UNCHANGED <<db, req, answer, txn, alone>>

(* The INSERT of one missing role.  A key committed since the roles were   *)
(* read violates the primary key, and the whole reconciliation is lost.    *)
Grant(a) ==
    /\ pc[a] = "grant"
    /\ \E role \in work[a].missing :
          /\ BlockedFor(a, <<Wanted(a).name, role>>) = {}
          /\ IF \E r \in roles \ txn[a].removed : Key(r) = <<Wanted(a).name, role>>
             THEN EndWith(a, "failed")
             ELSE /\ txn' = [txn EXCEPT ![a].added = @ \cup
                        {[who |-> Wanted(a).name, role |-> role, by |-> Registry]}]
                  /\ work' = [work EXCEPT ![a].missing = @ \ {role}]
                  /\ UNCHANGED <<db, req, pc, answer, alone>>

EndGrants(a) ==
    /\ pc[a] = "grant"
    /\ work[a].missing = {}
    /\ Goto(a, "revoke")
    /\ UNCHANGED <<db, req, answer, txn, work, alone>>

(* The lookup by key and the DELETE of one stale grant: whichever row has  *)
(* the key by then, if one still has.                                      *)
Revoke(a) ==
    /\ pc[a] = "revoke"
    /\ \E s \in work[a].stale :
          /\ BlockedFor(a, Key(s)) = {}
          /\ txn' = [txn EXCEPT ![a].removed = @ \cup {r \in roles : Key(r) = Key(s)}]
          /\ work' = [work EXCEPT ![a].stale = @ \ {s}]
    /\ UNCHANGED <<db, req, pc, answer, alone>>

EndRevokes(a) ==
    /\ pc[a] = "revoke"
    /\ work[a].stale = {}
    /\ IF AfterEntries(a)
       THEN Goto(a, "sweep") /\ work' = work
       ELSE Goto(a, "find_principal") /\ work' = [work EXCEPT ![a].at = @ + 1]
    /\ UNCHANGED <<db, req, answer, txn, alone>>

(* The grants of one machine that is no longer declared.                   *)
Sweep(a) ==
    /\ pc[a] = "sweep"
    /\ \E m \in work[a].todo :
          /\ work' = [work EXCEPT ![a].todo = @ \ {m}, ![a].stale = Mine(RolesSeen(a, m))]
          /\ Goto(a, "revoke")
    /\ UNCHANGED <<db, req, answer, txn, alone>>

EndSweep(a) ==
    /\ pc[a] = "sweep"
    /\ work[a].todo = {}
    /\ Goto(a, "commit")
    /\ UNCHANGED <<db, req, answer, txn, work, alone>>

Commit(a) ==
    /\ pc[a] = "commit"
    /\ principals' = principals \cup txn[a].principals
    /\ roles' = (roles \ txn[a].removed) \cup txn[a].added
    /\ Goto(a, "done")
    /\ answer' = [answer EXCEPT ![a] = "reconciled"]
    /\ txn' = [txn EXCEPT ![a] = NoTxn]
    /\ work' = [work EXCEPT ![a] = NoWork]
    /\ UNCHANGED <<plan, profile, req, alone>>

-----------------------------------------------------------------------------
(* The environment.                                                        *)

(* A role granted by hand for a one-off.  It overlaps whoever is in flight. *)
HandGrant(g) ==
    /\ g.who \in principals
    /\ \A r \in roles : Key(r) # <<g.who, g.role>>
    /\ \A a \in Actors : <<g.who, g.role>> \notin KeysHeld(a)
    /\ roles' = roles \cup {[who |-> g.who, role |-> g.role, by |-> "hand"]}
    /\ alone' = alone \ InFlight
    /\ UNCHANGED <<plan, profile, principals, req, pc, answer, txn, work>>

Crash(a) == pc[a] \notin {"idle", "done"} /\ EndWith(a, "crashed")

BreakDeadlock(a) ==
    /\ Deadlocked(a)
    /\ EndWith(a, IF req[a].kind = "boot" THEN "failed" ELSE "500")

Step(a) ==
    \/ VerifyBearer(a) \/ FindProfile(a) \/ SaveProfile(a) \/ Resolve(a)
    \/ InsertPrincipal(a) \/ GrantDefault(a)
    \/ RequireScope(a) \/ PatchProfile(a) \/ SaveFlag(a)
    \/ FindPrincipal(a) \/ ReadRoles(a) \/ Grant(a) \/ EndGrants(a)
    \/ Revoke(a) \/ EndRevokes(a) \/ Sweep(a) \/ EndSweep(a) \/ Commit(a)

(* Nobody is under way: the service waits for the next request or deploy.  *)
Quiet == InFlight = {} /\ UNCHANGED vars

Next ==
    \/ \E a \in Actors : Begin(a) \/ Step(a) \/ BreakDeadlock(a) \/ Crash(a)
    \/ \E g \in HandGrants : HandGrant(g)
    \/ Quiet

Fairness == \A a \in Actors : WF_vars(Step(a) \/ BreakDeadlock(a))
Spec == Init /\ [][Next]_vars /\ Fairness

-----------------------------------------------------------------------------
(* Properties.                                                             *)

TypeOK ==
    /\ plan \in Plans
    /\ profile \in [People -> {"none", "member", "admin"}]
    /\ principals \subseteq People \cup Machines
    /\ roles \subseteq RoleRow
    /\ req \in [Actors -> Request \cup {NoOne}]
    /\ pc \in [Actors -> Label]
    /\ answer \in [Actors -> {"none", "200", "401", "403", "404", "500", "nothing",
                              "reconciled", "failed", "crashed"}]
    /\ txn \in [Actors -> Txn]
    /\ work \in [Actors -> Work]
    /\ alone \subseteq Actors

(* A person provisioned by a sign-in holds exactly one grant that came     *)
(* with the principal (auth.provision_human): sign-ins that race, fail or  *)
(* are cut off between their two commits leave no principal without a role *)
(* and none with two.  The admins, whom the migration made principals with *)
(* its own grants, are never provisioned again.  And who was answered 200  *)
(* is known, unless the issuer has no row.                                 *)
KnownPeopleHoldOneRole ==
    /\ \A p \in People \cap principals :
          LET given == {r \in roles : r.who = p /\ r.by = Provision}
          IN  Cardinality(given) = (IF p \in Admins THEN 0 ELSE 1)
    /\ \A a \in Actors :
          pc[a] = "done" /\ answer[a] = "200" /\ req[a].kind = "sign_in" =>
             /\ profile[req[a].who] # "none"
             /\ PlanOf[plan].people_issuer => req[a].who \in principals

(* "is_admin mirrors the existing profile flag on first creation only":    *)
(* whoever is provisioned as an admin had the flag set by an admin's patch *)
(* between a first sign-in, whose second transaction was lost, and the one *)
(* that provisioned them.                                                  *)
AdminsMadeByAdmins ==
    \A p \in People \ Admins :
        (\E r \in roles : r.who = p /\ r.role = AdminRole /\ r.by = Provision) =>
            \E a \in Actors : /\ answer[a] = "200"
                              /\ req[a].kind = "patch" /\ req[a].who = p /\ req[a].admin

Reconciled(a) == answer[a] # "reconciled" /\ answer'[a] = "reconciled"

(* "Two deliberate limits on what reconciliation touches": a boot changes  *)
(* no profile, no principal and no role of a person; it adds only grants   *)
(* of its own, and, if nothing overlapped it, removes only grants that     *)
(* reconciliation made.  (A grant made by hand after a boot read the roles *)
(* may be removed by key in place of the one it read.)                     *)
BootTouchesOnlyItsOwn ==
    [][\A a \in Actors : Reconciled(a) =>
          /\ profile' = profile
          /\ principals \subseteq principals'
          /\ principals' \ principals \subseteq Machines
          /\ \A r \in roles' \ roles : r.who \in Machines /\ r.by = Registry
          /\ \A r \in roles \ roles' : r.who \in Machines /\ (a \in alone => r.by = Registry)]_vars

(* "Make the store match the declaration": after a boot that nothing       *)
(* overlapped, whatever earlier boots left unfinished, each declared       *)
(* machine whose roles are known has a principal that holds them all and   *)
(* no other grant of reconciliation, and a machine that is not declared    *)
(* holds none.                                                             *)
HeldBy(m, R) == {r.role : r \in {q \in R : q.who = m}}
QuietBootApplies ==
    [][\A a \in Actors : Reconciled(a) /\ a \in alone =>
          /\ \A i \in DOMAIN Declaration(a) :
                LET m == Declaration(a)[i].name
                    wanted == Declaration(a)[i].roles
                IN  wanted \subseteq PlanOf[plan].roles =>
                       /\ m \in principals'
                       /\ wanted \subseteq HeldBy(m, roles')
                       /\ HeldBy(m, Mine(roles')) \subseteq wanted
          /\ \A m \in Machines \ Declared(a) : HeldBy(m, Mine(roles')) = {}]_vars

(* Every call and every boot ends, whatever it overlaps and waits for:     *)
(* nothing waits forever for a principal or a grant of another session.    *)
EveryActorEnds == <>[](InFlight = {})
=============================================================================
