SPECIFICATION Spec
CONSTANTS
    a1 = a1
    a2 = a2
    a3 = a3
    a4 = a4
    ann = ann
    bo = bo
    m1 = m1
    m2 = m2
    r1 = r1
    r2 = r2
    r3 = r3
    people = people
    boots = boots
    unready = unready
    NoOne = NoOne
    AdminRole = AdminRole
    ReaderRole = ReaderRole
    Actors = {a1, a2, a3, a4}
    People = {ann, bo}
    Machines = {m1, m2}
    Admins = {ann}
    Roles = {AdminRole, ReaderRole, r1, r2, r3}
    GrantScopes = {AdminRole}
    HandGrants <- MCHandGrants
    Plans = {people, boots, unready}
    PlanOf <- IdentityPlans
INVARIANTS
    KnownPeopleHoldOneRole
    AdminsMadeByAdmins
PROPERTIES
    BootTouchesOnlyItsOwn
    QuietBootApplies
    EveryActorEnds
