SPECIFICATION Spec
CONSTANTS
    r1 = r1
    r2 = r2
    r3 = r3
    m1 = m1
    m2 = m2
    m3 = m3
    m4 = m4
    NoOne = NoOne
    Runners = {r1, r2, r3}
    Migrations = {m1, m2, m3, m4}
    Transactional = {m1, m2, m4}
    Bootstrapping = {r1}
    Excluded = {m2}
    Deployed = {m1}
    Number <- MCNumber
    Image <- MCImage
INVARIANTS
    TransactionalOnce
    RerunsAccounted
    StartedApiIsMigrated
PROPERTIES
    AppliedInOrder
    EveryRunnerEnds
