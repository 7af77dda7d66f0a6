SPECIFICATION Spec
CONSTANTS
    h1 = h1
    h2 = h2
    h3 = h3
    h4 = h4
    cog = cog
    unknown = unknown
    flow = flow
    inline = inline
    hook = hook
    run1 = run1
    run2 = run2
    p1 = p1
    p2 = p2
    l1 = l1
    l2 = l2
    s1 = s1
    s2 = s2
    b1 = b1
    b2 = b2
    findings = findings
    tracks = tracks
    Null = Null
    UnknownRepo = unknown
    Webhook = hook
    Handlers = {h1, h2, h3, h4}
    Repos = {cog, unknown}
    Sources = {inline, hook}
    Runs = {run1, run2}
    Severities = {"ERROR", "WARN", "INFO"}
    Plays = {p1, p2}
    Playlists = {l1, l2}
    Snapshots = {s1, s2}
    Bodies = {b1, b2}
    Limit = 1
    MaxTime = 2
    Ids = {1, 2, 3}
    FlowRepo <- MCFlowRepo
    Plans = {findings, tracks}
    PlanOf <- FeedPlans
INVARIANTS
    RunsListedWhole
    QuietWalkIsComplete
PROPERTIES
    ShownUntilOutrun
    FeedsStoredOnce
    EveryDeliveryEnds
