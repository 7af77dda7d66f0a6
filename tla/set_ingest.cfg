SPECIFICATION Spec
CONSTANTS
    h1 = h1
    h2 = h2
    h3 = h3
    f1 = f1
    g1 = g1
    g2 = g2
    None = None
    NoFile = NoFile
    Handlers = {h1, h2, h3}
    Files = {f1}
    Pairs = {1, 2}
    Orders = {1, 2, 3, 4}
    Genres = {g1, g2}
    Bpms = {100, 101, 102}
    MaxInFlight = 3
    Workload <- MCWorkload
INVARIANTS
    PlayCountAccounted
    AnsweredIngestIsComplete
    SerialReingestAddsNothingTwice
PROPERTIES
    EveryRequestEnds
