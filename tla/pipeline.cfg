SPECIFICATION Spec
CONSTANTS
    h1 = h1
    h2 = h2
    h3 = h3
    h4 = h4
    alice = alice
    bob = bob
    t1 = t1
    t2 = t2
    x1 = x1
    x2 = x2
    p1 = p1
    p2 = p2
    a = a
    b = b
    bs = bs
    serial = serial
    concurrent = concurrent
    reingest = reingest
    NoText = NoText
    NoOne = NoOne
    Handlers = {h1, h2, h3, h4}
    Callers = {alice, bob}
    Transcripts = {t1, t2}
    Texts = {x1, x2}
    Payloads = {p1, p2}
    Names = {a, b, bs}
    Tables = 2
    OwnerOf <- MCOwnerOf
    Mentions <- MCMentions
    Singular <- MCSingular
    Writes <- MCWrites
    Plans = {serial, concurrent, reingest}
    PlanOf <- PipelinePlans
INVARIANTS
    OneActiveExtraction
    CanonicalTraceable
    CanonicalCurrent
    OneSourcePerTranscript
PROPERTIES
    CanonicalLayerKept
    ExtractionHistoryKept
    FailuresExplained
    EveryRequestEnds
