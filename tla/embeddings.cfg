SPECIFICATION MCSpec
CONSTANTS
    n1 = n1
    n2 = n2
    t1 = t1
    intro = intro
    nothing = nothing
    short = short
    long = long
    MaxRefreshes = 3
    Notes = {n1, n2}
    Transcripts = {t1}
    TranscriptOf <- MCTranscriptOf
    Titles = {intro, Untitled}
    Untitled = Untitled
    Texts = {nothing, short, long}
    Tokens <- MCTokens
    Filename = Filename
    CHUNK_SIZE = 3
    CHUNK_OVERLAP = 1
    Absent = Absent
    MaxEdits = 1
    MaxInFlight = 2
INVARIANTS
    ChunksWhole
PROPERTIES
    QuietRefreshConverges
    ChunksNeverVanish
    EveryRefreshEnds
