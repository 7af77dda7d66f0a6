SPECIFICATION Spec
CONSTANTS
    i1 = i1
    i2 = i2
    i3 = i3
    reader = reader
    ann = ann
    waltz = waltz
    whip = whip
    lee = lee
    attributions = attributions
    relations = relations
    None = None
    Ids = {i1, i2, i3}
    Readers = {reader}
    Users = {ann}
    Entities = {waltz, whip, lee}
    Instructors = {lee}
    Tables = {attributions, relations}
    Filtered = {attributions}
    Instructed = {attributions}
    Taught <- MCTaught
    Order <- MCOrder
    Writes <- MCWrites
    Does <- MCDoes
    Mentions <- MCMentions
    Requests <- MCRequests
CHECK_DEADLOCK FALSE
INVARIANTS
    ShownWasVisible
    ExportClosed
PROPERTIES
    ViewsWhole
