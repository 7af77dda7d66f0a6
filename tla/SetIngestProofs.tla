--------------------------- MODULE SetIngestProofs ---------------------------
(* Theorems about SetIngest, for any handlers, files, payloads, catalog    *)
(* keys and number of requests in flight, and any interleaving, crashes    *)
(* and deadlocks.                                                          *)
EXTENDS SetIngest, FiniteSetTheorems, NaturalsInduction, WellFoundedInduction, TLAPS

Moves(h) == Begin(h) \/ Step(h) \/ BreakDeadlock(h) \/ Crash(h)

-----------------------------------------------------------------------------
(* The operators.                                                          *)

LEMMA KindsOfRequests ==
    ASSUME NEW r \in Request
    PROVE  /\ r.kind = "ingest" <=> r \in IngestPost
           /\ r.kind = "patch" <=> r \in CatalogPatch
BY DEF Request, IngestPost, CatalogPatch

LEMMA NoWorkType == NoWork \in Work
<1>1. [p \in Pairs |-> None] \in [Pairs -> Entry \cup {None}]
  OBVIOUS
<1>2. [p \in Pairs |-> {}] \in [Pairs -> SUBSET Field]
  OBVIOUS
<1> QED BY <1>1, <1>2 DEF NoWork, Work

LEMMA NewEntryType ==
    ASSUME NEW t \in TrackIn
    PROVE  /\ NewEntry(t) \in Entry
           /\ \A c \in Low..High : [NewEntry(t) EXCEPT !.confidence = c] \in Entry
           /\ NewEntry(t).plays = 1
           /\ \A c \in Low..High : [NewEntry(t) EXCEPT !.confidence = c].plays = 1
BY DEF NewEntry, Entry, TrackIn, Low, High

LEMMA EscalatedType ==
    ASSUME NEW current \in Low..High, NEW plays, NEW b, NEW t
    PROVE  Escalated(current, plays, b, t) \in Low..High
BY DEF Escalated, Low, Medium, High

LEMMA PlayedType ==
    ASSUME NEW c \in Entry, NEW t \in TrackIn
    PROVE  Played(c, t) \in Entry /\ Played(c, t).plays = c.plays + 1
<1>1. \A x, b : Escalated(c.confidence, x, b, t) \in Low..High
  BY EscalatedType DEF Entry
<1> QED BY <1>1 DEF Played, Entry, TrackIn

LEMMA EntryFields ==
    ASSUME NEW c \in Entry
    PROVE  DOMAIN c = Field /\ c # None /\ c.plays \in Nat
BY NoneAssumption DEF Entry, Field

LEMMA DifferingType ==
    ASSUME NEW c \in Entry, NEW d
    PROVE  /\ Differing(c, d) \subseteq Field
           /\ d.plays # c.plays => "plays" \in Differing(c, d)
BY EntryFields DEF Differing, Field

LEMMA PlayOrderType ==
    ASSUME NEW t \in TrackIn
    PROVE  PlayOrder(t) \in Nat
BY ConstantsAssumption DEF TrackIn, PlayOrder

LEMMA LeastExists ==
    ASSUME NEW D \in SUBSET Nat, D # {}
    PROVE  \E p \in D : \A q \in D : p <= q
<1>1. PICK p \in D : \A q \in D : ~(<<q, p>> \in OpToRel(<, Nat))
  <2>1. D \subseteq Nat
    OBVIOUS
  <2> QED BY <2>1, WFMin, NatLessThanWellFounded
<1>2. \A q \in D : ~(q < p)
  BY <1>1, Zenon DEF OpToRel
<1> QED BY <1>2

LEMMA NextIsDirty ==
    ASSUME NEW h, work[h].dirty \subseteq Pairs, work[h].dirty # {}
    PROVE  NextDirty(h) \in work[h].dirty
<1>1. work[h].dirty \subseteq Nat
  BY ConstantsAssumption
<1>2. \E p \in work[h].dirty : \A q \in work[h].dirty : p <= q
  BY <1>1, LeastExists
<1> QED BY <1>2 DEF NextDirty

LEMMA WorkUpdates ==
    ASSUME NEW t \in Work
    PROVE  /\ \A s \in Handlers \cup {None}, b \in BOOLEAN :
                 /\ [t EXCEPT !.set = s, !.again = b] \in Work
                 /\ [t EXCEPT !.set = s, !.created = b] \in Work
           /\ \A s \in Handlers \cup {None}, b \in BOOLEAN, L \in [Pairs -> Entry \cup {None}] :
                 [t EXCEPT !.set = s, !.again = b, !.loaded = L] \in Work
           /\ \A K \in SUBSET Nat : [t EXCEPT !.known = K] \in Work
           /\ \A n \in Nat : [t EXCEPT !.at = n] \in Work
           /\ \A R \in SUBSET TrackRow : [t EXCEPT !.rows = R] \in Work
           /\ \A L \in [Pairs -> Entry \cup {None}] : [t EXCEPT !.loaded = L] \in Work
           /\ \A D, K \in SUBSET Pairs : [t EXCEPT !.dirty = D, !.locked = K] \in Work
BY DEF Work

LEMMA SessionUpdates ==
    ASSUME NEW t \in Work, NEW L \in [Pairs -> Entry \cup {None}],
           NEW C \in [Pairs -> SUBSET Field], NEW D \in SUBSET Pairs
    PROVE  /\ \A n \in Nat, R \in SUBSET TrackRow :
                 [[t EXCEPT !.loaded = L, !.changed = C, !.dirty = D]
                    EXCEPT !.at = n, !.rows = R] \in Work
           /\ [t EXCEPT !.loaded = L, !.changed = C, !.dirty = D] \in Work
           /\ \A n \in Nat, I \in SUBSET Pairs :
                 [t EXCEPT !.loaded = L, !.inserted = I, !.dirty = D, !.at = n] \in Work
BY DEF Work

-----------------------------------------------------------------------------
(***************************************************************************)
(* What a handler is doing at each statement, what its session holds, and  *)
(* which entries it may have loaded.                                       *)
(***************************************************************************)
InIngest == {"find_set", "insert_set", "read_orders", "load_catalog", "track", "flush",
             "insert_catalog"}
Before == {"idle", "find_set", "insert_set", "load_entry", "done"}

Blank(h) ==
    /\ work[h].at = 1 /\ work[h].rows = {}
    /\ work[h].changed = [p \in Pairs |-> {}]
    /\ work[h].dirty = {} /\ work[h].locked = {} /\ work[h].inserted = {}

Session(h) ==
    /\ req[h] \in IF pc[h] = "idle" THEN {None} ELSE Request
    /\ pc[h] \in InIngest => req[h] \in IngestPost
    /\ pc[h] = "load_entry" => req[h] \in CatalogPatch
    /\ pc[h] \in Before => work[h] = NoWork
    /\ pc[h] \in {"read_orders", "load_catalog"} => Blank(h)
    /\ pc[h] \in {"read_orders", "load_catalog", "track", "flush", "insert_catalog"} =>
          work[h].set \in Handlers
    /\ pc[h] \in {"flush", "insert_catalog"} =>
          /\ work[h].at \in DOMAIN req[h].tracks
          /\ work[h].loaded[Current(h).pair] = None
    /\ req[h] \in CatalogPatch => ~work[h].created /\ work[h].rows = {} /\ work[h].inserted = {}
    /\ work[h].at # 0
    /\ \A p \in work[h].dirty \cup work[h].locked \cup work[h].inserted :
          work[h].loaded[p] # None
    /\ \A p \in Pairs : work[h].loaded[p] # None => p \in work[h].inserted \/ catalog[p] # None

ISession == TypeOK /\ \A h \in Handlers : Session(h)

(***************************************************************************)
(* The ways a step leaves the mover's session.                             *)
(***************************************************************************)
FileKept(h) == /\ work'[h].set = work[h].set /\ work'[h].created = work[h].created
               /\ work'[h].again = work[h].again /\ work'[h].known = work[h].known
WritesKept(h) == /\ work'[h].loaded = work[h].loaded /\ work'[h].changed = work[h].changed
                 /\ work'[h].dirty = work[h].dirty /\ work'[h].locked = work[h].locked
                 /\ work'[h].inserted = work[h].inserted
RowsKept(h) == work'[h].at = work[h].at /\ work'[h].rows = work[h].rows

Ended(h) ==
    /\ pc'[h] = "done" /\ work'[h] = NoWork /\ req' = req
    /\ answer'[h] \in {"500", "503", "404", "lost"}

Goes(h) ==
    /\ work'[h] = work[h] /\ UNCHANGED <<req, answer>>
    /\ \/ pc[h] = "find_set" /\ pc'[h] = "insert_set"
       \/ pc[h] = "track" /\ pc'[h] = "flush_all" /\ work[h].at > Len(req[h].tracks)
       \/ pc[h] = "flush" /\ pc'[h] = "insert_catalog" /\ work[h].dirty = {}
       \/ pc[h] = "flush_all" /\ pc'[h] = "commit" /\ work[h].dirty = {}

(* The entries of a set of pairs, as they are stored.                      *)
EntriesAt(W) == [p \in Pairs |-> IF p \in W THEN catalog[p] ELSE None]

Opens(h, s) ==
    /\ pc[h] \in {"find_set", "insert_set"} /\ pc'[h] = "read_orders" /\ UNCHANGED <<req, answer>>
    /\ s \in SetsOf(req[h].file)
    /\ \E W \in SUBSET Pairs :
          work'[h] = [NoWork EXCEPT !.set = s, !.again = TRUE, !.loaded = EntriesAt(W)]

Creates(h) ==
    /\ pc[h] = "insert_set" /\ pc'[h] = "load_catalog" /\ UNCHANGED <<req, answer>>
    /\ SetsOf(req[h].file) = {}
    /\ \A g \in Others(h) : ~(work[g].created /\ req[g].file = req[h].file)
    /\ work'[h] = [NoWork EXCEPT !.set = h, !.created = TRUE]

Reads(h) ==
    /\ pc[h] = "read_orders" /\ pc'[h] = "load_catalog" /\ UNCHANGED <<req, answer>>
    /\ work'[h] = [work[h] EXCEPT !.known =
                      {t.order : t \in {u \in tracks : u.set = work[h].set}}]

Loads(h) ==
    /\ pc[h] = "load_catalog" /\ pc'[h] = "track" /\ UNCHANGED <<req, answer>>
    /\ \E L \in [Pairs -> Entry \cup {None}] :
          /\ work'[h] = [work[h] EXCEPT !.loaded = L]
          /\ \A p \in Pairs : L[p] \in {work[h].loaded[p], catalog[p]}
          /\ \A p \in Pairs : work[h].loaded[p] # None => L[p] = work[h].loaded[p]

AtTrack(h) == pc[h] = "track" /\ work[h].at \in DOMAIN req[h].tracks

Skipped(h) ==
    /\ AtTrack(h) /\ Skips(h) /\ UNCHANGED <<req, pc, answer>>
    /\ FileKept(h) /\ WritesKept(h)
    /\ work'[h].at = work[h].at + 1 /\ work'[h].rows = work[h].rows

Links(h, p) ==
    LET c == work[h].loaded[p]
        d == Played(c, Current(h))
    IN  /\ AtTrack(h) /\ ~Skips(h) /\ UNCHANGED <<req, pc, answer>>
        /\ p = Current(h).pair /\ p \in Pairs /\ c \in Entry /\ d \in Entry
        /\ d.plays = c.plays + 1
        /\ FileKept(h)
        /\ work'[h].locked = work[h].locked /\ work'[h].inserted = work[h].inserted
        /\ work'[h].at = work[h].at + 1
        /\ work'[h].rows = work[h].rows \cup {RowOf(h, work[h].at)}
        /\ work'[h].loaded = [work[h].loaded EXCEPT ![p] = d]
        /\ work'[h].changed = [work[h].changed EXCEPT ![p] =
                                  work[h].changed[p] \cup Differing(c, d)]
        /\ work'[h].dirty = work[h].dirty \cup {p}

News(h) ==
    /\ AtTrack(h) /\ ~Skips(h) /\ pc'[h] = "flush" /\ UNCHANGED <<req, answer>>
    /\ work[h].loaded[Current(h).pair] = None
    /\ FileKept(h) /\ WritesKept(h)
    /\ work'[h].at = work[h].at /\ work'[h].rows = work[h].rows \cup {RowOf(h, work[h].at)}

Updates(h, p) ==
    /\ pc[h] \in {"flush", "flush_all"} /\ UNCHANGED <<req, pc, answer>>
    /\ p \in work[h].dirty
    /\ \A g \in Others(h) : p \notin work[g].locked
    /\ FileKept(h) /\ RowsKept(h)
    /\ work'[h].loaded = work[h].loaded /\ work'[h].changed = work[h].changed
    /\ work'[h].inserted = work[h].inserted
    /\ work'[h].dirty = work[h].dirty \ {p} /\ work'[h].locked = work[h].locked \cup {p}

Inserts(h, p, d) ==
    /\ pc[h] = "insert_catalog" /\ pc'[h] = "track" /\ UNCHANGED <<req, answer>>
    /\ p = Current(h).pair /\ p \in Pairs /\ catalog[p] = None /\ work[h].loaded[p] = None
    /\ \A g \in Others(h) : p \notin work[g].inserted
    /\ d \in Entry /\ d.plays = 1
    /\ FileKept(h)
    /\ work'[h].loaded = [work[h].loaded EXCEPT ![p] = d]
    /\ work'[h].changed = work[h].changed /\ work'[h].locked = work[h].locked
    /\ work'[h].inserted = work[h].inserted \cup {p}
    /\ work'[h].dirty \in {work[h].dirty, work[h].dirty \cup {p}}
    /\ work'[h].at = work[h].at + 1 /\ work'[h].rows = work[h].rows

Patches(h, p, d) ==
    /\ pc[h] = "load_entry" /\ pc'[h] = "flush_all" /\ UNCHANGED <<req, answer>>
    /\ p \in Pairs /\ catalog[p] \in Entry /\ d \in Entry /\ d.plays = catalog[p].plays
    /\ FileKept(h) /\ RowsKept(h)
    /\ work'[h].loaded = [work[h].loaded EXCEPT ![p] = d]
    /\ work'[h].changed = [work[h].changed EXCEPT ![p] = Differing(catalog[p], d)]
    /\ work'[h].dirty \in {{}, {p}}
    /\ work'[h].locked = work[h].locked /\ work'[h].inserted = work[h].inserted

Starts(h) ==
    /\ pc[h] = "idle" /\ answer' = answer
    /\ \E r \in Request : /\ req' = [req EXCEPT ![h] = r]
                          /\ pc'[h] = IF r.kind = "patch" THEN "load_entry" ELSE "find_set"
    /\ work'[h] = work[h] /\ overlap' = (overlap \/ InFlight # {})

InSession(h) ==
    \/ Goes(h) \/ (\E s : Opens(h, s)) \/ Creates(h) \/ Reads(h) \/ Loads(h)
    \/ Skipped(h) \/ (\E p : Links(h, p)) \/ News(h)
    \/ (\E p : Updates(h, p)) \/ (\E p, d : Inserts(h, p, d)) \/ (\E p, d : Patches(h, p, d))

(* A handler changes its own request, counter, answer and session.         *)
LEMMA OthersUntouched ==
    ASSUME TypeOK, NEW h \in Handlers, Moves(h)
    PROVE  \A g \in Handlers \ {h} :
              /\ req'[g] = req[g] /\ pc'[g] = pc[g] /\ answer'[g] = answer[g]
              /\ work'[g] = work[g]
<1> USE DEF TypeOK, Goto, EndWith, db
<1>1. CASE Begin(h) \/ BreakDeadlock(h) \/ Crash(h)
  BY <1>1 DEF Begin, BreakDeadlock, Crash
<1>2. CASE Disabled(h) \/ FindSet(h) \/ InsertSet(h) \/ ReadOrders(h) \/ LoadCatalog(h)
  BY <1>2 DEF Disabled, FindSet, InsertSet, ReadOrders, LoadCatalog
<1>3. CASE SkipTrack(h) \/ LinkTrack(h) \/ NewTrack(h) \/ TracksDone(h)
  BY <1>3 DEF SkipTrack, LinkTrack, NewTrack, TracksDone
<1>4. CASE FlushUpdate(h) \/ FlushDone(h) \/ InsertCatalog(h) \/ LoadEntry(h) \/ Commit(h)
  BY <1>4 DEF FlushUpdate, FlushDone, InsertCatalog, LoadEntry, Commit
<1> QED BY <1>1, <1>2, <1>3, <1>4 DEF Moves, Step

LEMMA EndEnds ==
    ASSUME TypeOK, NEW h \in Handlers, NEW code \in {"500", "503", "404", "lost"},
           EndWith(h, code)
    PROVE  Ended(h) /\ UNCHANGED <<db, overlap>>
BY DEF TypeOK, EndWith, Goto, Ended

(* The track a handler is at.                                              *)
LEMMA CurrentType ==
    ASSUME TypeOK, NEW h \in Handlers, req[h] \in IngestPost,
           NEW i \in DOMAIN req[h].tracks
    PROVE  /\ req[h].tracks[i] \in TrackIn /\ req[h].tracks[i].pair \in Pairs
           /\ PlayOrder(req[h].tracks[i]) \in Nat /\ req[h].tracks \in Seq(TrackIn)
           /\ i \in Nat
<1>1. req[h].tracks \in Seq(TrackIn)
  BY DEF IngestPost
<1>2. req[h].tracks[i] \in TrackIn /\ i \in Nat
  BY <1>1
<1> QED BY <1>1, <1>2, PlayOrderType DEF TrackIn

LEMMA WantedType ==
    ASSUME TypeOK, NEW h \in Handlers, req[h] \in IngestPost
    PROVE  Wanted(h) \in SUBSET Pairs
BY CurrentType DEF Wanted

LEMMA StepCases ==
    ASSUME ISession, NEW h \in Handlers, Moves(h)
    PROVE  /\ \/ Starts(h) /\ UNCHANGED db
              \/ Ended(h) /\ pc[h] # "idle" /\ UNCHANGED <<db, overlap>>
              \/ InSession(h) /\ UNCHANGED <<db, overlap>>
              \/ Commit(h)
           /\ work' \in [Handlers -> Work]
<1>0. TypeOK /\ Session(h) /\ work[h] \in Work
  BY DEF ISession, TypeOK
<1>1. ASSUME NEW code \in {"500", "503", "404", "lost"}, EndWith(h, code), pc[h] # "idle"
      PROVE  /\ Ended(h) /\ pc[h] # "idle" /\ UNCHANGED <<db, overlap>>
             /\ work' \in [Handlers -> Work]
  BY <1>0, <1>1, EndEnds, NoWorkType DEF EndWith, TypeOK
<1>2. CASE Begin(h)
  <2>1. PICK r \in Workload[h] :
           /\ req' = [req EXCEPT ![h] = r]
           /\ Goto(h, IF r.kind = "patch" THEN "load_entry" ELSE "find_set")
    BY <1>2 DEF Begin
  <2>2. r \in Request
    BY ConstantsAssumption
  <2>3. pc'[h] = IF r.kind = "patch" THEN "load_entry" ELSE "find_set"
    BY <1>0, <2>1 DEF TypeOK, Goto
  <2>4. Starts(h)
    BY <1>2, <2>1, <2>2, <2>3 DEF Begin, Starts
  <2> QED BY <1>0, <1>2, <2>4 DEF Begin, TypeOK
<1>3. CASE BreakDeadlock(h) \/ Crash(h) \/ Disabled(h)
  <2>1. pc[h] = "idle" => BlockedBy(h) = {}
    BY DEF BlockedBy
  <2>2. pc[h] # "idle"
    BY <1>3, <2>1 DEF BreakDeadlock, Deadlocked, Crash, InFlight, Disabled
  <2> QED BY <1>1, <1>3, <2>2 DEF BreakDeadlock, Crash, Disabled
<1>4. CASE FindSet(h) \/ InsertSet(h)
  <2>0. pc[h] \in {"find_set", "insert_set"} /\ work[h] = NoWork /\ UNCHANGED <<db, req, answer, overlap>>
    BY <1>0, <1>4 DEF FindSet, InsertSet, Session, Before
  <2>1. ASSUME NEW s \in SetsOf(req[h].file), Goto(h, "read_orders"),
               work' = [work EXCEPT ![h] = Found(h, s)]
        PROVE  Opens(h, s) /\ work' \in [Handlers -> Work]
    <3>1. s \in Handlers
      BY <1>0, <2>1 DEF SetsOf, TypeOK
    <3>2. req[h] \in IngestPost
      BY <1>0, <2>0 DEF Session, InIngest
    <3>3. PICK W \in SUBSET Pairs : W = Wanted(h) \cap EntriesOf(s)
      BY <1>0, <3>2, WantedType
    <3>4. Found(h, s) = [NoWork EXCEPT !.set = s, !.again = TRUE, !.loaded = EntriesAt(W)]
      BY <3>3 DEF Found, EntriesAt
    <3>5. EntriesAt(W) \in [Pairs -> Entry \cup {None}]
      BY <1>0 DEF EntriesAt, TypeOK
    <3>6. Found(h, s) \in Work
      <4>1. ASSUME NEW L \in [Pairs -> Entry \cup {None}]
            PROVE  [NoWork EXCEPT !.set = s, !.again = TRUE, !.loaded = L] \in Work
        BY <3>1, NoWorkType, WorkUpdates
      <4> QED BY <3>4, <3>5, <4>1
    <3>7. work'[h] = Found(h, s) /\ pc'[h] = "read_orders" /\ work' \in [Handlers -> Work]
      BY <1>0, <2>1, <3>6 DEF TypeOK, Goto
    <3>8. \E V \in SUBSET Pairs :
             work'[h] = [NoWork EXCEPT !.set = s, !.again = TRUE, !.loaded = EntriesAt(V)]
      <4>1. work'[h] = [NoWork EXCEPT !.set = s, !.again = TRUE, !.loaded = EntriesAt(W)]
        BY <3>4, <3>7
      <4> QED BY <4>1
    <3> QED BY <2>0, <3>7, <3>8 DEF Opens
  <2>2. CASE FindSet(h) /\ Goto(h, "insert_set") /\ UNCHANGED work
    BY <1>0, <2>0, <2>2 DEF FindSet, InSession, Goes, TypeOK, Goto
  <2>3. CASE InsertSet(h) /\ SetsOf(req[h].file) = {}
    <3>1. /\ work' = [work EXCEPT ![h].set = h, ![h].created = TRUE]
          /\ Goto(h, "load_catalog") /\ pc[h] = "insert_set" /\ BlockedBy(h) = {}
      BY <2>3 DEF InsertSet
    <3>2. work' = [work EXCEPT ![h] = [NoWork EXCEPT !.set = h, !.created = TRUE]]
      BY <1>0, <2>0, <3>1 DEF TypeOK
    <3>3. [NoWork EXCEPT !.set = h, !.created = TRUE] \in Work
      BY NoWorkType, WorkUpdates
    <3>4. \A g \in Others(h) : ~(work[g].created /\ req[g].file = req[h].file)
      BY <3>1 DEF BlockedBy
    <3>5. Creates(h)
      BY <1>0, <2>0, <2>3, <3>1, <3>2, <3>4 DEF Creates, TypeOK, Goto
    <3> QED BY <1>0, <2>0, <3>2, <3>3, <3>5 DEF InSession, TypeOK
  <2>4. CASE /\ ~(FindSet(h) /\ Goto(h, "insert_set") /\ UNCHANGED work)
             /\ ~(InsertSet(h) /\ SetsOf(req[h].file) = {})
    <3>1. PICK s \in SetsOf(req[h].file) :
             /\ Goto(h, "read_orders")
             /\ work' = [work EXCEPT ![h] = Found(h, s)]
      BY <1>4, <2>4 DEF FindSet, InsertSet
    <3> QED BY <2>0, <2>1, <3>1 DEF InSession
  <2> QED BY <2>2, <2>3, <2>4
<1>5. CASE ReadOrders(h)
  <2>1. PICK K \in SUBSET Nat :
           /\ K = {t.order : t \in {u \in tracks : u.set = work[h].set}}
           /\ work' = [work EXCEPT ![h].known = K]
    <3>1. {t.order : t \in {u \in tracks : u.set = work[h].set}} \in SUBSET Nat
      BY <1>0 DEF TypeOK, TrackRow
    <3> QED BY <1>5, <3>1 DEF ReadOrders
  <2>2. work' \in [Handlers -> Work]
    BY <1>0, <2>1, WorkUpdates DEF TypeOK
  <2>3. Reads(h)
    BY <1>0, <1>5, <2>1 DEF ReadOrders, Reads, TypeOK, Goto
  <2> QED BY <1>5, <2>2, <2>3 DEF ReadOrders, InSession
<1>6. CASE LoadCatalog(h)
  <2>1. PICK L \in [Pairs -> Entry \cup {None}] :
           /\ L = [p \in Pairs |-> IF p \in Wanted(h) /\ work[h].loaded[p] = None
                                   THEN catalog[p] ELSE work[h].loaded[p]]
           /\ work' = [work EXCEPT ![h].loaded = L]
    <3> DEFINE L == [p \in Pairs |-> IF p \in Wanted(h) /\ work[h].loaded[p] = None
                                     THEN catalog[p] ELSE work[h].loaded[p]]
    <3>1. work[h].loaded \in [Pairs -> Entry \cup {None}]
      BY <1>0 DEF Work
    <3>2. L \in [Pairs -> Entry \cup {None}]
      BY <1>0, <3>1 DEF TypeOK
    <3>3. work' = [work EXCEPT ![h].loaded = L]
      BY <1>6 DEF LoadCatalog
    <3> QED BY <3>2, <3>3
  <2>2. work' \in [Handlers -> Work]
    BY <1>0, <2>1, WorkUpdates DEF TypeOK
  <2>3. Loads(h)
    BY <1>0, <1>6, <2>1 DEF LoadCatalog, Loads, TypeOK, Goto
  <2> QED BY <1>6, <2>2, <2>3 DEF LoadCatalog, InSession
<1>7. ASSUME pc[h] = "track", work[h].at <= Len(req[h].tracks)
      PROVE  /\ req[h] \in IngestPost /\ AtTrack(h) /\ Current(h) \in TrackIn
             /\ Current(h).pair \in Pairs /\ PlayOrder(Current(h)) \in Nat
             /\ work[h].at + 1 \in Nat
  <2>1. req[h] \in IngestPost
    BY <1>0, <1>7 DEF Session, InIngest
  <2>2. req[h].tracks \in Seq(TrackIn) /\ work[h].at \in Nat /\ work[h].at # 0
    BY <1>0, <2>1 DEF IngestPost, Session, Work
  <2>3. work[h].at \in DOMAIN req[h].tracks
    BY <1>7, <2>2
  <2> QED BY <1>0, <1>7, <2>1, <2>2, <2>3, CurrentType DEF AtTrack, Current
<1>8. CASE SkipTrack(h)
  <2>1. work' = [work EXCEPT ![h].at = work[h].at + 1]
    BY <1>0, <1>8 DEF SkipTrack, TypeOK
  <2>0. work[h].at + 1 \in Nat
    BY <1>7, <1>8 DEF SkipTrack
  <2>2. work' \in [Handlers -> Work]
    BY <1>0, <2>0, <2>1, WorkUpdates DEF TypeOK
  <2>3. work'[h] = [work[h] EXCEPT !.at = work[h].at + 1]
    BY <1>0, <2>1 DEF TypeOK
  <2>4. FileKept(h) /\ WritesKept(h) /\ work'[h].at = work[h].at + 1 /\ work'[h].rows = work[h].rows
    BY <1>0, <2>3 DEF Work, FileKept, WritesKept
  <2> QED BY <1>7, <1>8, <2>2, <2>4 DEF SkipTrack, InSession, Skipped
<1>9. CASE LinkTrack(h) \/ NewTrack(h)
  <2>1. /\ AtTrack(h) /\ Current(h) \in TrackIn /\ ~Skips(h) /\ work[h].at + 1 \in Nat
        /\ Current(h).pair \in Pairs /\ PlayOrder(Current(h)) \in Nat /\ req[h] \in IngestPost
    BY <1>7, <1>9 DEF LinkTrack, NewTrack
  <2>2. PICK R \in SUBSET TrackRow : R = work[h].rows \cup {RowOf(h, work[h].at)}
    <3>1. work[h].set \in Handlers
      BY <1>0, <2>1 DEF AtTrack, Session
    <3>2. RowOf(h, work[h].at) \in TrackRow
      BY <1>0, <2>1, <3>1 DEF RowOf, TrackRow, Current, Work
    <3> QED BY <1>0, <3>2 DEF Work
  <2>3. CASE NewTrack(h)
    <3>1. work' = [work EXCEPT ![h].rows = R]
      BY <1>0, <2>2, <2>3 DEF NewTrack, TypeOK
    <3>2. work' \in [Handlers -> Work] /\ work'[h] = [work[h] EXCEPT !.rows = R]
      BY <1>0, <3>1, WorkUpdates DEF TypeOK
    <3>3. FileKept(h) /\ WritesKept(h) /\ work'[h].at = work[h].at /\ work'[h].rows = R
      BY <1>0, <3>2 DEF Work, FileKept, WritesKept
    <3>4. pc'[h] = "flush"
      BY <1>0, <2>3 DEF NewTrack, TypeOK, Goto
    <3> QED BY <2>1, <2>2, <2>3, <3>2, <3>3, <3>4 DEF NewTrack, InSession, News
  <2>4. CASE LinkTrack(h)
    <3> DEFINE p == Current(h).pair
               c == work[h].loaded[p]
               d == Played(c, Current(h))
               L == [work[h].loaded EXCEPT ![p] = d]
               C == [work[h].changed EXCEPT ![p] = work[h].changed[p] \cup Differing(c, d)]
               D == work[h].dirty \cup {p}
    <3>1. c \in Entry /\ d \in Entry /\ d.plays = c.plays + 1
      <4>1. c \in Entry
        BY <1>0, <2>1, <2>4 DEF LinkTrack, Work
      <4> QED BY <2>1, <4>1, PlayedType
    <3>2. Differing(c, d) \subseteq Field /\ Differing(c, d) # {}
      <4>1. d.plays # c.plays
        BY <3>1, EntryFields
      <4> QED BY <3>1, <4>1, DifferingType
    <3>3. /\ L \in [Pairs -> Entry \cup {None}] /\ C \in [Pairs -> SUBSET Field]
          /\ D \in SUBSET Pairs
      BY <1>0, <2>1, <3>1, <3>2 DEF Work
    <3>4. Assign(h, p, d) = [work[h] EXCEPT !.loaded = L, !.changed = C, !.dirty = D]
      BY <1>0, <3>2 DEF Assign, Work
    <3>5. work' = [work EXCEPT ![h] =
                      [[work[h] EXCEPT !.loaded = L, !.changed = C, !.dirty = D]
                         EXCEPT !.at = work[h].at + 1, !.rows = R]]
      <4>1. /\ work' = [work EXCEPT ![h] =
                   [Assign(h, p, d) EXCEPT !.at = @ + 1, !.rows = @ \cup {RowOf(h, work[h].at)}]]
        BY <2>4 DEF LinkTrack
      <4>2. Assign(h, p, d).at = work[h].at /\ Assign(h, p, d).rows = work[h].rows
        BY <1>0, <3>4 DEF Work
      <4>3. [Assign(h, p, d) EXCEPT !.at = @ + 1, !.rows = @ \cup {RowOf(h, work[h].at)}]
              = [Assign(h, p, d) EXCEPT !.at = work[h].at + 1, !.rows = R]
        BY <2>2, <4>2
      <4> QED BY <3>4, <4>1, <4>3
    <3> HIDE DEF L, C, D
    <3>6. /\ work'[h] = [[work[h] EXCEPT !.loaded = L, !.changed = C, !.dirty = D]
                            EXCEPT !.at = work[h].at + 1, !.rows = R]
          /\ work' \in [Handlers -> Work]
      BY <1>0, <2>1, <2>2, <3>3, <3>5, SessionUpdates DEF TypeOK
    <3>7. /\ FileKept(h) /\ work'[h].locked = work[h].locked
          /\ work'[h].inserted = work[h].inserted
          /\ work'[h].at = work[h].at + 1 /\ work'[h].rows = R /\ work'[h].loaded = L
          /\ work'[h].changed = C /\ work'[h].dirty = D
      BY <1>0, <3>6 DEF Work, FileKept
    <3>8. Links(h, p)
      BY <2>1, <2>2, <2>4, <3>1, <3>7 DEF Links, LinkTrack, L, C, D
    <3> QED BY <2>4, <3>6, <3>8 DEF LinkTrack, InSession
  <2> QED BY <1>9, <2>3, <2>4
<1>10. CASE TracksDone(h) \/ FlushDone(h)
  <2>1. Goes(h)
    BY <1>0, <1>10 DEF TracksDone, FlushDone, Goes, TypeOK, Goto
  <2> QED BY <1>0, <1>10, <2>1 DEF TracksDone, FlushDone, InSession, TypeOK
<1>11. CASE FlushUpdate(h)
  <2>1. PICK p \in work[h].dirty : p = NextDirty(h)
    <3>1. work[h].dirty \subseteq Pairs /\ work[h].dirty # {}
      BY <1>0, <1>11 DEF FlushUpdate, Work
    <3> QED BY <3>1, NextIsDirty
  <2>2. work' = [work EXCEPT ![h].dirty = work[h].dirty \ {p},
                             ![h].locked = work[h].locked \cup {p}]
    BY <1>0, <1>11, <2>1 DEF FlushUpdate, TypeOK
  <2>3. PICK D \in SUBSET Pairs, K \in SUBSET Pairs :
           /\ D = work[h].dirty \ {p} /\ K = work[h].locked \cup {p}
           /\ work' = [work EXCEPT ![h].dirty = D, ![h].locked = K]
    BY <1>0, <2>1, <2>2 DEF Work
  <2>4. /\ work' \in [Handlers -> Work]
        /\ work'[h] = [work[h] EXCEPT !.dirty = D, !.locked = K]
    BY <1>0, <2>3, WorkUpdates DEF TypeOK
  <2>5. /\ FileKept(h) /\ RowsKept(h)
        /\ work'[h].loaded = work[h].loaded /\ work'[h].changed = work[h].changed
        /\ work'[h].inserted = work[h].inserted
        /\ work'[h].dirty = D /\ work'[h].locked = K
    BY <1>0, <2>4 DEF Work, FileKept, RowsKept
  <2>6. \A g \in Others(h) : p \notin work[g].locked
    BY <1>11, <2>1 DEF FlushUpdate, BlockedBy
  <2>7. Updates(h, p)
    BY <1>11, <2>3, <2>5, <2>6 DEF FlushUpdate, Updates
  <2> QED BY <1>11, <2>4, <2>7 DEF FlushUpdate, InSession
<1>12. CASE InsertCatalog(h)
  <2>1. CASE EndWith(h, "500")
    BY <1>1, <1>12, <2>1 DEF InsertCatalog
  <2>2. CASE ~EndWith(h, "500")
    <3> DEFINE t == Current(h)
               p == t.pair
               d == [NewEntry(t) EXCEPT !.confidence = Escalated(Low, 1, NewEntry(t).bpm, t)]
    <3>1. /\ pc[h] = "insert_catalog" /\ BlockedBy(h) = {} /\ catalog[p] = None
          /\ UNCHANGED <<db, req, answer, overlap>> /\ Goto(h, "track")
          /\ work' = [work EXCEPT ![h].loaded[p] = d,
                                  ![h].inserted = @ \cup {p},
                                  ![h].dirty = IF NewEntry(t) = d THEN @ ELSE @ \cup {p},
                                  ![h].at = @ + 1]
      BY <1>12, <2>2 DEF InsertCatalog
    <3>2. /\ t \in TrackIn /\ p \in Pairs /\ work[h].loaded[p] = None
          /\ work[h].at + 1 \in Nat
      <4>1. req[h] \in IngestPost /\ work[h].at \in DOMAIN req[h].tracks
            /\ work[h].loaded[p] = None
        BY <1>0, <3>1 DEF Session, InIngest
      <4> QED BY <1>0, <4>1, CurrentType DEF Current
    <3>3. d \in Entry /\ d.plays = 1
      <4>1. Low \in Low..High
        BY DEF Low, High
      <4> QED BY <3>2, <4>1, NewEntryType, EscalatedType
    <3> HIDE DEF d
    <3>4. PICK L \in [Pairs -> Entry \cup {None}], I \in SUBSET Pairs, D \in SUBSET Pairs, n \in Nat :
             /\ L = [work[h].loaded EXCEPT ![p] = d] /\ I = work[h].inserted \cup {p}
             /\ D \in {work[h].dirty, work[h].dirty \cup {p}} /\ n = work[h].at + 1
             /\ work' = [work EXCEPT ![h].loaded = L, ![h].inserted = I, ![h].dirty = D, ![h].at = n]
      <4>1. [work[h].loaded EXCEPT ![p] = d] \in [Pairs -> Entry \cup {None}]
        BY <1>0, <3>2, <3>3 DEF Work
      <4>2. work[h].inserted \cup {p} \in SUBSET Pairs
        BY <1>0, <3>2 DEF Work
      <4>3. \A D \in {work[h].dirty, work[h].dirty \cup {p}} : D \in SUBSET Pairs
        BY <1>0, <3>2 DEF Work
      <4>4. PICK D \in {work[h].dirty, work[h].dirty \cup {p}} :
               D = IF NewEntry(t) = d THEN work[h].dirty ELSE work[h].dirty \cup {p}
        OBVIOUS
      <4>5. work' = [work EXCEPT ![h].loaded = [work[h].loaded EXCEPT ![p] = d],
                                 ![h].inserted = work[h].inserted \cup {p},
                                 ![h].dirty = D, ![h].at = work[h].at + 1]
        <5>1. work' = [work EXCEPT ![h] = [work[h] EXCEPT
                           !.loaded[p] = d, !.inserted = @ \cup {p},
                           !.dirty = IF NewEntry(t) = d THEN @ ELSE @ \cup {p}, !.at = @ + 1]]
          BY <1>0, <3>1 DEF TypeOK
        <5>2. [work[h] EXCEPT !.loaded[p] = d, !.inserted = @ \cup {p},
                              !.dirty = IF NewEntry(t) = d THEN @ ELSE @ \cup {p}, !.at = @ + 1]
                = [work[h] EXCEPT !.loaded = [work[h].loaded EXCEPT ![p] = d],
                                  !.inserted = work[h].inserted \cup {p},
                                  !.dirty = D, !.at = work[h].at + 1]
          BY <1>0, <4>4 DEF Work
        <5> QED BY <1>0, <5>1, <5>2 DEF TypeOK
      <4> QED BY <3>2, <4>1, <4>2, <4>3, <4>5
    <3>5. /\ work' \in [Handlers -> Work]
          /\ work'[h] = [work[h] EXCEPT !.loaded = L, !.inserted = I, !.dirty = D, !.at = n]
      <4>1. work[h].changed \in [Pairs -> SUBSET Field]
        BY <1>0 DEF Work
      <4>2. [work[h] EXCEPT !.loaded = L, !.inserted = I, !.dirty = D, !.at = n] \in Work
        BY <1>0, <4>1, SessionUpdates
      <4>3. work' = [work EXCEPT ![h] =
                        [work[h] EXCEPT !.loaded = L, !.inserted = I, !.dirty = D, !.at = n]]
        BY <1>0, <3>4 DEF TypeOK
      <4> QED BY <1>0, <4>2, <4>3 DEF TypeOK
    <3>6. /\ FileKept(h) /\ work'[h].loaded = L /\ work'[h].changed = work[h].changed
          /\ work'[h].locked = work[h].locked /\ work'[h].inserted = I
          /\ work'[h].dirty = D /\ work'[h].at = n /\ work'[h].rows = work[h].rows
      BY <1>0, <3>5 DEF Work, FileKept
    <3>7. \A g \in Others(h) : p \notin work[g].inserted
      BY <3>1 DEF BlockedBy
    <3>8. pc'[h] = "track"
      BY <1>0, <3>1 DEF TypeOK, Goto
    <3>9. Inserts(h, p, d)
      BY <3>1, <3>2, <3>3, <3>4, <3>6, <3>7, <3>8 DEF Inserts
    <3> QED BY <3>1, <3>5, <3>9 DEF InSession
  <2> QED BY <2>1, <2>2
<1>13. CASE LoadEntry(h)
  <2>1. CASE EndWith(h, "404")
    BY <1>1, <1>13, <2>1 DEF LoadEntry
  <2>2. CASE ~EndWith(h, "404")
    <3> DEFINE p == req[h].pair
               c == catalog[p]
               d == [c EXCEPT !.genre = IF req[h].genre # None THEN req[h].genre ELSE @,
                              !.bpm = IF req[h].bpm # None THEN req[h].bpm ELSE @,
                              !.source = "manual"]
    <3>1. /\ pc[h] = "load_entry" /\ c # None
          /\ UNCHANGED <<db, req, answer, overlap>> /\ Goto(h, "flush_all")
          /\ work' = [work EXCEPT ![h] = [work[h] EXCEPT !.loaded[p] = d,
                                                        !.changed[p] = Differing(c, d),
                                                        !.dirty = IF c = d THEN {} ELSE {p}]]
      BY <1>13, <2>2 DEF LoadEntry
    <3>2. /\ req[h] \in CatalogPatch /\ p \in Pairs /\ c \in Entry
          /\ req[h].genre \in Genres \cup {None} /\ req[h].bpm \in Bpms \cup {None}
      BY <1>0, <3>1 DEF Session, CatalogPatch, TypeOK
    <3>3. d \in Entry /\ d.plays = c.plays
      BY <3>2 DEF Entry
    <3>4. Differing(c, d) \subseteq Field
      BY <3>2, DifferingType
    <3> HIDE DEF d
    <3>5. PICK L \in [Pairs -> Entry \cup {None}], C \in [Pairs -> SUBSET Field], D \in SUBSET Pairs :
             /\ L = [work[h].loaded EXCEPT ![p] = d]
             /\ C = [work[h].changed EXCEPT ![p] = Differing(c, d)]
             /\ D \in {{}, {p}}
             /\ work' = [work EXCEPT ![h] = [work[h] EXCEPT !.loaded = L, !.changed = C, !.dirty = D]]
      <4>1. [work[h].loaded EXCEPT ![p] = d] \in [Pairs -> Entry \cup {None}]
        BY <1>0, <3>2, <3>3 DEF Work
      <4>2. [work[h].changed EXCEPT ![p] = Differing(c, d)] \in [Pairs -> SUBSET Field]
        BY <1>0, <3>2, <3>4 DEF Work
      <4>3. PICK D \in {{}, {p}} : D = IF c = d THEN {} ELSE {p}
        OBVIOUS
      <4>4. D \in SUBSET Pairs
        BY <3>2, <4>3
      <4>5. [work[h] EXCEPT !.loaded[p] = d, !.changed[p] = Differing(c, d),
                            !.dirty = IF c = d THEN {} ELSE {p}]
              = [work[h] EXCEPT !.loaded = [work[h].loaded EXCEPT ![p] = d],
                                !.changed = [work[h].changed EXCEPT ![p] = Differing(c, d)],
                                !.dirty = D]
        BY <1>0, <4>3 DEF Work
      <4> QED BY <3>1, <4>1, <4>2, <4>3, <4>4, <4>5
    <3>6. /\ work' \in [Handlers -> Work]
          /\ work'[h] = [work[h] EXCEPT !.loaded = L, !.changed = C, !.dirty = D]
      BY <1>0, <3>5, SessionUpdates DEF TypeOK
    <3>7. /\ FileKept(h) /\ RowsKept(h) /\ work'[h].loaded = L /\ work'[h].changed = C
          /\ work'[h].dirty = D /\ work'[h].locked = work[h].locked
          /\ work'[h].inserted = work[h].inserted
      BY <1>0, <3>6 DEF Work, FileKept, RowsKept
    <3>8. pc'[h] = "flush_all"
      BY <1>0, <3>1 DEF TypeOK, Goto
    <3>9. Patches(h, p, d)
      BY <3>1, <3>2, <3>3, <3>5, <3>7, <3>8 DEF Patches
    <3> QED BY <3>1, <3>6, <3>9 DEF InSession
  <2> QED BY <2>1, <2>2
<1>14. CASE Commit(h)
  BY <1>0, <1>14, NoWorkType DEF Commit, TypeOK
<1> QED
  BY <1>2, <1>3, <1>4, <1>5, <1>6, <1>8, <1>9, <1>10, <1>11, <1>12, <1>13, <1>14
     DEF Moves, Step

LEMMA ControlType ==
    ASSUME TypeOK, NEW h \in Handlers, Moves(h)
    PROVE  /\ req' \in [Handlers -> Request \cup {None}]
           /\ pc' \in [Handlers -> Label]
           /\ answer' \in [Handlers -> {"none", "200", "404", "500", "503", "lost"}]
           /\ overlap' \in BOOLEAN
<1> USE DEF TypeOK, Goto, EndWith, Label, db
<1>1. CASE Begin(h)
  <2>1. PICK r \in Workload[h] : /\ req' = [req EXCEPT ![h] = r]
                                 /\ pc' = [pc EXCEPT ![h] = IF r.kind = "patch" THEN "load_entry"
                                                            ELSE "find_set"]
    BY <1>1 DEF Begin
  <2>2. r \in Request
    BY ConstantsAssumption
  <2> QED BY <1>1, <2>1, <2>2 DEF Begin
<1>2. CASE BreakDeadlock(h) \/ Crash(h) \/ Disabled(h) \/ FindSet(h) \/ InsertSet(h)
  BY <1>2 DEF BreakDeadlock, Crash, Disabled, FindSet, InsertSet
<1>3. CASE ReadOrders(h) \/ LoadCatalog(h) \/ SkipTrack(h) \/ LinkTrack(h) \/ NewTrack(h)
           \/ TracksDone(h)
  BY <1>3 DEF ReadOrders, LoadCatalog, SkipTrack, LinkTrack, NewTrack, TracksDone
<1>4. CASE FlushUpdate(h) \/ FlushDone(h) \/ InsertCatalog(h)
  BY <1>4 DEF FlushUpdate, FlushDone, InsertCatalog
<1>5. CASE LoadEntry(h) \/ Commit(h)
  BY <1>5 DEF LoadEntry, Commit
<1> QED BY <1>1, <1>2, <1>3, <1>4, <1>5 DEF Moves, Step

(* What a commit makes of an entry: it stays an entry, with the plays that *)
(* the session or another one wrote last.                                  *)
LEMMA StoredEntry ==
    ASSUME ISession, NEW h \in Handlers, NEW p \in Pairs
    PROVE  /\ Stored(h, p) \in Entry \cup {None}
           /\ p \in work[h].inserted => Stored(h, p) = work[h].loaded[p] /\ Stored(h, p) \in Entry
           /\ p \notin work[h].inserted =>
                 IF catalog[p] = None THEN Stored(h, p) = None
                 ELSE /\ Stored(h, p) \in Entry
                      /\ Stored(h, p).plays =
                            IF p \in work[h].locked /\ "plays" \in work[h].changed[p]
                            THEN work[h].loaded[p].plays ELSE catalog[p].plays
<1>0. TypeOK /\ Session(h) /\ work[h] \in Work
  BY DEF ISession, TypeOK
<1>1. work[h].loaded[p] \in Entry \cup {None} /\ catalog[p] \in Entry \cup {None}
  BY <1>0 DEF Work, TypeOK
<1>2. CASE p \in work[h].inserted
  BY <1>0, <1>1, <1>2 DEF Session, Stored
<1>3. CASE p \notin work[h].inserted /\ p \notin work[h].locked
  BY <1>1, <1>3, NoneAssumption DEF Stored
<1>4. CASE p \notin work[h].inserted /\ p \in work[h].locked
  <2>1. work[h].loaded[p] \in Entry /\ catalog[p] \in Entry
    BY <1>0, <1>1, <1>4 DEF Session
  <2>2. Stored(h, p) = [f \in Field |-> IF f \in work[h].changed[p] THEN work[h].loaded[p][f]
                                        ELSE catalog[p][f]]
    BY <1>4, <2>1, EntryFields DEF Stored
  <2>3. Stored(h, p) = [genre |-> Stored(h, p).genre, bpm |-> Stored(h, p).bpm,
                        source |-> Stored(h, p).source, confidence |-> Stored(h, p).confidence,
                        plays |-> Stored(h, p).plays]
    BY <2>2 DEF Field
  <2>4. Stored(h, p) \in Entry
    BY <2>1, <2>2, <2>3 DEF Entry, Field
  <2>5. Stored(h, p).plays = IF "plays" \in work[h].changed[p] THEN work[h].loaded[p].plays
                             ELSE catalog[p].plays
    BY <2>2 DEF Field
  <2> QED BY <1>4, <2>1, <2>4, <2>5, NoneAssumption
<1> QED BY <1>2, <1>3, <1>4

(* Nothing but a commit changes the store.                                 *)
LEMMA StoreType ==
    ASSUME ISession, NEW h \in Handlers, Moves(h)
    PROVE  TypeOK' /\ \A p \in Pairs : catalog[p] # None => catalog'[p] # None
<1>0. TypeOK /\ work[h] \in Work
  BY DEF ISession, TypeOK
<1>1. CASE Commit(h)
  <2>1. \A p \in Pairs : /\ Stored(h, p) \in Entry \cup {None}
                         /\ catalog[p] # None => Stored(h, p) # None
    <3> SUFFICES ASSUME NEW p \in Pairs
                 PROVE  /\ Stored(h, p) \in Entry \cup {None}
                        /\ catalog[p] # None => Stored(h, p) # None
      OBVIOUS
    <3> QED BY StoredEntry, NoneAssumption
  <2>2. /\ catalog' \in [Pairs -> Entry \cup {None}]
        /\ \A p \in Pairs : catalog[p] # None => catalog'[p] # None
    BY <1>1, <2>1 DEF Commit
  <2>3. sets' \in SUBSET Handlers /\ tracks' \in SUBSET TrackRow
    BY <1>0, <1>1 DEF Commit, TypeOK, Work
  <2>4. work' \in [Handlers -> Work]
    BY StepCases
  <2> QED BY <1>0, <2>2, <2>3, <2>4, ControlType DEF TypeOK
<1>2. CASE UNCHANGED db
  BY <1>0, <1>2, StepCases, ControlType DEF TypeOK, db
<1> QED BY <1>1, <1>2, StepCases

LEMMA SessionMover ==
    ASSUME ISession, NEW h \in Handlers, Moves(h)
    PROVE  Session(h)'
<1>0. TypeOK /\ Session(h) /\ work[h] \in Work /\ TypeOK'
  BY StoreType DEF ISession, TypeOK
<1>1. ASSUME pc'[h] = "done", work'[h] = NoWork, req' = req, pc[h] # "idle"
      PROVE  Session(h)'
  BY <1>0, <1>1 DEF Session, NoWork, InIngest, Before
<1>2. CASE Starts(h)
  <2>1. PICK r \in Request : /\ req' = [req EXCEPT ![h] = r]
                             /\ pc'[h] = IF r.kind = "patch" THEN "load_entry" ELSE "find_set"
    BY <1>2 DEF Starts
  <2>2. req'[h] = r
    BY <1>0, <2>1 DEF TypeOK
  <2>3. /\ r.kind = "patch" <=> r \in CatalogPatch
        /\ r.kind # "patch" => r \in IngestPost
    BY KindsOfRequests DEF Request
  <2>4. work'[h] = NoWork
    BY <1>0, <1>2 DEF Starts, Session, Before
  <2> QED BY <1>0, <2>1, <2>2, <2>3, <2>4 DEF Session, NoWork, InIngest, Before
<1>3. CASE Ended(h) /\ pc[h] # "idle"
  BY <1>1, <1>3 DEF Ended
<1>4. CASE Commit(h)
  BY <1>0, <1>1, <1>4 DEF Commit, TypeOK, Goto
<1>5. CASE InSession(h) /\ UNCHANGED db
  <2>0. UNCHANGED catalog /\ req' = req
    BY <1>5 DEF db, InSession, Goes, Opens, Creates, Reads, Loads, Skipped, Links, News, Updates,
                Inserts, Patches
  <2>1. CASE Goes(h)
    <3>1. work'[h] = work[h]
      BY <2>1 DEF Goes
    <3> QED BY <1>0, <2>0, <2>1, <3>1 DEF Goes, Session, Blank, Current, InIngest, Before
  <2>2. CASE \E s : Opens(h, s)
    <3>1. PICK s : Opens(h, s)
      BY <2>2
    <3>2. /\ req[h] \in IngestPost /\ req[h] \notin CatalogPatch /\ s \in Handlers
          /\ pc'[h] = "read_orders" /\ pc[h] # "idle"
      BY <1>0, <3>1 DEF Opens, Session, InIngest, IngestPost, CatalogPatch, SetsOf, TypeOK
    <3>3. PICK W \in SUBSET Pairs :
             work'[h] = [NoWork EXCEPT !.set = s, !.again = TRUE, !.loaded = EntriesAt(W)]
      BY <3>1 DEF Opens
    <3>4. /\ work'[h].set = s /\ work'[h].at = 1 /\ Blank(h)'
          /\ work'[h].loaded = EntriesAt(W)
      BY <3>3 DEF NoWork, Blank
    <3>5. /\ \A p \in work'[h].dirty \cup work'[h].locked \cup work'[h].inserted :
               work'[h].loaded[p] # None
          /\ \A p \in Pairs : work'[h].loaded[p] # None => catalog[p] # None
      BY <3>4 DEF Blank, EntriesAt
    <3> QED BY <1>0, <2>0, <3>2, <3>4, <3>5 DEF Session, InIngest, Before
  <2>3. CASE Creates(h)
    <3>2. req[h] \in IngestPost /\ req[h] \notin CatalogPatch /\ pc'[h] = "load_catalog"
          /\ pc[h] # "idle"
      BY <1>0, <2>3 DEF Creates, Session, InIngest, IngestPost, CatalogPatch
    <3>3. /\ work'[h].set = h /\ work'[h].at = 1 /\ Blank(h)'
          /\ work'[h].loaded = [p \in Pairs |-> None]
      BY <2>3 DEF Creates, NoWork, Blank
    <3>4. /\ \A p \in work'[h].dirty \cup work'[h].locked \cup work'[h].inserted :
               work'[h].loaded[p] # None
          /\ \A p \in Pairs : work'[h].loaded[p] = None
      BY <3>3 DEF Blank
    <3> QED BY <1>0, <2>0, <3>2, <3>3, <3>4 DEF Session, InIngest, Before
  <2>4. CASE Reads(h)
    <3>1. /\ WritesKept(h) /\ RowsKept(h) /\ work'[h].set = work[h].set
          /\ work'[h].created = work[h].created
      BY <1>0, <2>4 DEF Reads, Work, WritesKept, RowsKept
    <3> QED BY <1>0, <2>0, <2>4, <3>1
            DEF Reads, Session, Blank, WritesKept, RowsKept, InIngest, Before
  <2>5. CASE Loads(h)
    <3>1. PICK L \in [Pairs -> Entry \cup {None}] :
             /\ work'[h] = [work[h] EXCEPT !.loaded = L]
             /\ \A p \in Pairs : L[p] \in {work[h].loaded[p], catalog[p]}
      BY <2>5 DEF Loads
    <3>2. /\ work'[h].loaded = L
          /\ work'[h].dirty = work[h].dirty /\ work'[h].locked = work[h].locked
          /\ work'[h].inserted = work[h].inserted /\ work'[h].at = work[h].at
          /\ work'[h].rows = work[h].rows /\ work'[h].set = work[h].set
          /\ work'[h].created = work[h].created
      BY <1>0, <3>1 DEF Work
    <3>3. pc[h] = "load_catalog" /\ pc'[h] = "track" /\ Blank(h) /\ req[h] \in IngestPost
      BY <1>0, <2>5 DEF Loads, Session, InIngest
    <3>4. /\ work'[h].dirty \cup work'[h].locked \cup work'[h].inserted = {}
          /\ \A p \in Pairs : work'[h].loaded[p] # None => catalog[p] # None
      BY <1>0, <3>1, <3>2, <3>3 DEF Blank, Session
    <3> QED BY <1>0, <2>0, <3>2, <3>3, <3>4 DEF Session, InIngest, Before
  <2>6. CASE Skipped(h)
    <3>1. work'[h].at # 0
      BY <1>0, <2>6 DEF Skipped, Work
    <3> QED BY <1>0, <2>0, <2>6, <3>1
            DEF Skipped, AtTrack, Session, WritesKept, FileKept, InIngest, Before
  <2>7. CASE \E p : Links(h, p)
    <3>1. PICK p : Links(h, p)
      BY <2>7
    <3>2. work'[h].at # 0 /\ pc[h] = "track" /\ pc'[h] = "track" /\ p \in Pairs
          /\ req[h] \in IngestPost /\ req[h] \notin CatalogPatch
          /\ FileKept(h)
      BY <1>0, <3>1 DEF Links, AtTrack, Work, Session, InIngest, IngestPost, CatalogPatch
    <3>3. PICK d \in Entry :
             /\ work'[h].loaded = [work[h].loaded EXCEPT ![p] = d]
             /\ work'[h].dirty = work[h].dirty \cup {p}
             /\ work'[h].locked = work[h].locked /\ work'[h].inserted = work[h].inserted
             /\ work[h].loaded[p] \in Entry
      BY <3>1 DEF Links
    <3>4. /\ \A q \in work'[h].dirty \cup work'[h].locked \cup work'[h].inserted :
               work'[h].loaded[q] # None
          /\ \A q \in Pairs : work'[h].loaded[q] # None =>
                q \in work'[h].inserted \/ catalog[q] # None
      BY <1>0, <3>2, <3>3, NoneAssumption DEF Session, Work
    <3> QED BY <1>0, <2>0, <3>2, <3>4 DEF Session, FileKept, InIngest, Before
  <2>8. CASE News(h)
    BY <1>0, <2>0, <2>8
       DEF News, AtTrack, Session, FileKept, WritesKept, Current, InIngest, Before, IngestPost,
           CatalogPatch
  <2>9. CASE \E p : Updates(h, p)
    <3>1. PICK p : Updates(h, p)
      BY <2>9
    <3> QED BY <1>0, <2>0, <3>1
            DEF Updates, Session, FileKept, RowsKept, Current, InIngest, Before
  <2>10. CASE \E p, d : Inserts(h, p, d)
    <3>1. PICK p, d : Inserts(h, p, d)
      BY <2>10
    <3>2. work'[h].at # 0 /\ pc[h] = "insert_catalog" /\ pc'[h] = "track" /\ p \in Pairs
          /\ req[h] \in IngestPost /\ req[h] \notin CatalogPatch
          /\ FileKept(h)
      BY <1>0, <3>1 DEF Inserts, Work, Session, InIngest, IngestPost, CatalogPatch
    <3>3. /\ \A q \in work'[h].dirty \cup work'[h].locked \cup work'[h].inserted :
               work'[h].loaded[q] # None
          /\ \A q \in Pairs : work'[h].loaded[q] # None =>
                q \in work'[h].inserted \/ catalog[q] # None
      BY <1>0, <3>1, NoneAssumption DEF Inserts, Session, Work
    <3> QED BY <1>0, <2>0, <3>2, <3>3 DEF Session, FileKept, InIngest, Before
  <2>11. CASE \E p, d : Patches(h, p, d)
    <3>1. PICK p, d : Patches(h, p, d)
      BY <2>11
    <3>2. work[h] = NoWork /\ pc'[h] = "flush_all" /\ req[h] \in CatalogPatch /\ pc[h] # "idle"
      BY <1>0, <3>1 DEF Patches, Session, Before
    <3>3. /\ work'[h].created = FALSE /\ work'[h].rows = {} /\ work'[h].at = 1
          /\ work'[h].inserted = {} /\ work'[h].locked = {} /\ work'[h].dirty \subseteq {p}
          /\ work'[h].loaded = [work[h].loaded EXCEPT ![p] = d]
          /\ work[h].loaded = [q \in Pairs |-> None]
          /\ p \in Pairs /\ d \in Entry /\ catalog[p] \in Entry
      <4>1. /\ work[h].created = FALSE /\ work[h].rows = {} /\ work[h].at = 1
            /\ work[h].inserted = {} /\ work[h].locked = {}
            /\ work[h].loaded = [q \in Pairs |-> None]
        BY <3>2 DEF NoWork
      <4> QED BY <3>1, <4>1 DEF Patches, FileKept, RowsKept
    <3>4. \A q \in Pairs : work'[h].loaded[q] = IF q = p THEN d ELSE None
      BY <3>3
    <3> QED BY <1>0, <2>0, <3>2, <3>3, <3>4, NoneAssumption DEF Session, InIngest, Before
  <2> QED BY <1>5, <2>1, <2>2, <2>3, <2>4, <2>5, <2>6, <2>7, <2>8, <2>9, <2>10, <2>11
          DEF InSession
<1> QED BY <1>2, <1>3, <1>4, <1>5, StepCases

LEMMA ISessionStep == ISession /\ [Next]_vars => ISession'
<1> SUFFICES ASSUME ISession, [Next]_vars PROVE ISession'
  OBVIOUS
<1>1. ASSUME NEW h \in Handlers, Moves(h) PROVE ISession'
  <2>1. ASSUME NEW g \in Handlers \ {h} PROVE Session(g)'
    <3>1. req'[g] = req[g] /\ pc'[g] = pc[g] /\ work'[g] = work[g]
      BY <1>1, OthersUntouched DEF ISession
    <3>2. \A p \in Pairs : catalog[p] # None => catalog'[p] # None
      BY <1>1, StoreType
    <3>3. Session(g)
      BY DEF ISession
    <3> QED BY <3>1, <3>2, <3>3 DEF Session, Blank, Current
  <2> QED BY <1>1, <2>1, StoreType, SessionMover DEF ISession
<1>2. CASE UNCHANGED vars
  <2>1. TypeOK'
    BY <1>2 DEF vars, db, ISession, TypeOK
  <2>2. \A g \in Handlers : Session(g)'
    BY <1>2 DEF vars, db, ISession, Session, Blank, Current
  <2> QED BY <2>1, <2>2 DEF ISession
<1> QED BY <1>1, <1>2 DEF Next, Quiet, Moves

LEMMA ISessionInit == Init => ISession
<1> SUFFICES ASSUME Init PROVE ISession
  OBVIOUS
<1>1. TypeOK
  BY NoWorkType DEF Init, TypeOK, Label
<1>2. \A h \in Handlers : Session(h)
  <2> SUFFICES ASSUME NEW h \in Handlers PROVE Session(h)
    OBVIOUS
  <2>1. req[h] = None /\ pc[h] = "idle" /\ work[h] = NoWork
    BY DEF Init
  <2>2. req[h] \notin CatalogPatch
    BY <2>1, ConstantsAssumption DEF Request
  <2> QED BY <2>1, <2>2 DEF Session, NoWork, InIngest, Before
<1> QED BY <1>1, <1>2 DEF ISession

(* Type correctness, for any requests in flight.                           *)
THEOREM TypeCorrect == Spec => []TypeOK
<1>1. ISession => TypeOK
  BY DEF ISession
<1> QED BY <1>1, ISessionInit, ISessionStep, PTL DEF Spec

-----------------------------------------------------------------------------
(***************************************************************************)
(* The set of an ingest: the one it inserted, of a file that no other      *)
(* session and no committed set has, or a committed one of its file.  The  *)
(* rows it has added are the tracks it passed and did not skip.            *)
(***************************************************************************)
InSet == {"read_orders", "load_catalog", "track", "flush", "insert_catalog", "flush_all",
          "commit"}
AtNew == {"flush", "insert_catalog"}

HasSet(h) ==
    /\ work[h].created => /\ work[h].set = h /\ ~work[h].again /\ pc[h] \in InSet
                          /\ req[h] \in IngestPost /\ SetsOf(req[h].file) = {}
    /\ work[h].again => work[h].set \in SetsOf(req[h].file)
    /\ req[h] \in IngestPost /\ pc[h] \in InSet => work[h].created \/ work[h].again
    /\ \A t \in work[h].rows : /\ t = RowOf(h, t.at) /\ t.at \in DOMAIN req[h].tracks
                               /\ t.at <= work[h].at
                               /\ t.at = work[h].at => pc[h] \in AtNew
    /\ pc[h] \in AtNew => RowOf(h, work[h].at) \in work[h].rows

StoredSets ==
    /\ \A s \in sets : pc[s] = "done" /\ req[s] \in IngestPost
    /\ \A s, t \in sets : req[s].file = req[t].file => s = t
    /\ \A g, h \in Handlers : g # h /\ work[g].created /\ work[h].created
                                 => req[g].file # req[h].file
    /\ \A t \in tracks : t.set \in sets /\ pc[t.by] = "done"

IFiles == ISession /\ (\A h \in Handlers : HasSet(h)) /\ StoredSets

(* An ended request and a stored set stay as they are; the store grows.    *)
LEMMA EndedStay ==
    ASSUME TypeOK, NEW h \in Handlers, Moves(h), NEW g \in Handlers, pc[g] = "done"
    PROVE  pc'[g] = "done" /\ req'[g] = req[g] /\ answer'[g] = answer[g] /\ g # h
<1>1. g # h
  <2>1. BlockedBy(g) = {}
    BY DEF BlockedBy
  <2>2. ~Step(g)
    BY DEF Step, Disabled, FindSet, InsertSet, ReadOrders, LoadCatalog, SkipTrack, LinkTrack,
           NewTrack, TracksDone, FlushUpdate, FlushDone, InsertCatalog, LoadEntry, Commit
  <2> QED BY <2>1, <2>2 DEF Moves, Begin, BreakDeadlock, Deadlocked, Crash, InFlight
<1> QED BY <1>1, OthersUntouched

LEMMA SetsStay ==
    ASSUME IFiles, NEW h \in Handlers, Moves(h)
    PROVE  /\ sets \subseteq sets' /\ tracks \subseteq tracks'
           /\ \A s \in sets : req'[s] = req[s] /\ pc'[s] = "done"
           /\ ~Commit(h) => sets' = sets /\ tracks' = tracks /\ catalog' = catalog
           /\ \A f : SetsOf(f) \subseteq SetsOf(f)'
           /\ \A f : SetsOf(f)' # SetsOf(f) => /\ Commit(h) /\ work[h].created
                                              /\ f = req[h].file /\ SetsOf(f)' = {h}
<1>0. TypeOK /\ ISession /\ HasSet(h) /\ sets \subseteq Handlers
  BY DEF IFiles, ISession, TypeOK
<1>1. \A s \in sets : req'[s] = req[s] /\ pc'[s] = "done"
  BY <1>0, EndedStay DEF IFiles, StoredSets
<1>2. CASE UNCHANGED db
  BY <1>1, <1>2 DEF db, SetsOf
<1>3. CASE Commit(h)
  <2>1. /\ sets' = IF work[h].created THEN sets \cup {h} ELSE sets
        /\ tracks' = tracks \cup work[h].rows /\ req' = req
    BY <1>3 DEF Commit
  <2>2. work[h].created => SetsOf(req[h].file) = {}
    BY <1>0 DEF HasSet
  <2>3. \A f : SetsOf(f) \subseteq SetsOf(f)'
    BY <2>1 DEF SetsOf
  <2>4. ASSUME NEW f, SetsOf(f)' # SetsOf(f)
        PROVE  work[h].created /\ f = req[h].file /\ SetsOf(f)' = {h}
    <3>1. CASE ~work[h].created
      BY <2>1, <2>4, <3>1 DEF SetsOf
    <3>2. CASE work[h].created /\ f # req[h].file
      BY <2>1, <2>4, <3>2 DEF SetsOf
    <3>3. CASE work[h].created /\ f = req[h].file
      BY <2>1, <2>2, <3>3 DEF SetsOf
    <3> QED BY <3>1, <3>2, <3>3
  <2> QED BY <1>1, <1>3, <2>1, <2>3, <2>4
<1> QED BY <1>0, <1>2, <1>3, StepCases

LEMMA HasSetMover ==
    ASSUME IFiles, ISession', NEW h \in Handlers, Moves(h)
    PROVE  HasSet(h)'
<1>0. /\ TypeOK /\ ISession /\ Session(h) /\ HasSet(h) /\ work[h] \in Work /\ Session(h)'
      /\ work'[h] \in Work
  BY DEF IFiles, ISession, TypeOK
<1>1. CASE work'[h] = NoWork /\ pc'[h] \in Before
  BY <1>1 DEF HasSet, NoWork, Before, InSet, AtNew
<1>2. CASE Starts(h)
  BY <1>0, <1>1, <1>2 DEF Starts, Session, Before
<1>3. CASE Ended(h) \/ Commit(h)
  BY <1>0, <1>1, <1>3 DEF Ended, Commit, Before, TypeOK, Goto
<1>4. CASE InSession(h) /\ UNCHANGED db
  <2>0. UNCHANGED <<sets, tracks>> /\ req' = req /\ \A f : SetsOf(f)' = SetsOf(f)
    BY <1>4 DEF db, SetsOf, InSession, Goes, Opens, Creates, Reads, Loads, Skipped, Links, News,
                Updates, Inserts, Patches
  <2>1. CASE Goes(h) /\ pc[h] = "find_set"
    BY <1>0, <1>1, <2>1 DEF Goes, Session, Before
  <2>2. CASE Goes(h) /\ pc[h] # "find_set"
    <3>1. work'[h] = work[h] /\ (pc'[h] \in AtNew <=> pc[h] \in AtNew) /\ pc[h] \in InSet
          /\ pc'[h] \in InSet
      BY <2>2 DEF Goes, AtNew, InSet
    <3> QED BY <1>0, <2>0, <3>1 DEF HasSet, RowOf
  <2>3. CASE \E s : Opens(h, s)
    BY <2>0, <2>3 DEF Opens, NoWork, HasSet, InSet, AtNew
  <2>4. CASE Creates(h)
    <3>1. req[h] \in IngestPost
      BY <1>0, <2>4 DEF Creates, Session, InIngest
    <3> QED BY <2>0, <2>4, <3>1 DEF Creates, NoWork, HasSet, InSet, AtNew
  <2>5. CASE Reads(h) \/ Loads(h)
    <3>1. /\ work'[h].created = work[h].created /\ work'[h].again = work[h].again
          /\ work'[h].set = work[h].set /\ work'[h].rows = {}
      <4>1. CASE Reads(h)
        <5>1. PICK K : work'[h] = [work[h] EXCEPT !.known = K]
          BY <4>1 DEF Reads
        <5>2. work[h].rows = {}
          BY <1>0, <4>1 DEF Reads, Session, Blank
        <5> QED BY <1>0, <5>1, <5>2 DEF Work
      <4>2. CASE Loads(h)
        <5>1. PICK L : work'[h] = [work[h] EXCEPT !.loaded = L]
          BY <4>2 DEF Loads
        <5>2. work[h].rows = {}
          BY <1>0, <4>2 DEF Loads, Session, Blank
        <5> QED BY <1>0, <5>1, <5>2 DEF Work
      <4> QED BY <2>5, <4>1, <4>2
    <3>2. pc[h] \in {"read_orders", "load_catalog"} /\ pc'[h] \in {"load_catalog", "track"}
      BY <2>5 DEF Reads, Loads
    <3> QED BY <1>0, <2>0, <3>1, <3>2 DEF HasSet, InSet, AtNew
  <2>6. CASE Skipped(h)
    <3>1. /\ pc[h] = "track" /\ pc'[h] = "track" /\ FileKept(h)
          /\ work'[h].rows = work[h].rows /\ work'[h].at = work[h].at + 1
      BY <2>6 DEF Skipped, AtTrack
    <3>2. \A t \in work[h].rows : t.at <= work'[h].at /\ t.at # work'[h].at
      BY <1>0, <3>1 DEF HasSet, Work, TrackRow, AtNew
    <3> QED BY <1>0, <2>0, <3>1, <3>2 DEF HasSet, FileKept, InSet, AtNew, RowOf
  <2>7. CASE \E p : Links(h, p)
    <3>1. PICK p : Links(h, p)
      BY <2>7
    <3>2. /\ pc[h] = "track" /\ pc'[h] = "track" /\ FileKept(h)
          /\ work[h].at \in DOMAIN req[h].tracks
          /\ work'[h].rows = work[h].rows \cup {RowOf(h, work[h].at)}
          /\ work'[h].at = work[h].at + 1
      BY <3>1 DEF Links, AtTrack
    <3>3. RowOf(h, work[h].at).at = work[h].at /\ work[h].at \in Nat
      BY <1>0 DEF RowOf, Work
    <3>4. \A t \in work'[h].rows : /\ t.at <= work'[h].at /\ t.at # work'[h].at
                                   /\ t = RowOf(h, t.at) /\ t.at \in DOMAIN req[h].tracks
      BY <1>0, <3>2, <3>3 DEF HasSet, Work, TrackRow, AtNew
    <3>5. \A t \in work'[h].rows : t = RowOf(h, t.at)'
      BY <2>0, <3>2, <3>4 DEF RowOf, FileKept
    <3> QED BY <1>0, <2>0, <3>2, <3>4, <3>5 DEF HasSet, FileKept, InSet, AtNew
  <2>8. CASE News(h)
    <3>2. /\ pc[h] = "track" /\ pc'[h] = "flush" /\ FileKept(h)
          /\ work[h].at \in DOMAIN req[h].tracks
          /\ work'[h].rows = work[h].rows \cup {RowOf(h, work[h].at)}
          /\ work'[h].at = work[h].at
      BY <2>8 DEF News, AtTrack
    <3>3. RowOf(h, work[h].at).at = work[h].at /\ work[h].at \in Nat
      BY <1>0 DEF RowOf, Work
    <3>4. \A t \in work'[h].rows : /\ t.at <= work'[h].at
                                   /\ t = RowOf(h, t.at) /\ t.at \in DOMAIN req[h].tracks
      BY <1>0, <3>2, <3>3 DEF HasSet, Work, TrackRow, AtNew
    <3>5. /\ \A t \in work'[h].rows : t = RowOf(h, t.at)'
          /\ RowOf(h, work[h].at)' = RowOf(h, work[h].at)
      BY <2>0, <3>2, <3>4 DEF RowOf, FileKept
    <3> QED BY <1>0, <2>0, <3>2, <3>4, <3>5 DEF HasSet, FileKept, InSet, AtNew
  <2>9. CASE \E p : Updates(h, p)
    <3>1. FileKept(h) /\ RowsKept(h) /\ pc' = pc
      BY <2>9 DEF Updates
    <3> QED BY <1>0, <2>0, <3>1 DEF HasSet, FileKept, RowsKept, RowOf
  <2>10. CASE \E p, d : Inserts(h, p, d)
    <3>1. /\ pc[h] = "insert_catalog" /\ pc'[h] = "track" /\ FileKept(h)
          /\ work'[h].rows = work[h].rows /\ work'[h].at = work[h].at + 1
      BY <2>10 DEF Inserts
    <3>2. \A t \in work[h].rows : t.at <= work'[h].at /\ t.at # work'[h].at
      BY <1>0, <3>1 DEF HasSet, Work, TrackRow
    <3> QED BY <1>0, <2>0, <3>1, <3>2 DEF HasSet, FileKept, InSet, AtNew, RowOf
  <2>11. CASE \E p, d : Patches(h, p, d)
    <3>1. /\ FileKept(h) /\ RowsKept(h) /\ pc[h] = "load_entry" /\ pc'[h] = "flush_all"
      BY <2>11 DEF Patches
    <3>2. work[h] = NoWork /\ req[h] \in CatalogPatch
      BY <1>0, <3>1 DEF Session, Before
    <3>3. req[h] \notin IngestPost /\ work'[h].rows = {} /\ ~work'[h].created /\ ~work'[h].again
      BY <3>1, <3>2 DEF FileKept, RowsKept, NoWork, CatalogPatch, IngestPost
    <3> QED BY <2>0, <3>1, <3>2, <3>3 DEF HasSet, AtNew
  <2> QED BY <1>4, <2>1, <2>2, <2>3, <2>4, <2>5, <2>6, <2>7, <2>8, <2>9, <2>10, <2>11
          DEF InSession
<1> QED BY <1>0, <1>2, <1>3, <1>4, StepCases

LEMMA HasSetOthers ==
    ASSUME IFiles, NEW h \in Handlers, Moves(h), NEW g \in Handlers \ {h}
    PROVE  HasSet(g)'
<1>0. TypeOK /\ HasSet(g) /\ StoredSets
  BY DEF IFiles, ISession
<1>1. req'[g] = req[g] /\ pc'[g] = pc[g] /\ work'[g] = work[g]
  BY <1>0, OthersUntouched
<1>2. PICK f : f = req[g].file
  OBVIOUS
<1>3. SetsOf(f) \subseteq SetsOf(f)' /\ (work[g].created => SetsOf(f)' = {})
  <2>1. work[g].created /\ work[h].created => f # req[h].file
    BY <1>0, <1>2 DEF StoredSets
  <2>2. work[g].created => SetsOf(f) = {}
    BY <1>0, <1>2 DEF HasSet
  <2> QED BY <2>1, <2>2, SetsStay
<1>4. SetsOf(req[g].file) \subseteq SetsOf(req[g].file)'
      /\ (work[g].created => SetsOf(req[g].file)' = {})
  BY <1>1, <1>2, <1>3 DEF SetsOf
<1> QED BY <1>0, <1>1, <1>4 DEF HasSet, RowOf

LEMMA StoredSetsStep ==
    ASSUME IFiles, NEW h \in Handlers, Moves(h)
    PROVE  StoredSets'
<1>0. /\ TypeOK /\ ISession /\ HasSet(h) /\ Session(h) /\ StoredSets /\ sets \subseteq Handlers
      /\ tracks \subseteq TrackRow
  BY DEF IFiles, ISession, TypeOK
<1>1. \A s \in sets : pc'[s] = "done" /\ req'[s] = req[s]
  BY SetsStay
<1>2. \A g \in Handlers \ {h} : work'[g] = work[g] /\ req'[g] = req[g]
  BY <1>0, OthersUntouched
<1>3. \A t \in tracks : pc'[t.by] = "done"
  BY <1>0, EndedStay DEF StoredSets, TrackRow
<1>4. CASE Commit(h)
  <2>1. /\ sets' = IF work[h].created THEN sets \cup {h} ELSE sets
        /\ tracks' = tracks \cup work[h].rows /\ req' = req /\ pc'[h] = "done"
        /\ work'[h] = NoWork /\ pc[h] = "commit"
    BY <1>0, <1>4 DEF Commit, Goto, TypeOK
  <2>2. \A s \in sets' : pc'[s] = "done" /\ req'[s] \in IngestPost
    BY <1>0, <1>1, <2>1 DEF StoredSets, HasSet
  <2>3. \A s, t \in sets' : req'[s].file = req'[t].file => s = t
    <3>1. work[h].created => \A s \in sets : req[s].file # req[h].file
      BY <1>0 DEF HasSet, SetsOf
    <3> QED BY <1>0, <2>1, <3>1 DEF StoredSets
  <2>4. \A g, k \in Handlers : g # k /\ work'[g].created /\ work'[k].created
                                  => req'[g].file # req'[k].file
    <3>1. ~work'[h].created
      BY <2>1 DEF NoWork
    <3> QED BY <1>0, <1>2, <3>1 DEF StoredSets
  <2>5. \A t \in tracks' : t.set \in sets' /\ pc'[t.by] = "done"
    <3>1. ASSUME NEW t \in work[h].rows PROVE t.set \in sets' /\ t.by = h
      <4>1. t.by = h /\ t.set = work[h].set
        BY <1>0 DEF HasSet, RowOf
      <4>2. req[h] \in IngestPost
        BY <1>0, <2>1, KindsOfRequests DEF Session, Request
      <4>3. work[h].created \/ work[h].again
        BY <1>0, <2>1, <4>2 DEF HasSet, InSet
      <4>4. work[h].set \in sets'
        BY <1>0, <2>1, <4>3 DEF HasSet, SetsOf
      <4> QED BY <4>1, <4>4
    <3> QED BY <1>0, <1>3, <2>1, <3>1 DEF StoredSets
  <2> QED BY <2>2, <2>3, <2>4, <2>5 DEF StoredSets
<1>5. CASE ~Commit(h)
  <2>1. sets' = sets /\ tracks' = tracks
    BY <1>5, SetsStay
  <2>2. \A g \in Handlers \ {h} :
          work'[h].created /\ work[g].created => req'[h].file # req[g].file
    <3>1. CASE work'[h] = NoWork
      BY <3>1 DEF NoWork
    <3>2. CASE Starts(h)
      BY <1>0, <3>1, <3>2 DEF Starts, Session, Before
    <3>3. CASE Creates(h)
      BY <3>3 DEF Creates, Others
    <3>4. CASE InSession(h) /\ ~Creates(h)
      <4>1. work'[h].created => work[h].created /\ req' = req
        <5>1. CASE Goes(h) \/ Skipped(h) \/ News(h) \/ (\E p : Links(h, p)) \/ (\E p : Updates(h, p))
                   \/ (\E p, d : Inserts(h, p, d)) \/ (\E p, d : Patches(h, p, d))
          BY <5>1 DEF Goes, Skipped, News, Links, Updates, Inserts, Patches, FileKept
        <5>2. CASE \E s : Opens(h, s)
          BY <5>2 DEF Opens, NoWork
        <5>3. CASE Reads(h)
          <6>1. PICK K : work'[h] = [work[h] EXCEPT !.known = K] /\ req' = req
            BY <5>3 DEF Reads
          <6> QED BY <1>0, <6>1 DEF TypeOK, Work
        <5>4. CASE Loads(h)
          <6>1. PICK L : work'[h] = [work[h] EXCEPT !.loaded = L] /\ req' = req
            BY <5>4 DEF Loads
          <6> QED BY <1>0, <6>1 DEF TypeOK, Work
        <5> QED BY <3>4, <5>1, <5>2, <5>3, <5>4 DEF InSession
      <4> QED BY <1>0, <4>1 DEF StoredSets
    <3> QED BY <1>0, <1>5, <3>1, <3>2, <3>3, <3>4, StepCases DEF Ended
  <2> QED BY <1>0, <1>1, <1>2, <1>3, <2>1, <2>2 DEF StoredSets
<1> QED BY <1>4, <1>5

LEMMA IFilesStep == IFiles /\ [Next]_vars => IFiles'
<1> SUFFICES ASSUME IFiles, [Next]_vars PROVE IFiles'
  OBVIOUS
<1>0. ISession'
  BY ISessionStep DEF IFiles
<1>1. ASSUME NEW h \in Handlers, Moves(h) PROVE IFiles'
  <2>1. \A g \in Handlers : HasSet(g)'
    BY <1>0, <1>1, HasSetMover, HasSetOthers
  <2> QED BY <1>0, <1>1, <2>1, StoredSetsStep DEF IFiles
<1>2. CASE UNCHANGED vars
  <2>1. \A g \in Handlers : HasSet(g)'
    BY <1>2 DEF IFiles, vars, db, HasSet, RowOf, SetsOf
  <2>2. StoredSets'
    BY <1>2 DEF IFiles, vars, db, StoredSets
  <2> QED BY <1>0, <2>1, <2>2 DEF IFiles
<1> QED BY <1>1, <1>2 DEF Next, Quiet, Moves

LEMMA IFilesInit == Init => IFiles
<1> SUFFICES ASSUME Init PROVE IFiles
  OBVIOUS
<1>1. \A h \in Handlers : work[h] = NoWork /\ pc[h] = "idle"
  BY DEF Init
<1>2. \A h \in Handlers : HasSet(h)
  BY <1>1 DEF HasSet, NoWork, InSet, AtNew
<1>3. StoredSets
  BY <1>1 DEF StoredSets, Init, NoWork
<1> QED BY <1>2, <1>3, ISessionInit DEF IFiles

LEMMA IFilesInvariant == Spec => []IFiles
BY IFilesInit, IFilesStep, PTL DEF Spec

-----------------------------------------------------------------------------
(***************************************************************************)
(* What an ingest has dealt with so far is stored, or among its own rows;  *)
(* one that answered 200 has left its file complete.                       *)
(***************************************************************************)
Covered(h, i) ==
    \E t \in tracks \cup work[h].rows :
        t.set = work[h].set /\ t.order = PlayOrder(req[h].tracks[i])

Covers(h) ==
    /\ \A o \in work[h].known : \E t \in tracks : t.set = work[h].set /\ t.order = o
    /\ req[h] \in IngestPost /\ pc[h] \in InSet =>
          \A i \in DOMAIN req[h].tracks : i < work[h].at => Covered(h, i)
    /\ req[h] \in IngestPost /\ pc[h] \in {"flush_all", "commit"} =>
          work[h].at > Len(req[h].tracks)

Answers(h) ==
    /\ answer[h] # "none" => pc[h] = "done"
    /\ answer[h] = "200" /\ req[h] \in IngestPost => Complete(h)

ICovers == IFiles /\ \A h \in Handlers : Covers(h) /\ Answers(h)

LEMMA CoversMover ==
    ASSUME ICovers, NEW h \in Handlers, Moves(h)
    PROVE  Covers(h)'
<1>0. /\ IFiles /\ ISession /\ TypeOK /\ Session(h) /\ HasSet(h) /\ Covers(h)
      /\ work[h] \in Work /\ work[h].at \in Nat
  BY DEF ICovers, IFiles, ISession, TypeOK, Work
<1>at. PICK n : n = work[h].at
  OBVIOUS
<1>1. CASE work'[h] = NoWork /\ pc'[h] \in Before
  BY <1>1 DEF Covers, NoWork, Before, InSet
<1>2. CASE Starts(h)
  BY <1>0, <1>1, <1>2 DEF Starts, Session, Before
<1>3. CASE Ended(h) \/ Commit(h)
  BY <1>0, <1>1, <1>3 DEF Ended, Commit, Before, TypeOK, Goto
<1>4. CASE InSession(h) /\ UNCHANGED db
  <2>0. UNCHANGED <<sets, tracks>> /\ req' = req
    BY <1>4 DEF db, InSession, Goes, Opens, Creates, Reads, Loads, Skipped, Links, News,
                Updates, Inserts, Patches
  <2>1. CASE Goes(h) /\ pc[h] = "find_set"
    BY <1>0, <1>1, <2>1 DEF Goes, Session, Before
  <2>2. CASE Goes(h) /\ pc[h] # "find_set"
    <3>1. /\ work'[h] = work[h] /\ pc[h] \in InSet
          /\ pc'[h] \in {"flush_all", "commit"} =>
                pc[h] = "flush_all" \/ work[h].at > Len(req[h].tracks)
      BY <2>2 DEF Goes, InSet
    <3> QED BY <1>0, <2>0, <3>1 DEF Covers, Covered
  <2>3. CASE (\E s : Opens(h, s)) \/ Creates(h)
    <3>1. work'[h].known = {} /\ work'[h].at = 1 /\ pc'[h] \notin {"flush_all", "commit"}
      BY <2>3 DEF Opens, Creates, NoWork
    <3>2. \A i \in DOMAIN req[h].tracks : req[h] \in IngestPost => ~(i < 1)
      BY <1>0, CurrentType
    <3> QED BY <2>0, <3>1, <3>2 DEF Covers
  <2>4. CASE Reads(h) \/ Loads(h)
    <3>1. work[h].at = 1
      BY <1>0, <2>4 DEF Reads, Loads, Session, Blank
    <3>2. /\ work'[h].at = 1 /\ pc'[h] \notin {"flush_all", "commit"}
          /\ work'[h].set = work[h].set
          /\ \/ work'[h].known = work[h].known
             \/ work'[h].known = {t.order : t \in {u \in tracks : u.set = work[h].set}}
      <4>1. CASE Reads(h)
        <5>1. PICK K : /\ work'[h] = [work[h] EXCEPT !.known = K]
                       /\ K = {t.order : t \in {u \in tracks : u.set = work[h].set}}
          BY <4>1 DEF Reads
        <5> QED BY <1>0, <3>1, <4>1, <5>1 DEF Reads, Work
      <4>2. CASE Loads(h)
        <5>1. PICK L : work'[h] = [work[h] EXCEPT !.loaded = L]
          BY <4>2 DEF Loads
        <5> QED BY <1>0, <3>1, <4>2, <5>1 DEF Loads, Work
      <4> QED BY <2>4, <4>1, <4>2
    <3>3. \A i \in DOMAIN req[h].tracks : req[h] \in IngestPost => ~(i < 1)
      BY <1>0, CurrentType
    <3>4. \A o \in work'[h].known : \E t \in tracks : t.set = work[h].set /\ t.order = o
      BY <1>0, <3>2 DEF Covers
    <3> QED BY <2>0, <3>2, <3>3, <3>4 DEF Covers
  <2>5. ASSUME pc[h] \in InSet, pc'[h] \notin {"flush_all", "commit"}, FileKept(h),
               work[h].rows \subseteq work'[h].rows, req[h] \in IngestPost,
               \/ work'[h].at = work[h].at
               \/ work'[h].at = work[h].at + 1 /\ Covered(h, n)'
        PROVE  Covers(h)'
    <3>1. ASSUME NEW i \in DOMAIN req[h].tracks, i < work'[h].at
          PROVE  Covered(h, i)'
      <4>1. i \in Nat
        BY <1>0, <2>5, CurrentType
      <4>2. CASE i < work[h].at
        BY <1>0, <2>0, <2>5, <4>2 DEF Covers, Covered, FileKept
      <4>3. CASE ~(i < work[h].at)
        <5>1. i = n /\ Covered(h, n)'
          BY <1>0, <1>at, <2>5, <3>1, <4>1, <4>3
        <5> QED BY <2>0, <5>1 DEF Covered
      <4> QED BY <4>2, <4>3
    <3> QED BY <1>0, <2>0, <2>5, <3>1 DEF Covers, FileKept
  <2>6. CASE Skipped(h)
    <3>1. /\ pc[h] = "track" /\ pc'[h] = "track" /\ FileKept(h) /\ work'[h].rows = work[h].rows
          /\ work'[h].at = work[h].at + 1 /\ req[h] \in IngestPost
      BY <1>0, <2>6 DEF Skipped, AtTrack, Session, InIngest
    <3>2. Covered(h, n)'
      <4>1. PICK t \in tracks : t.set = work[h].set /\ t.order = PlayOrder(Current(h))
        BY <1>0, <2>6 DEF Skipped, Skips, Covers
      <4> QED BY <1>at, <2>0, <3>1, <4>1 DEF Covered, Current, FileKept
    <3> QED BY <2>5, <3>1, <3>2 DEF InSet
  <2>7. CASE \E p : Links(h, p)
    <3>1. /\ pc[h] = "track" /\ pc'[h] = "track" /\ FileKept(h)
          /\ work'[h].rows = work[h].rows \cup {RowOf(h, work[h].at)}
          /\ work'[h].at = work[h].at + 1 /\ req[h] \in IngestPost
      BY <1>0, <2>7 DEF Links, AtTrack, Session, InIngest
    <3>2. Covered(h, n)'
      <4>1. /\ RowOf(h, n) \in work'[h].rows /\ RowOf(h, n).set = work'[h].set
            /\ RowOf(h, n).order = PlayOrder(req[h].tracks[n])
        BY <1>at, <3>1 DEF RowOf, FileKept
      <4> QED BY <2>0, <4>1 DEF Covered
    <3> QED BY <2>5, <3>1, <3>2 DEF InSet
  <2>8. CASE News(h)
    <3>1. /\ pc[h] = "track" /\ pc'[h] = "flush" /\ FileKept(h)
          /\ work[h].rows \subseteq work'[h].rows
          /\ work'[h].at = work[h].at /\ req[h] \in IngestPost
      BY <1>0, <2>8 DEF News, AtTrack, Session, InIngest
    <3> QED BY <2>5, <3>1 DEF InSet
  <2>9. CASE \E p : Updates(h, p)
    <3>1. FileKept(h) /\ RowsKept(h) /\ pc' = pc
      BY <2>9 DEF Updates
    <3> QED BY <1>0, <2>0, <3>1 DEF Covers, Covered, FileKept, RowsKept
  <2>10. CASE \E p, d : Inserts(h, p, d)
    <3>1. /\ pc[h] = "insert_catalog" /\ pc'[h] = "track" /\ FileKept(h)
          /\ work'[h].rows = work[h].rows /\ work'[h].at = work[h].at + 1
          /\ req[h] \in IngestPost
      BY <1>0, <2>10 DEF Inserts, Session, InIngest
    <3>2. Covered(h, n)'
      <4>1. RowOf(h, work[h].at) \in work[h].rows
        BY <1>0, <3>1 DEF HasSet, AtNew
      <4> QED BY <1>at, <2>0, <3>1, <4>1 DEF Covered, RowOf, FileKept
    <3> QED BY <2>5, <3>1, <3>2 DEF InSet
  <2>11. CASE \E p, d : Patches(h, p, d)
    <3>1. FileKept(h) /\ work[h] = NoWork /\ req[h] \notin IngestPost
      BY <1>0, <2>11 DEF Patches, Session, Before, CatalogPatch, IngestPost
    <3>2. work'[h].known = {}
      BY <3>1 DEF FileKept, NoWork
    <3> QED BY <2>0, <3>1, <3>2 DEF Covers
  <2> QED BY <1>4, <2>1, <2>2, <2>3, <2>4, <2>6, <2>7, <2>8, <2>9, <2>10, <2>11 DEF InSession
<1> QED BY <1>0, <1>2, <1>3, <1>4, StepCases

(* The commit of an ingest leaves its file complete.                       *)
LEMMA CommitCompletes ==
    ASSUME ICovers, IFiles', NEW h \in Handlers, Commit(h), req[h] \in IngestPost
    PROVE  Complete(h)'
<1>0. /\ IFiles /\ ISession /\ TypeOK /\ Session(h) /\ HasSet(h) /\ Covers(h)
      /\ work[h] \in Work /\ work[h].at \in Nat /\ StoredSets' /\ Moves(h)
  BY DEF ICovers, IFiles, ISession, TypeOK, Work, Moves, Step
<1>1. /\ pc[h] = "commit" /\ tracks' = tracks \cup work[h].rows /\ req' = req
      /\ sets' = IF work[h].created THEN sets \cup {h} ELSE sets
  BY DEF Commit
<1>2. work[h].set \in SetsOf(req[h].file)'
  <2>1. work[h].created \/ work[h].again
    BY <1>0, <1>1 DEF HasSet, InSet
  <2> QED BY <1>0, <1>1, <2>1 DEF HasSet, SetsOf
<1>3. SetsOf(req[h].file)' = {work[h].set}
  BY <1>0, <1>2 DEF StoredSets, SetsOf
<1>4. ASSUME NEW i \in DOMAIN req[h].tracks
      PROVE  \E t \in tracks' : t.set = work[h].set /\ t.order = PlayOrder(req[h].tracks[i])
  <2>1. i < work[h].at
    <3>1. work[h].at > Len(req[h].tracks) /\ req[h].tracks \in Seq(TrackIn)
      BY <1>0, <1>1 DEF Covers, IngestPost
    <3> QED BY <1>0, <3>1
  <2>2. Covered(h, i)
    BY <1>0, <1>1, <2>1 DEF Covers, InSet
  <2> QED BY <1>1, <2>2 DEF Covered
<1> QED BY <1>1, <1>2, <1>3, <1>4 DEF Complete, SetsOf

(* What is complete stays complete.                                        *)
LEMMA CompleteStays ==
    ASSUME ICovers, NEW h \in Handlers, Moves(h), NEW g \in Handlers, pc[g] = "done", Complete(g)
    PROVE  Complete(g)'
<1>0. IFiles /\ TypeOK /\ HasSet(h)
  BY DEF ICovers, IFiles, ISession
<1>1. req'[g] = req[g] /\ tracks \subseteq tracks'
  BY <1>0, EndedStay, SetsStay
<1>2. PICK s \in sets : /\ SetsOf(req[g].file) = {s}
                        /\ \A i \in DOMAIN req[g].tracks :
                              \E t \in tracks : t.set = s /\ t.order = PlayOrder(req[g].tracks[i])
  BY DEF Complete
<1>3. PICK f : f = req[g].file
  OBVIOUS
<1>4. SetsOf(f)' = {s}
  <2>1. SetsOf(f) = {s}
    BY <1>2, <1>3
  <2>2. work[h].created => SetsOf(req[h].file) = {}
    BY <1>0 DEF HasSet
  <2> QED BY <1>0, <2>1, <2>2, SetsStay
<1>5. SetsOf(req[g].file)' = {s}
  BY <1>1, <1>3, <1>4 DEF SetsOf
<1>6. s \in sets'
  BY <1>0, SetsStay
<1> QED BY <1>1, <1>2, <1>5, <1>6 DEF Complete

LEMMA ICoversStep == ICovers /\ [Next]_vars => ICovers'
<1> SUFFICES ASSUME ICovers, [Next]_vars PROVE ICovers'
  OBVIOUS
<1>0. IFiles'
  BY IFilesStep DEF ICovers
<1>1. ASSUME NEW h \in Handlers, Moves(h) PROVE ICovers'
  <2>0. IFiles /\ ISession /\ TypeOK /\ \A g \in Handlers : Covers(g) /\ Answers(g)
    BY DEF ICovers, IFiles, ISession
  <2>1. ASSUME NEW g \in Handlers \ {h} PROVE Covers(g)' /\ Answers(g)'
    <3>1. /\ req'[g] = req[g] /\ pc'[g] = pc[g] /\ work'[g] = work[g] /\ answer'[g] = answer[g]
          /\ tracks \subseteq tracks'
      BY <1>1, <2>0, OthersUntouched, SetsStay
    <3>2. Covers(g)'
      BY <2>0, <3>1 DEF Covers, Covered
    <3>3. Answers(g)'
      BY <1>1, <2>0, <3>1, CompleteStays DEF Answers
    <3> QED BY <3>2, <3>3
  <2>2. Answers(h)'
    <3>1. CASE Starts(h)
      BY <2>0, <3>1 DEF Starts, Answers
    <3>2. CASE Ended(h)
      BY <3>2 DEF Ended, Answers
    <3>3. CASE InSession(h)
      <4>1. pc[h] # "done" /\ answer' = answer
        BY <3>3 DEF InSession, Goes, Opens, Creates, Reads, Loads, Skipped, AtTrack, Links, News,
                    Updates, Inserts, Patches
      <4> QED BY <2>0, <4>1 DEF Answers
    <3>4. CASE Commit(h)
      <4>1. pc'[h] = "done" /\ req' = req
        BY <2>0, <3>4 DEF Commit, Goto, TypeOK
      <4> QED BY <1>0, <3>4, <4>1, CommitCompletes DEF Answers
    <3> QED BY <1>1, <2>0, <3>1, <3>2, <3>3, <3>4, StepCases
  <2> QED BY <1>0, <1>1, <2>1, <2>2, CoversMover DEF ICovers
<1>2. CASE UNCHANGED vars
  <2>1. \A g \in Handlers : Covers(g)' /\ Answers(g)'
    BY <1>2 DEF ICovers, vars, db, Covers, Covered, Answers, Complete, SetsOf
  <2> QED BY <1>0, <2>1 DEF ICovers
<1> QED BY <1>1, <1>2 DEF Next, Quiet, Moves

(* An ingest that answered 200 has dropped nothing, whatever the other     *)
(* requests in flight do: one set of its file, and a track of that set at  *)
(* every play order of the payload.                                        *)
THEOREM AnsweredIngests == Spec => []AnsweredIngestIsComplete
<1>1. Init => ICovers
  <2> SUFFICES ASSUME Init PROVE ICovers
    OBVIOUS
  <2>1. \A h \in Handlers : work[h] = NoWork /\ pc[h] = "idle" /\ answer[h] = "none"
    BY DEF Init
  <2>2. \A h \in Handlers : Covers(h) /\ Answers(h)
    BY <2>1 DEF Covers, Answers, NoWork, InSet
  <2> QED BY <2>2, IFilesInit DEF ICovers
<1>2. ICovers => AnsweredIngestIsComplete
  <2> SUFFICES ASSUME ICovers, NEW h \in Handlers, answer[h] = "200", req[h].kind = "ingest"
               PROVE  Complete(h)
    BY DEF AnsweredIngestIsComplete
  <2>1. pc[h] = "done" /\ Session(h) /\ Answers(h)
    BY DEF ICovers, IFiles, ISession, Answers
  <2>2. req[h] \in IngestPost
    BY <2>1, KindsOfRequests DEF Session
  <2> QED BY <2>1, <2>2 DEF Answers
<1> QED BY <1>1, <1>2, ICoversStep, PTL DEF Spec

-----------------------------------------------------------------------------
(***************************************************************************)
(* One request at a time: a session that opened a stored set knows every   *)
(* play order the set has, and adds rows at other play orders only.        *)
(***************************************************************************)
AfterRead == {"load_catalog", "track", "flush", "insert_catalog", "flush_all", "commit"}

OneAtATime == ~overlap => \A g, h \in InFlight : g = h
Knows(h) ==
    pc[h] \in AfterRead /\ work[h].again =>
        \A t \in tracks : t.set = work[h].set => t.order \in work[h].known
AddsNew(h) == work[h].again => \A t \in work[h].rows : t.order \notin work[h].known

ISerial ==
    /\ IFiles /\ OneAtATime
    /\ \A h \in Handlers : AddsNew(h)
    /\ ~overlap => \A h \in Handlers : Knows(h)
    /\ SerialReingestAddsNothingTwice

LEMMA OverlapStays ==
    ASSUME ISession, NEW h \in Handlers, Moves(h), ~overlap'
    PROVE  /\ ~overlap
           /\ pc[h] = "idle" => InFlight = {}
<1>1. CASE Starts(h)
  BY <1>1 DEF Starts
<1>2. CASE pc[h] # "idle" /\ overlap' = overlap
  BY <1>2
<1> QED BY <1>1, <1>2, StepCases
        DEF Commit, InSession, Goes, Opens, Creates, Reads, Loads, Skipped, AtTrack, Links, News,
            Updates, Inserts, Patches

LEMMA OneAtATimeStep ==
    ASSUME ISession, OneAtATime, NEW h \in Handlers, Moves(h)
    PROVE  OneAtATime' /\ (~overlap' => \A g \in Handlers \ {h} : pc[g] \in {"idle", "done"})
<1>0. TypeOK
  BY DEF ISession
<1>1. \A g \in Handlers \ {h} : pc'[g] = pc[g]
  BY <1>0, OthersUntouched
<1>2. ASSUME ~overlap' PROVE \A g \in Handlers \ {h} : pc[g] \in {"idle", "done"}
  <2>1. CASE pc[h] = "idle"
    BY <1>2, <2>1, OverlapStays DEF InFlight
  <2>2. CASE pc[h] # "idle"
    <3>1. pc[h] # "done"
      BY <1>0, EndedStay
    <3>2. h \in InFlight
      BY <2>2, <3>1 DEF InFlight
    <3> QED BY <1>2, <3>2, OverlapStays DEF OneAtATime, InFlight
  <2> QED BY <2>1, <2>2
<1> QED BY <1>1, <1>2 DEF OneAtATime, InFlight

LEMMA AddsNewMover ==
    ASSUME ISerial, NEW h \in Handlers, Moves(h)
    PROVE  AddsNew(h)' /\ (~overlap' => Knows(h)')
<1>0. /\ IFiles /\ ISession /\ TypeOK /\ Session(h) /\ HasSet(h) /\ AddsNew(h)
      /\ work[h] \in Work /\ (~overlap' => Knows(h))
  BY OverlapStays DEF ISerial, IFiles, ISession, TypeOK
<1>1. CASE work'[h] = NoWork
  BY <1>1 DEF AddsNew, Knows, NoWork
<1>2. CASE Starts(h)
  BY <1>0, <1>1, <1>2 DEF Starts, Session, Before
<1>3. CASE Ended(h) \/ Commit(h)
  BY <1>0, <1>1, <1>3 DEF Ended, Commit, TypeOK
<1>4. CASE InSession(h) /\ UNCHANGED db
  <2>0. tracks' = tracks
    BY <1>4 DEF db
  <2>1. CASE Goes(h) /\ pc[h] = "find_set"
    BY <1>0, <1>1, <2>1 DEF Goes, Session, Before
  <2>2. CASE Goes(h) /\ pc[h] # "find_set"
    <3>1. work'[h] = work[h] /\ pc[h] \in AfterRead
      BY <2>2 DEF Goes, AfterRead
    <3> QED BY <1>0, <2>0, <3>1 DEF AddsNew, Knows
  <2>3. CASE (\E s : Opens(h, s)) \/ Creates(h)
    <3>1. work'[h].rows = {} /\ (work'[h].again => pc'[h] = "read_orders")
      BY <2>3 DEF Opens, Creates, NoWork
    <3> QED BY <3>1 DEF AddsNew, Knows, AfterRead
  <2>4. CASE Reads(h)
    <3>1. PICK K : /\ work'[h] = [work[h] EXCEPT !.known = K]
                   /\ K = {t.order : t \in {u \in tracks : u.set = work[h].set}}
      BY <2>4 DEF Reads
    <3>2. work'[h].known = K /\ work'[h].set = work[h].set /\ work'[h].rows = {}
      BY <1>0, <2>4, <3>1 DEF Reads, Work, Session, Blank
    <3> QED BY <2>0, <3>1, <3>2 DEF AddsNew, Knows
  <2>5. CASE Loads(h)
    <3>1. PICK L : work'[h] = [work[h] EXCEPT !.loaded = L]
      BY <2>5 DEF Loads
    <3>2. FileKept(h) /\ work'[h].rows = work[h].rows /\ pc[h] \in AfterRead
      BY <1>0, <2>5, <3>1 DEF Loads, Work, FileKept, AfterRead
    <3> QED BY <1>0, <2>0, <3>2 DEF AddsNew, Knows, FileKept
  <2>6. CASE Skipped(h) \/ (\E p : Updates(h, p)) \/ (\E p, d : Inserts(h, p, d))
    <3>1. FileKept(h) /\ work'[h].rows = work[h].rows /\ pc[h] \in AfterRead
      BY <2>6 DEF Skipped, AtTrack, Updates, RowsKept, Inserts, AfterRead
    <3> QED BY <1>0, <2>0, <3>1 DEF AddsNew, Knows, FileKept
  <2>7. CASE News(h) \/ \E p : Links(h, p)
    <3>1. /\ FileKept(h) /\ pc[h] \in AfterRead
          /\ work'[h].rows = work[h].rows \cup {RowOf(h, work[h].at)}
          /\ work[h].again => PlayOrder(Current(h)) \notin work[h].known
      BY <2>7 DEF News, Links, AtTrack, AfterRead, Skips
    <3>2. RowOf(h, work[h].at).order = PlayOrder(Current(h))
      BY DEF RowOf, Current
    <3> QED BY <1>0, <2>0, <3>1, <3>2 DEF AddsNew, Knows, FileKept
  <2>8. CASE \E p, d : Patches(h, p, d)
    <3>1. FileKept(h) /\ work[h] = NoWork
      BY <1>0, <2>8 DEF Patches, Session, Before
    <3>2. ~work'[h].again
      BY <3>1 DEF FileKept, NoWork
    <3> QED BY <3>2 DEF AddsNew, Knows
  <2> QED BY <1>4, <2>1, <2>2, <2>3, <2>4, <2>5, <2>6, <2>7, <2>8 DEF InSession
<1> QED BY <1>0, <1>2, <1>3, <1>4, StepCases

LEMMA CommitAddsNothingTwice ==
    ASSUME ISerial, NEW h \in Handlers, Commit(h)
    PROVE  SerialReingestAddsNothingTwice'
<1>0. /\ IFiles /\ ISession /\ TypeOK /\ Session(h) /\ HasSet(h) /\ AddsNew(h) /\ StoredSets
      /\ (~overlap => Knows(h))
  BY DEF ISerial, IFiles, ISession
<1>1. /\ pc[h] = "commit" /\ tracks' = tracks \cup work[h].rows /\ overlap' = overlap
  BY DEF Commit
<1>2. SUFFICES ASSUME ~overlap, NEW t \in tracks', NEW u \in tracks',
                      t.set = u.set, t.order = u.order
               PROVE  t.by = u.by
  BY <1>1 DEF SerialReingestAddsNothingTwice
<1>3. \A v \in work[h].rows : v.by = h /\ v.set = work[h].set
  BY <1>0 DEF HasSet, RowOf
<1>4. ASSUME NEW v \in tracks, NEW w \in work[h].rows PROVE ~(v.set = w.set /\ v.order = w.order)
  <2>1. req[h] \in IngestPost
    BY <1>0, <1>1 DEF Session, Request
  <2>2. CASE work[h].created
    BY <1>0, <1>1, <1>3, <2>2 DEF HasSet, StoredSets
  <2>3. CASE work[h].again
    BY <1>0, <1>1, <1>2, <1>3, <2>3 DEF Knows, AddsNew, AfterRead
  <2> QED BY <1>0, <1>1, <2>1, <2>2, <2>3 DEF HasSet, InSet
<1> QED BY <1>1, <1>2, <1>3, <1>4 DEF ISerial, SerialReingestAddsNothingTwice

LEMMA ISerialStep == ISerial /\ [Next]_vars => ISerial'
<1> SUFFICES ASSUME ISerial, [Next]_vars PROVE ISerial'
  OBVIOUS
<1>0. IFiles' /\ IFiles /\ ISession /\ TypeOK
  BY IFilesStep DEF ISerial, IFiles, ISession
<1>1. ASSUME NEW h \in Handlers, Moves(h) PROVE ISerial'
  <2>1. OneAtATime' /\ (~overlap' => \A g \in Handlers \ {h} : pc[g] \in {"idle", "done"})
    BY <1>0, <1>1, OneAtATimeStep DEF ISerial
  <2>2. ASSUME NEW g \in Handlers \ {h} PROVE AddsNew(g)' /\ (~overlap' => Knows(g)')
    <3>1. pc'[g] = pc[g] /\ work'[g] = work[g]
      BY <1>0, <1>1, OthersUntouched
    <3> QED BY <2>1, <3>1 DEF ISerial, AddsNew, Knows, AfterRead
  <2>3. SerialReingestAddsNothingTwice'
    <3>1. CASE Commit(h)
      BY <3>1, CommitAddsNothingTwice
    <3>2. CASE ~Commit(h)
      <4>1. tracks' = tracks
        BY <1>0, <1>1, <3>2, SetsStay
      <4>2. ~overlap' => ~overlap
        BY <1>0, <1>1, OverlapStays
      <4> QED BY <4>1, <4>2 DEF ISerial, SerialReingestAddsNothingTwice
    <3> QED BY <3>1, <3>2
  <2> QED BY <1>0, <1>1, <2>1, <2>2, <2>3, AddsNewMover DEF ISerial
<1>2. CASE UNCHANGED vars
  BY <1>0, <1>2 DEF ISerial, vars, db, OneAtATime, InFlight, AddsNew, Knows,
                    SerialReingestAddsNothingTwice
<1> QED BY <1>1, <1>2 DEF Next, Quiet, Moves

LEMMA ISerialInvariant == Spec => []ISerial
<1>1. Init => ISerial
  <2> SUFFICES ASSUME Init PROVE ISerial
    OBVIOUS
  <2>1. \A h \in Handlers : work[h] = NoWork /\ pc[h] = "idle"
    BY DEF Init
  <2>2. \A h \in Handlers : AddsNew(h) /\ Knows(h)
    BY <2>1 DEF AddsNew, Knows, NoWork
  <2>3. OneAtATime /\ SerialReingestAddsNothingTwice
    BY <2>1 DEF Init, OneAtATime, InFlight, SerialReingestAddsNothingTwice
  <2> QED BY <2>2, <2>3, IFilesInit DEF ISerial
<1> QED BY <1>1, ISerialStep, PTL DEF Spec

(* As long as no two requests have been in flight together, ingesting a    *)
(* file again, after any number of ingests of it that failed or crashed,   *)
(* adds no track at a play order its set has.                              *)
THEOREM SerialReingest == Spec => []SerialReingestAddsNothingTwice
<1>1. ISerial => SerialReingestAddsNothingTwice
  BY DEF ISerial
<1> QED BY <1>1, ISerialInvariant, PTL

-----------------------------------------------------------------------------
(***************************************************************************)
(* The plays a session has counted are its rows behind the track it is at. *)
(* What it holds for an entry is the count it loaded, which others may     *)
(* have moved past, and these; and once it has counted a play, it writes   *)
(* the count back.                                                         *)
(***************************************************************************)
Counted(h, p) == {t \in work[h].rows : t.pair = p /\ t.at < work[h].at}

CountsAt(h, p) ==
    LET n == Cardinality(Counted(h, p))
        c == work[h].loaded[p]
    IN  /\ c = None => Counted(h, p) = {}
        /\ c # None /\ p \in work[h].inserted => c.plays = n /\ n >= 1
        /\ c # None /\ p \notin work[h].inserted =>
              c.plays \in 1..(Plays(p) + n) /\ (~overlap => c.plays = Plays(p) + n)
        /\ p \notin work[h].inserted /\ Counted(h, p) # {} =>
              "plays" \in work[h].changed[p] /\ p \in work[h].dirty \cup work[h].locked
        /\ p \in work[h].inserted /\ ~overlap => catalog[p] = None

StoreCounts(p) ==
    IF catalog[p] = None THEN Plays(p) = 0
    ELSE catalog[p].plays \in 1..Plays(p) /\ (~overlap => catalog[p].plays = Plays(p))

RowsFinite == IsFiniteSet(tracks) /\ \A h \in Handlers : IsFiniteSet(work[h].rows)

ICounts ==
    /\ ISerial /\ RowsFinite
    /\ \A h \in Handlers : pc[h] = "commit" => work[h].dirty = {}
    /\ \A h \in Handlers, p \in Pairs : CountsAt(h, p)
    /\ \A p \in Pairs : StoreCounts(p)

LEMMA CountsAreNumbers ==
    ASSUME RowsFinite, NEW p
    PROVE  /\ Plays(p) \in Nat
           /\ \A h \in Handlers : /\ IsFiniteSet(Counted(h, p))
                                  /\ Cardinality(Counted(h, p)) \in Nat
<1>1. {t \in tracks : t.pair = p} \subseteq tracks
  OBVIOUS
<1>2. Plays(p) \in Nat
  BY <1>1, FS_Subset, FS_CardinalityType DEF RowsFinite, Plays
<1>3. ASSUME NEW h \in Handlers
      PROVE  IsFiniteSet(Counted(h, p)) /\ Cardinality(Counted(h, p)) \in Nat
  <2>1. Counted(h, p) \subseteq work[h].rows
    BY DEF Counted
  <2> QED BY <2>1, FS_Subset, FS_CardinalityType DEF RowsFinite
<1> QED BY <1>2, <1>3

LEMMA PlaysGrow ==
    ASSUME RowsFinite', tracks \subseteq tracks', NEW p
    PROVE  Plays(p) <= Plays(p)'
<1>1. {t \in tracks : t.pair = p} \subseteq {t \in tracks' : t.pair = p}
  OBVIOUS
<1>2. {t \in tracks' : t.pair = p} \subseteq tracks'
  OBVIOUS
<1>3. IsFiniteSet({t \in tracks' : t.pair = p})
  BY <1>2, FS_Subset DEF RowsFinite
<1> QED BY <1>1, <1>3, FS_Subset DEF Plays

LEMMA RowsFiniteStep ==
    ASSUME ISerial, RowsFinite, NEW h \in Handlers, Moves(h)
    PROVE  RowsFinite'
<1>0. IFiles /\ ISession /\ TypeOK /\ Session(h) /\ work[h] \in Work
  BY DEF ISerial, IFiles, ISession, TypeOK
<1>1. IsFiniteSet(tracks')
  <2>1. CASE Commit(h)
    BY <2>1, FS_Union DEF Commit, RowsFinite
  <2>2. CASE ~Commit(h)
    BY <1>0, <2>2, SetsStay DEF RowsFinite
  <2> QED BY <2>1, <2>2
<1>2. \A g \in Handlers \ {h} : IsFiniteSet(work'[g].rows)
  BY <1>0, OthersUntouched DEF RowsFinite
<1>3. IsFiniteSet(work'[h].rows)
  <2>1. CASE work'[h] = NoWork
    BY <2>1, FS_EmptySet DEF NoWork
  <2>2. CASE Starts(h)
    BY <1>0, <2>1, <2>2 DEF Starts, Session, Before
  <2>3. CASE Ended(h) \/ Commit(h)
    BY <1>0, <2>1, <2>3 DEF Ended, Commit, TypeOK
  <2>4. CASE InSession(h)
    <3>1. CASE (\E s : Opens(h, s)) \/ Creates(h)
      <4>1. work'[h].rows = {}
        BY <3>1 DEF Opens, Creates, NoWork
      <4> QED BY <4>1, FS_EmptySet
    <3>2. CASE Reads(h)
      <4>1. PICK K : work'[h] = [work[h] EXCEPT !.known = K]
        BY <3>2 DEF Reads
      <4> QED BY <1>0, <4>1 DEF Work, RowsFinite
    <3>3. CASE Loads(h)
      <4>1. PICK L : work'[h] = [work[h] EXCEPT !.loaded = L]
        BY <3>3 DEF Loads
      <4> QED BY <1>0, <4>1 DEF Work, RowsFinite
    <3>4. CASE News(h) \/ \E p : Links(h, p)
      <4>1. work'[h].rows = work[h].rows \cup {RowOf(h, work[h].at)}
        BY <3>4 DEF News, Links
      <4> QED BY <4>1, FS_AddElement DEF RowsFinite
    <3>5. CASE Goes(h) \/ Skipped(h) \/ (\E p : Updates(h, p)) \/ (\E p, d : Inserts(h, p, d))
               \/ (\E p, d : Patches(h, p, d))
      <4>1. work'[h].rows = work[h].rows
        BY <3>5 DEF Goes, Skipped, Updates, Inserts, Patches, RowsKept
      <4> QED BY <4>1 DEF RowsFinite
    <3> QED BY <2>4, <3>1, <3>2, <3>3, <3>4, <3>5 DEF InSession
  <2> QED BY <1>0, <2>2, <2>3, <2>4, StepCases
<1> QED BY <1>1, <1>2, <1>3 DEF RowsFinite

(* A step of a session that leaves p alone.                                *)
LEMMA CountsKept ==
    ASSUME NEW h \in Handlers, NEW p \in Pairs, CountsAt(h, p), UNCHANGED <<db, overlap>>,
           Counted(h, p)' = Counted(h, p),
           work'[h].loaded[p] = work[h].loaded[p],
           work[h].changed[p] \subseteq work'[h].changed[p],
           p \in work[h].dirty \cup work[h].locked => p \in work'[h].dirty \cup work'[h].locked,
           p \in work'[h].inserted <=> p \in work[h].inserted
    PROVE  CountsAt(h, p)'
<1>1. Plays(p)' = Plays(p) /\ catalog' = catalog /\ overlap' = overlap
  BY DEF Plays, db
<1>2. Cardinality(Counted(h, p))' = Cardinality(Counted(h, p))
  OBVIOUS
<1> QED BY <1>1, <1>2 DEF CountsAt

(* A blank session has counted nothing.                                    *)
LEMMA BlankCounts ==
    ASSUME NEW h \in Handlers, NEW p \in Pairs, work'[h].rows = {},
           work'[h].loaded[p] = None, work'[h].inserted = {}
    PROVE  CountsAt(h, p)'
BY DEF CountsAt, Counted

(* A session that has counted nothing yet loads an entry as it is stored.  *)
LEMMA LoadCounts ==
    ASSUME TypeOK, RowsFinite, NEW h \in Handlers, NEW p \in Pairs, StoreCounts(p),
           UNCHANGED <<db, overlap>>, work'[h].rows = {}, work'[h].inserted = {},
           catalog[p] # None, work'[h].loaded[p].plays = catalog[p].plays,
           work'[h].loaded[p] # None
    PROVE  CountsAt(h, p)'
<1>1. Counted(h, p)' = {}
  BY DEF Counted
<1>2. Cardinality(Counted(h, p))' = 0
  BY <1>1, FS_EmptySet
<1>3. /\ Plays(p)' = Plays(p) /\ overlap' = overlap /\ Plays(p) \in Nat
      /\ catalog[p].plays \in 1..Plays(p)
      /\ ~overlap => catalog[p].plays = Plays(p)
  BY CountsAreNumbers DEF Plays, db, StoreCounts
<1>4. Plays(p) + 0 = Plays(p)
  BY <1>3
<1> QED BY <1>1, <1>2, <1>3, <1>4 DEF CountsAt

LEMMA CountsInSession ==
    ASSUME ICounts, NEW h \in Handlers, InSession(h), UNCHANGED <<db, overlap>>, NEW q \in Pairs
    PROVE  CountsAt(h, q)'
<1>0. /\ IFiles /\ ISession /\ TypeOK /\ Session(h) /\ HasSet(h) /\ work[h] \in Work
      /\ work[h].at \in Nat /\ CountsAt(h, q) /\ StoreCounts(q) /\ RowsFinite
      /\ work[h].rows \subseteq TrackRow
      /\ work[h].loaded \in [Pairs -> Entry \cup {None}]
      /\ work[h].changed \in [Pairs -> SUBSET Field]
  BY DEF ICounts, ISerial, IFiles, ISession, TypeOK, Work
<1>1. \A t \in work[h].rows : t.at \in Nat /\ t.at <= work[h].at /\ t = RowOf(h, t.at)
                              /\ (t.at = work[h].at => pc[h] \in AtNew)
  BY <1>0 DEF TrackRow, HasSet
<1>2. CASE Goes(h)
  <2>1. work'[h] = work[h]
    BY <1>2 DEF Goes
  <2> QED BY <1>0, <2>1, CountsKept DEF Counted
<1>3. CASE (\E s : Opens(h, s)) \/ Creates(h)
  <2>1. CASE Creates(h)
    <3>1. work'[h].loaded = NoWork.loaded /\ work'[h].rows = {} /\ work'[h].inserted = {}
      BY <2>1 DEF Creates, NoWork
    <3>2. NoWork.loaded = [p \in Pairs |-> None]
      BY DEF NoWork
    <3> QED BY <3>1, <3>2, BlankCounts
  <2>2. CASE \E s : Opens(h, s)
    <3>0. PICK s : Opens(h, s)
      BY <2>2
    <3>1. PICK W \in SUBSET Pairs :
             work'[h] = [NoWork EXCEPT !.set = s, !.again = TRUE, !.loaded = EntriesAt(W)]
      BY <3>0 DEF Opens
    <3>2. work'[h].loaded = EntriesAt(W) /\ work'[h].rows = {} /\ work'[h].inserted = {}
      BY <3>1 DEF NoWork
    <3>3. work'[h].loaded[q] \in {catalog[q], None}
      BY <3>2 DEF EntriesAt
    <3>4. CASE work'[h].loaded[q] = None
      BY <3>2, <3>4, BlankCounts
    <3>5. CASE work'[h].loaded[q] # None
      BY <1>0, <3>2, <3>3, <3>5, LoadCounts
    <3> QED BY <3>4, <3>5
  <2> QED BY <1>3, <2>1, <2>2
<1>4. CASE Reads(h)
  <2>1. PICK K : work'[h] = [work[h] EXCEPT !.known = K]
    BY <1>4 DEF Reads
  <2>2. WritesKept(h) /\ RowsKept(h)
    BY <1>0, <2>1 DEF WritesKept, RowsKept, Work
  <2> QED BY <1>0, <2>2, CountsKept DEF WritesKept, RowsKept, Counted
<1>5. CASE Loads(h)
  <2>1. PICK L \in [Pairs -> Entry \cup {None}] :
           /\ work'[h] = [work[h] EXCEPT !.loaded = L]
           /\ \A p \in Pairs : L[p] \in {work[h].loaded[p], catalog[p]}
           /\ \A p \in Pairs : work[h].loaded[p] # None => L[p] = work[h].loaded[p]
    BY <1>5 DEF Loads
  <2>2. /\ work'[h].loaded = L /\ work'[h].rows = {} /\ work'[h].inserted = {}
        /\ work'[h].changed = work[h].changed /\ work'[h].dirty = work[h].dirty
        /\ work'[h].locked = work[h].locked /\ work[h].rows = {} /\ work[h].inserted = {}
        /\ work'[h].at = work[h].at
    BY <1>0, <1>5, <2>1 DEF Work, Loads, Session, Blank
  <2>3. CASE work[h].loaded[q] # None
    <3>1. work'[h].loaded[q] = work[h].loaded[q] /\ Counted(h, q)' = Counted(h, q)
      BY <2>1, <2>2, <2>3 DEF Counted
    <3> QED BY <1>0, <2>2, <3>1, CountsKept
  <2>4. CASE work[h].loaded[q] = None /\ work'[h].loaded[q] = None
    BY <2>2, <2>4, BlankCounts
  <2>5. CASE work[h].loaded[q] = None /\ work'[h].loaded[q] # None
    <3>1. work'[h].loaded[q] = catalog[q]
      BY <2>1, <2>2, <2>5
    <3> QED BY <1>0, <2>2, <2>5, <3>1, LoadCounts
  <2> QED BY <2>3, <2>4, <2>5
<1>6. CASE Skipped(h)
  <2>1. /\ pc[h] \notin AtNew /\ WritesKept(h) /\ work'[h].rows = work[h].rows
        /\ work'[h].at = work[h].at + 1
    BY <1>6 DEF Skipped, AtTrack, AtNew
  <2>2. Counted(h, q)' = Counted(h, q)
    BY <1>0, <1>1, <2>1 DEF Counted
  <2> QED BY <1>0, <2>1, <2>2, CountsKept DEF WritesKept
<1>7. CASE News(h)
  <2>1. /\ WritesKept(h) /\ work'[h].rows = work[h].rows \cup {RowOf(h, work[h].at)}
        /\ work'[h].at = work[h].at
    BY <1>7 DEF News
  <2>2. RowOf(h, work[h].at).at = work[h].at
    BY DEF RowOf
  <2>3. Counted(h, q)' = Counted(h, q)
    BY <1>0, <1>1, <2>1, <2>2 DEF Counted
  <2> QED BY <1>0, <2>1, <2>3, CountsKept DEF WritesKept
<1>8. CASE \E p : Updates(h, p)
  <2>1. PICK p : Updates(h, p)
    BY <1>8
  <2>2. Counted(h, q)' = Counted(h, q)
    BY <2>1 DEF Updates, RowsKept, Counted
  <2>3. work'[h].dirty \cup work'[h].locked = work[h].dirty \cup work[h].locked
    BY <2>1 DEF Updates
  <2>4. /\ work'[h].loaded = work[h].loaded /\ work'[h].changed = work[h].changed
        /\ work'[h].inserted = work[h].inserted
    BY <2>1 DEF Updates
  <2> QED BY <1>0, <2>2, <2>3, <2>4, CountsKept
<1>9. CASE \E p : Links(h, p)
  <2>1. PICK p : Links(h, p)
    BY <1>9
  <2>2. PICK d \in Entry :
          /\ d = Played(work[h].loaded[p], Current(h))
          /\ work[h].loaded[p] \in Entry /\ d.plays = work[h].loaded[p].plays + 1
          /\ work'[h].loaded = [work[h].loaded EXCEPT ![p] = d]
          /\ work'[h].changed = [work[h].changed EXCEPT ![p] =
                                    work[h].changed[p] \cup Differing(work[h].loaded[p], d)]
          /\ work'[h].dirty = work[h].dirty \cup {p}
          /\ work'[h].locked = work[h].locked /\ work'[h].inserted = work[h].inserted
    BY <2>1 DEF Links
  <2>3. PICK r : /\ r.at = work[h].at /\ r.pair = p
                 /\ work'[h].rows = work[h].rows \cup {r} /\ work'[h].at = work[h].at + 1
                 /\ pc[h] \notin AtNew /\ p \in Pairs
    <3>1. /\ work'[h].rows = work[h].rows \cup {RowOf(h, work[h].at)}
          /\ work'[h].at = work[h].at + 1 /\ p = Current(h).pair
          /\ pc[h] \notin AtNew /\ p \in Pairs
      BY <2>1 DEF Links, AtTrack, AtNew
    <3>2. RowOf(h, work[h].at).at = work[h].at /\ RowOf(h, work[h].at).pair = Current(h).pair
      BY DEF RowOf, Current
    <3> QED BY <3>1, <3>2
  <2>4. /\ q # p => Counted(h, q)' = Counted(h, q)
        /\ q = p => Counted(h, q)' = Counted(h, q) \cup {r}
        /\ r \notin Counted(h, q)
    BY <1>0, <1>1, <2>3 DEF Counted
  <2>5. CASE q # p
    <3>1. work'[h].loaded[q] = work[h].loaded[q] /\ work'[h].changed[q] = work[h].changed[q]
      BY <1>0, <2>2, <2>5
    <3> QED BY <1>0, <2>2, <2>4, <2>5, <3>1, CountsKept
  <2>6. CASE q = p
    <3>1. PICK n \in Nat : n = Cardinality(Counted(h, q))
      BY <1>0, CountsAreNumbers
    <3>2. Cardinality(Counted(h, q))' = n + 1
      BY <1>0, <2>4, <2>6, <3>1, FS_AddElement, CountsAreNumbers
    <3>3. /\ Plays(q)' = Plays(q) /\ Plays(q) \in Nat /\ overlap' = overlap /\ catalog' = catalog
      BY <1>0, CountsAreNumbers DEF Plays, db
    <3>4. work'[h].loaded[q] = d /\ d # None /\ work[h].loaded[q] # None
      BY <1>0, <2>2, <2>6, EntryFields
    <3>5. "plays" \in work'[h].changed[q] /\ q \in work'[h].dirty
      <4>1. work[h].loaded[q].plays \in Nat /\ d.plays # work[h].loaded[q].plays
        BY <2>2, <2>6, EntryFields
      <4>2. "plays" \in Differing(work[h].loaded[q], d)
        BY <2>2, <2>6, <4>1, DifferingType
      <4> QED BY <1>0, <2>2, <2>6, <4>2
    <3>6. PICK c \in Nat : c = work[h].loaded[q].plays /\ d.plays = c + 1
      BY <2>2, <2>6, EntryFields
    <3>7. /\ q \in work[h].inserted => c = n
          /\ q \notin work[h].inserted =>
                c \in 1..(Plays(q) + n) /\ (~overlap => c = Plays(q) + n)
          /\ q \in work[h].inserted /\ ~overlap => catalog[q] = None
      BY <1>0, <3>1, <3>4, <3>6 DEF CountsAt
    <3>8. /\ q \in work[h].inserted => d.plays = n + 1 /\ n + 1 >= 1
          /\ q \notin work[h].inserted =>
                d.plays \in 1..(Plays(q) + (n + 1)) /\ (~overlap => d.plays = Plays(q) + (n + 1))
      BY <3>3, <3>6, <3>7
    <3> QED BY <2>2, <3>2, <3>3, <3>4, <3>5, <3>7, <3>8 DEF CountsAt
  <2> QED BY <2>5, <2>6
<1>10. CASE \E p, d : Inserts(h, p, d)
  <2>1. PICK p, d : Inserts(h, p, d)
    BY <1>10
  <2>2. PICK r : r = RowOf(h, work[h].at) /\ r \in work[h].rows /\ r.at = work[h].at /\ r.pair = p
    <3>1. RowOf(h, work[h].at) \in work[h].rows /\ p = Current(h).pair
      BY <1>0, <2>1 DEF Inserts, HasSet, AtNew
    <3>2. RowOf(h, work[h].at).at = work[h].at /\ RowOf(h, work[h].at).pair = Current(h).pair
      BY DEF RowOf, Current
    <3> QED BY <3>1, <3>2
  <2>3. /\ work'[h].rows = work[h].rows /\ work'[h].at = work[h].at + 1
        /\ work'[h].loaded = [work[h].loaded EXCEPT ![p] = d] /\ work[h].loaded[p] = None
        /\ d \in Entry /\ d.plays = 1 /\ catalog[p] = None /\ p \in Pairs
        /\ work'[h].inserted = work[h].inserted \cup {p}
        /\ work[h].dirty \subseteq work'[h].dirty /\ work'[h].locked = work[h].locked
        /\ work'[h].changed = work[h].changed
    BY <2>1 DEF Inserts
  <2>4. \A t \in work[h].rows : t.at = work[h].at => t = r
    BY <1>1, <2>2
  <2>5. CASE q # p
    <3>1. Counted(h, q)' = Counted(h, q)
      BY <1>0, <1>1, <2>2, <2>3, <2>4, <2>5 DEF Counted
    <3>2. work'[h].loaded[q] = work[h].loaded[q]
      BY <1>0, <2>3, <2>5
    <3> QED BY <1>0, <2>3, <2>5, <3>1, <3>2, CountsKept
  <2>6. CASE q = p
    <3>1. Counted(h, q) = {}
      BY <1>0, <2>3, <2>6 DEF CountsAt
    <3>2. Counted(h, q)' = {r}
      <4>1. r \in Counted(h, q)'
        BY <1>0, <2>2, <2>3, <2>6 DEF Counted
      <4>2. \A t \in Counted(h, q)' : t = r
        <5> SUFFICES ASSUME NEW t \in work[h].rows, t.pair = q, t.at < work[h].at + 1
                     PROVE  t = r
          BY <2>3 DEF Counted
        <5>1. t.at < work[h].at \/ t.at = work[h].at
          BY <1>0, <1>1
        <5> QED BY <2>4, <3>1, <5>1 DEF Counted
      <4> QED BY <4>1, <4>2
    <3>3. Cardinality(Counted(h, q))' = 1
      BY <3>2, FS_Singleton
    <3>4. work'[h].loaded[q] = d /\ d # None /\ q \in work'[h].inserted /\ catalog'[q] = None
      BY <1>0, <2>3, <2>6, EntryFields DEF db
    <3> QED BY <2>3, <3>3, <3>4 DEF CountsAt
  <2> QED BY <2>5, <2>6
<1>11. CASE \E p, d : Patches(h, p, d)
  <2>1. PICK p, d : Patches(h, p, d)
    BY <1>11
  <2>2. work[h] = NoWork
    BY <1>0, <2>1 DEF Patches, Session, Before
  <2>3. work'[h].rows = {} /\ work'[h].inserted = {}
    BY <2>1, <2>2 DEF Patches, RowsKept, NoWork
  <2>4. CASE q # p
    <3>1. work'[h].loaded[q] = None
      BY <1>0, <2>1, <2>2, <2>4 DEF Patches, NoWork
    <3> QED BY <2>3, <3>1, BlankCounts
  <2>5. CASE q = p
    <3>1. work'[h].loaded[q] = d /\ d # None /\ d.plays = catalog[q].plays /\ catalog[q] # None
      BY <1>0, <2>1, <2>5, EntryFields DEF Patches
    <3> QED BY <1>0, <2>3, <3>1, LoadCounts
  <2> QED BY <2>4, <2>5
<1> QED BY <1>2, <1>3, <1>4, <1>5, <1>6, <1>7, <1>8, <1>9, <1>10, <1>11 DEF InSession

(* The commit of a session turns the plays it counted into tracks.         *)
LEMMA CommitCounts ==
    ASSUME ICounts, RowsFinite', NEW h \in Handlers, Commit(h), NEW p \in Pairs
    PROVE  StoreCounts(p)'
<1>0. /\ IFiles /\ ISession /\ TypeOK /\ Session(h) /\ HasSet(h) /\ work[h] \in Work
      /\ work[h].at \in Nat /\ CountsAt(h, p) /\ StoreCounts(p) /\ RowsFinite /\ StoredSets
      /\ work[h].loaded \in [Pairs -> Entry \cup {None}] /\ catalog[p] \in Entry \cup {None}
  BY DEF ICounts, ISerial, IFiles, ISession, TypeOK, Work
<1>1. /\ pc[h] = "commit" /\ tracks' = tracks \cup work[h].rows /\ overlap' = overlap
      /\ catalog'[p] = Stored(h, p) /\ work[h].dirty = {}
  BY DEF Commit, ICounts
<1>2. PICK n \in Nat : n = Cardinality(Counted(h, p))
  BY <1>0, CountsAreNumbers
<1>3. Plays(p)' = Plays(p) + n
  <2>1. PICK A : A = {t \in tracks : t.pair = p} /\ IsFiniteSet(A) /\ Cardinality(A) = Plays(p)
    <3>1. {t \in tracks : t.pair = p} \subseteq tracks
      OBVIOUS
    <3> QED BY <1>0, <3>1, FS_Subset DEF RowsFinite, Plays
  <2>2. PICK B : B = Counted(h, p) /\ IsFiniteSet(B) /\ Cardinality(B) = n
    BY <1>0, <1>2, CountsAreNumbers
  <2>3. B = {t \in work[h].rows : t.pair = p}
    <3>1. \A t \in work[h].rows : t.at \in Nat /\ t.at <= work[h].at /\ t.at # work[h].at
      BY <1>0, <1>1 DEF HasSet, AtNew, Work, TrackRow
    <3>2. \A t \in work[h].rows : t.at < work[h].at
      BY <1>0, <3>1
    <3> QED BY <2>2, <3>2 DEF Counted
  <2>4. {t \in tracks' : t.pair = p} = A \cup B
    BY <1>1, <2>1, <2>3
  <2>5. A \cap B = {}
    <3>1. \A t \in work[h].rows : t.by = h
      BY <1>0 DEF HasSet, RowOf
    <3>2. \A t \in tracks : t.by # h
      BY <1>0, <1>1 DEF StoredSets
    <3> QED BY <2>1, <2>3, <3>1, <3>2
  <2>6. Cardinality(A \cup B) = Cardinality(A) + Cardinality(B) - 0
    <3>1. Cardinality(A \cup B) = Cardinality(A) + Cardinality(B) - Cardinality(A \cap B)
      BY <2>1, <2>2, FS_Union
    <3>2. Cardinality(A \cap B) = 0
      BY <2>5, FS_EmptySet
    <3> QED BY <3>1, <3>2
  <2>7. Plays(p)' = Cardinality(A \cup B)
    BY <2>4 DEF Plays
  <2> QED BY <1>0, <1>2, <2>1, <2>2, <2>6, <2>7, CountsAreNumbers
<1>4. Plays(p) \in Nat
  BY <1>0, CountsAreNumbers
<1>5. n = 0 <=> Counted(h, p) = {}
  BY <1>0, <1>2, CountsAreNumbers, FS_EmptySet
<1>6. CASE p \in work[h].inserted
  <2>1. Stored(h, p) = work[h].loaded[p] /\ work[h].loaded[p] # None
    BY <1>0, <1>6, StoredEntry DEF Session
  <2>2. /\ work[h].loaded[p].plays = n /\ n >= 1
        /\ ~overlap => catalog[p] = None
    BY <1>0, <1>2, <1>6, <2>1 DEF CountsAt
  <2>3. ~overlap => Plays(p) = 0
    BY <1>0, <2>2 DEF StoreCounts
  <2> QED BY <1>1, <1>2, <1>3, <1>4, <2>1, <2>2, <2>3 DEF StoreCounts
<1>7. CASE p \notin work[h].inserted /\ catalog[p] = None
  <2>1. Stored(h, p) = None /\ work[h].loaded[p] = None
    BY <1>0, <1>7, StoredEntry DEF Session
  <2>2. n = 0 /\ Plays(p) = 0
    BY <1>0, <1>5, <1>7, <2>1 DEF CountsAt, StoreCounts
  <2> QED BY <1>1, <1>3, <2>1, <2>2 DEF StoreCounts
<1>8. CASE p \notin work[h].inserted /\ catalog[p] # None
  <2>1. /\ Stored(h, p) \in Entry /\ Stored(h, p) # None
        /\ Stored(h, p).plays = IF p \in work[h].locked /\ "plays" \in work[h].changed[p]
                                THEN work[h].loaded[p].plays ELSE catalog[p].plays
    BY <1>0, <1>8, StoredEntry, EntryFields
  <2>2. PICK c \in Nat : /\ c = catalog[p].plays /\ c \in 1..Plays(p)
                         /\ ~overlap => c = Plays(p)
    BY <1>0, <1>8, EntryFields DEF StoreCounts
  <2>3. CASE p \in work[h].locked /\ "plays" \in work[h].changed[p]
    <3>1. work[h].loaded[p] # None
      BY <1>0, <2>3 DEF Session
    <3>2. PICK d \in Nat : /\ d = work[h].loaded[p].plays /\ d \in 1..(Plays(p) + n)
                           /\ ~overlap => d = Plays(p) + n
      BY <1>0, <1>2, <1>8, <3>1, EntryFields DEF CountsAt
    <3>3. catalog'[p] # None /\ catalog'[p].plays = d
      BY <1>1, <2>1, <2>3, <3>2
    <3> QED BY <1>1, <1>3, <3>2, <3>3 DEF StoreCounts
  <2>4. CASE ~(p \in work[h].locked /\ "plays" \in work[h].changed[p])
    <3>1. n = 0
      BY <1>0, <1>1, <1>5, <1>8, <2>4 DEF CountsAt
    <3>2. catalog'[p] # None /\ catalog'[p].plays = c
      BY <1>1, <2>1, <2>2, <2>4
    <3>3. Plays(p)' = Plays(p)
      BY <1>3, <1>4, <3>1
    <3> QED BY <1>1, <2>2, <3>2, <3>3 DEF StoreCounts
  <2> QED BY <2>3, <2>4
<1> QED BY <1>6, <1>7, <1>8

(* The count a session holds stays one it may write, whatever the others   *)
(* commit.                                                                 *)
LEMMA CountsOthers ==
    ASSUME ICounts, RowsFinite', NEW h \in Handlers, Moves(h), NEW g \in Handlers \ {h},
           NEW p \in Pairs
    PROVE  CountsAt(g, p)'
<1>0. /\ IFiles /\ ISession /\ TypeOK /\ Session(g) /\ CountsAt(g, p) /\ RowsFinite
      /\ OneAtATime
  BY DEF ICounts, ISerial, IFiles, ISession
<1>1. work'[g] = work[g] /\ tracks \subseteq tracks'
  BY <1>0, OthersUntouched, SetsStay
<1>2. Counted(g, p)' = Counted(g, p)
  BY <1>1 DEF Counted
<1>3. PICK n \in Nat : n = Cardinality(Counted(g, p))
  BY <1>0, CountsAreNumbers
<1>4. Cardinality(Counted(g, p))' = n
  BY <1>2, <1>3
<1>5. Plays(p) \in Nat /\ Plays(p)' \in Nat /\ Plays(p) <= Plays(p)'
  <2>1. Plays(p)' \in Nat
    <3>1. RowsFinite => Plays(p) \in Nat
      BY CountsAreNumbers
    <3>2. {t \in tracks' : t.pair = p} \subseteq tracks'
      OBVIOUS
    <3> QED BY <3>2, FS_Subset, FS_CardinalityType DEF RowsFinite, Plays
  <2> QED BY <1>0, <1>1, <2>1, CountsAreNumbers, PlaysGrow
<1>6. CASE ~overlap'
  <2>1. pc[g] \in {"idle", "done"}
    BY <1>0, <1>6, OneAtATimeStep
  <2>2. work[g] = NoWork
    BY <1>0, <2>1 DEF Session, Before
  <2> QED BY <1>1, <2>2, BlankCounts DEF NoWork
<1>7. CASE overlap'
  <2>1. \A c : c \in 1..(Plays(p) + n) => c \in 1..(Plays(p)' + n)
    BY <1>5
  <2> QED BY <1>0, <1>1, <1>2, <1>3, <1>4, <1>7, <2>1 DEF CountsAt
<1> QED BY <1>6, <1>7

LEMMA ICountsStep == ICounts /\ [Next]_vars => ICounts'
<1> SUFFICES ASSUME ICounts, [Next]_vars PROVE ICounts'
  OBVIOUS
<1>0. /\ ISerial' /\ IFiles /\ ISession /\ TypeOK /\ RowsFinite
  BY ISerialStep DEF ICounts, ISerial, IFiles, ISession
<1>1. ASSUME NEW h \in Handlers, Moves(h) PROVE ICounts'
  <2>1. RowsFinite'
    BY <1>1, RowsFiniteStep DEF ICounts
  <2>2. \A g \in Handlers \ {h} : /\ pc'[g] = "commit" => work'[g].dirty = {}
                                 /\ \A p \in Pairs : CountsAt(g, p)'
    BY <1>0, <1>1, <2>1, OthersUntouched, CountsOthers DEF ICounts
  <2>3. Session(h)
    BY <1>0 DEF ISession
  <2>4. CASE Starts(h) /\ UNCHANGED db
    <3>1. work'[h] = NoWork /\ pc'[h] # "commit"
      <4>1. PICK r \in Request : pc'[h] = IF r.kind = "patch" THEN "load_entry" ELSE "find_set"
        BY <2>4 DEF Starts
      <4> QED BY <2>3, <2>4, <4>1 DEF Starts, Session, Before
    <3>2. \A p \in Pairs : CountsAt(h, p)'
      BY <3>1, BlankCounts DEF NoWork
    <3>3. overlap' = overlap \/ overlap'
      BY <1>0, <2>4 DEF Starts, TypeOK
    <3>4. \A p \in Pairs : StoreCounts(p)'
      BY <2>4, <3>3 DEF ICounts, StoreCounts, Plays, db, Starts
    <3> QED BY <1>0, <2>1, <2>2, <3>1, <3>2, <3>4 DEF ICounts
  <2>5. CASE Ended(h) /\ UNCHANGED <<db, overlap>>
    <3>1. work'[h] = NoWork /\ pc'[h] # "commit"
      BY <2>5 DEF Ended
    <3>2. \A p \in Pairs : CountsAt(h, p)'
      BY <3>1, BlankCounts DEF NoWork
    <3>3. \A p \in Pairs : StoreCounts(p)'
      BY <2>5 DEF ICounts, StoreCounts, Plays, db
    <3> QED BY <1>0, <2>1, <2>2, <3>1, <3>2, <3>3 DEF ICounts
  <2>6. CASE InSession(h) /\ UNCHANGED <<db, overlap>>
    <3>1. \A p \in Pairs : CountsAt(h, p)'
      BY <2>6, CountsInSession
    <3>2. \A p \in Pairs : StoreCounts(p)'
      BY <2>6 DEF ICounts, StoreCounts, Plays, db
    <3>3. pc'[h] = "commit" => work'[h].dirty = {}
      BY <2>6 DEF InSession, Goes, Opens, Creates, Reads, Loads, Skipped, AtTrack, Links, News,
                  Updates, Inserts, Patches
    <3> QED BY <1>0, <2>1, <2>2, <3>1, <3>2, <3>3 DEF ICounts
  <2>7. CASE Commit(h)
    <3>1. work'[h] = NoWork /\ pc'[h] # "commit"
      BY <1>0, <2>7 DEF Commit, Goto, TypeOK
    <3>2. \A p \in Pairs : CountsAt(h, p)'
      BY <3>1, BlankCounts DEF NoWork
    <3>3. \A p \in Pairs : StoreCounts(p)'
      BY <2>1, <2>7, CommitCounts
    <3> QED BY <1>0, <2>1, <2>2, <3>1, <3>2, <3>3 DEF ICounts
  <2> QED BY <1>0, <1>1, <2>4, <2>5, <2>6, <2>7, StepCases
<1>2. CASE UNCHANGED vars
  <2>1. \A p \in Pairs : StoreCounts(p)'
    BY <1>2 DEF ICounts, vars, db, StoreCounts, Plays
  <2>2. ASSUME NEW h \in Handlers, NEW p \in Pairs PROVE CountsAt(h, p)'
    <3>1. UNCHANGED <<db, overlap>> /\ work' = work /\ CountsAt(h, p)
      BY <1>2 DEF vars, ICounts
    <3> QED BY <3>1, CountsKept DEF Counted
  <2>3. RowsFinite' /\ \A h \in Handlers : pc'[h] = "commit" => work'[h].dirty = {}
    BY <1>2 DEF ICounts, vars, db, RowsFinite
  <2> QED BY <1>0, <2>1, <2>2, <2>3 DEF ICounts
<1> QED BY <1>1, <1>2 DEF Next, Quiet, Moves

(* A play_count is never more than the tracks linked to the entry nor,     *)
(* where there are any, less than one, however ingests and patches of the  *)
(* same entries interleave, fail and deadlock; with one request at a time  *)
(* it is their number.                                                     *)
THEOREM PlayCounts == Spec => []PlayCountAccounted
<1>1. Init => ICounts
  <2> SUFFICES ASSUME Init PROVE ICounts
    OBVIOUS
  <2>1. \A h \in Handlers : work[h] = NoWork /\ pc[h] = "idle"
    BY DEF Init
  <2>2. RowsFinite
    BY <2>1, FS_EmptySet DEF Init, RowsFinite, NoWork
  <2>3. \A h \in Handlers, p \in Pairs : CountsAt(h, p)
    BY <2>1 DEF CountsAt, Counted, NoWork
  <2>4. \A p \in Pairs : StoreCounts(p)
    <3>1. \A p : {t \in tracks : t.pair = p} = {}
      BY DEF Init
    <3> QED BY <3>1, FS_EmptySet DEF Init, StoreCounts, Plays
  <2>5. ISerial
    BY <2>1, IFilesInit
       DEF Init, ISerial, AddsNew, Knows, NoWork, OneAtATime, InFlight,
           SerialReingestAddsNothingTwice
  <2> QED BY <2>1, <2>2, <2>3, <2>4, <2>5 DEF ICounts
<1>2. ICounts => PlayCountAccounted
  <2> SUFFICES ASSUME ICounts PROVE PlayCountAccounted
    OBVIOUS
  <2>1. \A p \in Pairs : StoreCounts(p)
    BY DEF ICounts
  <2> QED BY <2>1 DEF StoreCounts, PlayCountAccounted, PlayCountIsPlays
<1> QED BY <1>1, <1>2, ICountsStep, PTL DEF Spec
=============================================================================
