----------------------------- MODULE SetIngest -----------------------------
(***************************************************************************)
(* POST /v1/ingest and PATCH /v1/catalog/{id}: a DJ set becomes a set row  *)
(* and its track rows, and every track is reconciled with the catalog      *)
(* entry of its (title, artist).                                           *)
(*                                                                         *)
(* One handler serves one request in one transaction (Postgres, READ       *)
(* COMMITTED).  Catalog rows are loaded once, changed in memory by the     *)
(* session, and written back by a flush as absolute values of the columns  *)
(* that changed: whatever another request committed to those columns in    *)
(* the meantime is overwritten.                                            *)
(*                                                                         *)
(* Keys of files and of catalog entries include the owner: requests of     *)
(* different owners share no row.  release_year is filled like genre and   *)
(* decides nothing; it, the dates and the texts are left out.              *)
(* Op_Fault is Op with a plausible bug; no action uses it.                 *)
(***************************************************************************)
EXTENDS Integers, Sequences, FiniteSets

CONSTANTS
    Handlers,      \* the requests served, one handler each
    Workload,      \* Workload[h]: the requests h may turn out to serve
    MaxInFlight,   \* bound: how many requests are in flight at once
    Files,         \* source_file values
    NoFile,        \* the empty source_file
    Pairs,         \* catalog keys, numbered in primary key order
    Orders,        \* play_order values a payload may have
    Genres,
    Bpms,
    None           \* a column or field that is null

TrackIn == [pair : Pairs, order : Orders \cup {None},
            genre : Genres \cup {None}, bpm : Bpms \cup {None}]
IngestPost == [kind : {"ingest"}, file : Files \cup {NoFile}, tracks : Seq(TrackIn)]
CatalogPatch == [kind : {"patch"}, pair : Pairs,
                 genre : Genres \cup {None}, bpm : Bpms \cup {None}]
Request == IngestPost \cup CatalogPatch

ASSUME ConstantsAssumption ==
    /\ Workload \in [Handlers -> SUBSET Request]
    /\ MaxInFlight \in Nat
    /\ Pairs \subseteq Nat
    /\ Orders \subseteq Nat
    /\ Bpms \subseteq Nat
    /\ None \notin Handlers \cup Pairs \cup Orders \cup Genres \cup Bpms \cup Request
    /\ NoFile \notin Files

VARIABLES
    sets,       \* the set rows, each named by the handler that inserted it
    tracks,     \* the track rows
    catalog,    \* the catalog entry of each pair, or None
    req,        \* the request a handler serves
    pc,         \* the statement a handler is at
    answer,     \* the HTTP status, or how the request ended
    work,       \* its session: what it loaded, changed, and holds
    overlap     \* history: two requests have been in flight together

db == <<sets, tracks, catalog>>
vars == <<db, req, pc, answer, work, overlap>>

Low == 1
Medium == 2
High == 3

Entry == [genre : Genres \cup {None}, bpm : Bpms \cup {None},
          source : {"play_history", "manual"}, confidence : Low..High, plays : Nat]
TrackRow == [set : Handlers, order : Nat, pair : Pairs, by : Handlers, at : Nat]

(* The catalog has no row: not one more value of an entry.                 *)
ASSUME NoneAssumption == None \notin Entry

NoWork == [set |-> None, created |-> FALSE, again |-> FALSE, known |-> {}, at |-> 1,
           rows |-> {}, loaded |-> [p \in Pairs |-> None],
           changed |-> [p \in Pairs |-> {}], dirty |-> {}, locked |-> {}, inserted |-> {}]

Init ==
    /\ sets = {}
    /\ tracks = {}
    /\ catalog = [p \in Pairs |-> None]
    /\ req = [h \in Handlers |-> None]
    /\ pc = [h \in Handlers |-> "idle"]
    /\ answer = [h \in Handlers |-> "none"]
    /\ work = [h \in Handlers |-> NoWork]
    /\ overlap = FALSE

-----------------------------------------------------------------------------
Others(h) == Handlers \ {h}
InFlight == {h \in Handlers : pc[h] \notin {"idle", "done"}}
Goto(h, label) == pc' = [pc EXCEPT ![h] = label]

SetsOf(f) == {s \in sets : req[s].file = f}
Current(h) == req[h].tracks[work[h].at]
PlayOrder(t) == IF t.order = None THEN 0 ELSE t.order

(* A flush sends the UPDATEs in primary key order, before the INSERT.      *)
NextDirty(h) == CHOOSE p \in work[h].dirty : \A q \in work[h].dirty : p <= q

(* The handlers whose transactions hold the key or row h needs next.       *)
BlockedBy(h) ==
    LET holds(g) ==
          CASE pc[h] = "insert_set" ->
                 work[g].created /\ req[g].file = req[h].file
            [] pc[h] \in {"flush", "flush_all"} /\ work[h].dirty # {} ->
                 NextDirty(h) \in work[g].locked
            [] pc[h] = "insert_catalog" -> Current(h).pair \in work[g].inserted
            [] OTHER -> FALSE
    IN  {g \in Others(h) : holds(g)}

WaitsWithin(S) == S # {} /\ \A h \in S : BlockedBy(h) \cap S # {}

(* h is on a cycle of transactions that wait for each other.               *)
Deadlocked(h) ==
    BlockedBy(h) # {} /\ \E S \in SUBSET Handlers :
        /\ h \in S
        /\ WaitsWithin(S)
        /\ \A R \in SUBSET S : WaitsWithin(R) => R = S

EndWith_KeepsLocks(h, code) ==
    /\ Goto(h, "done")
    /\ answer' = [answer EXCEPT ![h] = code]
    /\ UNCHANGED <<db, req, work, overlap>>

(* The handler ends without committing: its session is rolled back.        *)
EndWith(h, code) ==
    /\ Goto(h, "done")
    /\ answer' = [answer EXCEPT ![h] = code]
    /\ work' = [work EXCEPT ![h] = NoWork]
    /\ UNCHANGED <<db, req, overlap>>

Begin(h) ==
    /\ pc[h] = "idle"
    /\ Cardinality(InFlight) < MaxInFlight
    /\ \E r \in Workload[h] :
          /\ req' = [req EXCEPT ![h] = r]
          /\ Goto(h, IF r.kind = "patch" THEN "load_entry" ELSE "find_set")
    /\ overlap' = (overlap \/ InFlight # {})
    /\ UNCHANGED <<db, answer, work>>

-----------------------------------------------------------------------------
(* ingest_set.                                                             *)

(* flags.deejay_api.ingest_enabled may be off.                             *)
Disabled(h) ==
    /\ pc[h] = "find_set"
    /\ EndWith(h, "503")

(* The set is loaded with its tracks and their catalog entries.  The       *)
(* session keeps those as it read them, also when the select of the        *)
(* payload's entries finds them again.                                     *)
Wanted(h) == {req[h].tracks[i].pair : i \in DOMAIN req[h].tracks}
EntriesOf(s) == {t.pair : t \in {u \in tracks : u.set = s}}
Found(h, s) ==
    [NoWork EXCEPT !.set = s, !.again = TRUE,
                   !.loaded = [p \in Pairs |-> IF p \in Wanted(h) \cap EntriesOf(s)
                                                THEN catalog[p] ELSE None]]

(* A payload with an empty source_file is not looked up.                   *)
FindSet(h) ==
    /\ pc[h] = "find_set"
    /\ IF req[h].file # NoFile /\ SetsOf(req[h].file) # {}
       THEN /\ \E s \in SetsOf(req[h].file) : work' = [work EXCEPT ![h] = Found(h, s)]
            /\ Goto(h, "read_orders")
       ELSE Goto(h, "insert_set") /\ UNCHANGED work
    /\ UNCHANGED <<db, req, answer, overlap>>

(* Insert and flush.  A set that exists, because it was committed since the*)
(* lookup or because the empty name was not looked up, violates the unique *)
(* constraint; the handler rolls back, looks again and finds it.           *)
InsertSet(h) ==
    /\ pc[h] = "insert_set"
    /\ BlockedBy(h) = {}
    /\ IF SetsOf(req[h].file) # {}
       THEN /\ \E s \in SetsOf(req[h].file) : work' = [work EXCEPT ![h] = Found(h, s)]
            /\ Goto(h, "read_orders")
       ELSE /\ work' = [work EXCEPT ![h].set = h, ![h].created = TRUE]
            /\ Goto(h, "load_catalog")
    /\ UNCHANGED <<db, req, answer, overlap>>

(* reconcile_set_tracks: the play orders the set already has.              *)
ReadOrders_Skipped(h) ==
    /\ pc[h] = "read_orders"
    /\ Goto(h, "load_catalog")
    /\ UNCHANGED <<db, req, answer, work, overlap>>

ReadOrders(h) ==
    /\ pc[h] = "read_orders"
    /\ work' = [work EXCEPT ![h].known = {t.order : t \in {u \in tracks : u.set = work[h].set}}]
    /\ Goto(h, "load_catalog")
    /\ UNCHANGED <<db, req, answer, overlap>>

(* One select loads the other catalog entries of the payload.              *)
LoadCatalog(h) ==
    /\ pc[h] = "load_catalog"
    /\ work' = [work EXCEPT ![h].loaded =
                    [p \in Pairs |-> IF p \in Wanted(h) /\ @[p] = None THEN catalog[p] ELSE @[p]]]
    /\ Goto(h, "track")
    /\ UNCHANGED <<db, req, answer, overlap>>

-----------------------------------------------------------------------------
(* _escalate_confidence.                                                   *)
Escalated(current, plays, entryBpm, t) ==
    CASE current = Low /\ (plays >= 2 \/ (t.bpm # None /\ t.genre # None)) -> Medium
      [] /\ current = Medium /\ plays >= 3
         /\ entryBpm # None /\ t.bpm # None
         /\ entryBpm - t.bpm \in -2..2 -> High
      [] OTHER -> current

NewEntry(t) ==
    [genre |-> t.genre, bpm |-> t.bpm, source |-> "play_history",
     confidence |-> Low, plays |-> 1]

(* What one more play of t makes of entry c.                               *)
Played_Recounts(c, t) ==
    [c EXCEPT !.plays = @ + 2, !.confidence = Escalated(@, c.plays + 2, c.bpm, t)]

Played(c, t) ==
    LET fillsGenre == t.genre # None /\ c.genre = None
        fillsBpm == t.bpm # None /\ c.bpm = None
        bpm == IF fillsBpm THEN t.bpm ELSE c.bpm
    IN  [genre |-> IF fillsGenre THEN t.genre ELSE c.genre,
         bpm |-> bpm,
         source |-> IF fillsGenre \/ fillsBpm THEN "play_history" ELSE c.source,
         confidence |-> Escalated(c.confidence, c.plays + 1, bpm, t),
         plays |-> c.plays + 1]

Differing(c, d) == {f \in DOMAIN c : c[f] # d[f]}

(* Session h now holds value d for the loaded entry of p.                  *)
Assign(h, p, d) ==
    LET fields == Differing(work[h].loaded[p], d)
    IN  [work[h] EXCEPT !.loaded[p] = d,
                        !.changed[p] = @ \cup fields,
                        !.dirty = IF fields = {} THEN @ ELSE @ \cup {p}]

RowOf(h, i) ==
    LET t == req[h].tracks[i]
    IN  [set |-> work[h].set, order |-> PlayOrder(t), pair |-> t.pair, by |-> h, at |-> i]

Skips(h) == work[h].again /\ PlayOrder(Current(h)) \in work[h].known

(* A play order the set had is skipped; nothing else is compared.          *)
SkipTrack(h) ==
    /\ pc[h] = "track"
    /\ work[h].at <= Len(req[h].tracks)
    /\ Skips(h)
    /\ work' = [work EXCEPT ![h].at = @ + 1]
    /\ UNCHANGED <<db, req, pc, answer, overlap>>

(* The entry is loaded: link the track, fill nulls, count the play.        *)
LinkTrack(h) ==
    /\ pc[h] = "track"
    /\ work[h].at <= Len(req[h].tracks)
    /\ ~Skips(h)
    /\ LET t == Current(h)
           c == work[h].loaded[t.pair]
       IN  /\ c # None
           /\ work' = [work EXCEPT ![h] =
                         [Assign(h, t.pair, Played(c, t))
                             EXCEPT !.at = @ + 1, !.rows = @ \cup {RowOf(h, work[h].at)}]]
    /\ UNCHANGED <<db, req, pc, answer, overlap>>

(* No entry was loaded: one is created, which flushes the session.         *)
NewTrack(h) ==
    /\ pc[h] = "track"
    /\ work[h].at <= Len(req[h].tracks)
    /\ ~Skips(h)
    /\ work[h].loaded[Current(h).pair] = None
    /\ work' = [work EXCEPT ![h].rows = @ \cup {RowOf(h, work[h].at)}]
    /\ Goto(h, "flush")
    /\ UNCHANGED <<db, req, answer, overlap>>

TracksDone(h) ==
    /\ pc[h] = "track"
    /\ work[h].at > Len(req[h].tracks)
    /\ Goto(h, "flush_all")
    /\ UNCHANGED <<db, req, answer, work, overlap>>

-----------------------------------------------------------------------------
(* One UPDATE of a flush: the row lock is taken and kept.                  *)
FlushUpdate(h) ==
    /\ pc[h] \in {"flush", "flush_all"}
    /\ work[h].dirty # {}
    /\ BlockedBy(h) = {}
    /\ work' = [work EXCEPT ![h].dirty = @ \ {NextDirty(h)},
                            ![h].locked = @ \cup {NextDirty(h)}]
    /\ UNCHANGED <<db, req, pc, answer, overlap>>

FlushDone(h) ==
    /\ pc[h] \in {"flush", "flush_all"}
    /\ work[h].dirty = {}
    /\ Goto(h, IF pc[h] = "flush" THEN "insert_catalog" ELSE "commit")
    /\ UNCHANGED <<db, req, answer, work, overlap>>

(* Insert and flush; an entry committed since the select violates the      *)
(* unique constraint, which nothing catches.                               *)
InsertCatalog(h) ==
    /\ pc[h] = "insert_catalog"
    /\ BlockedBy(h) = {}
    /\ LET t == Current(h)
           c == NewEntry(t)
           d == [c EXCEPT !.confidence = Escalated(Low, 1, c.bpm, t)]
       IN  IF catalog[t.pair] # None
           THEN EndWith(h, "500")
           ELSE /\ work' = [work EXCEPT ![h].loaded[t.pair] = d,
                                        ![h].inserted = @ \cup {t.pair},
                                        ![h].dirty = IF c = d THEN @ ELSE @ \cup {t.pair},
                                        ![h].at = @ + 1]
                /\ Goto(h, "track")
                /\ UNCHANGED <<db, req, answer, overlap>>

-----------------------------------------------------------------------------
(* patch_catalog: the given fields are set and the source becomes manual.  *)
LoadEntry(h) ==
    /\ pc[h] = "load_entry"
    /\ LET p == req[h].pair
           c == catalog[p]
       IN  IF c = None
           THEN EndWith(h, "404")
           ELSE LET d == [c EXCEPT !.genre = IF req[h].genre # None THEN req[h].genre ELSE @,
                                   !.bpm = IF req[h].bpm # None THEN req[h].bpm ELSE @,
                                   !.source = "manual"]
                IN  /\ work' = [work EXCEPT ![h] =
                                  [work[h] EXCEPT !.loaded[p] = d,
                                                  !.changed[p] = Differing(c, d),
                                                  !.dirty = IF c = d THEN {} ELSE {p}]]
                    /\ Goto(h, "flush_all")
                    /\ UNCHANGED <<db, req, answer, overlap>>

(* What the commit makes of catalog entry p: an inserted row is the        *)
(* session's, of an updated row only the changed columns are.              *)
Stored(h, p) ==
    IF p \in work[h].inserted THEN work[h].loaded[p]
    ELSE IF p \in work[h].locked
    THEN [f \in DOMAIN catalog[p] |->
             IF f \in work[h].changed[p] THEN work[h].loaded[p][f] ELSE catalog[p][f]]
    ELSE catalog[p]

Commit_LosesRows(h) ==
    /\ pc[h] = "commit"
    /\ sets' = IF work[h].created THEN sets \cup {h} ELSE sets
    /\ catalog' = [p \in Pairs |-> Stored(h, p)]
    /\ Goto(h, "done")
    /\ answer' = [answer EXCEPT ![h] = "200"]
    /\ work' = [work EXCEPT ![h] = NoWork]
    /\ UNCHANGED <<tracks, req, overlap>>

Commit(h) ==
    /\ pc[h] = "commit"
    /\ sets' = IF work[h].created THEN sets \cup {h} ELSE sets
    /\ tracks' = tracks \cup work[h].rows
    /\ catalog' = [p \in Pairs |-> Stored(h, p)]
    /\ Goto(h, "done")
    /\ answer' = [answer EXCEPT ![h] = "200"]
    /\ work' = [work EXCEPT ![h] = NoWork]
    /\ UNCHANGED <<req, overlap>>

(* Postgres aborts one transaction of a deadlock.                          *)
BreakDeadlock(h) ==
    /\ Deadlocked(h)
    /\ EndWith(h, "500")

(* The process restarts or the connection drops before the commit.         *)
Crash(h) ==
    /\ h \in InFlight
    /\ EndWith(h, "lost")

Step(h) ==
    \/ Disabled(h) \/ FindSet(h) \/ InsertSet(h) \/ ReadOrders(h) \/ LoadCatalog(h)
    \/ SkipTrack(h) \/ LinkTrack(h) \/ NewTrack(h) \/ TracksDone(h)
    \/ FlushUpdate(h) \/ FlushDone(h) \/ InsertCatalog(h)
    \/ LoadEntry(h)
    \/ Commit(h)

(* Every request has been answered and no other arrives.                   *)
Quiet ==
    /\ \A h \in Handlers : pc[h] = "done"
    /\ UNCHANGED vars

Next ==
    \/ \E h \in Handlers : Begin(h) \/ Step(h) \/ BreakDeadlock(h) \/ Crash(h)
    \/ Quiet

(* The event loop runs every handler that can go on, and Postgres looks    *)
(* for deadlocks.  Nothing obliges a request to arrive.                    *)
Fairness == \A h \in Handlers : WF_vars(Step(h) \/ BreakDeadlock(h))

Spec == Init /\ [][Next]_vars /\ Fairness

-----------------------------------------------------------------------------
(* Properties.                                                             *)

Label == {"idle", "find_set", "insert_set", "read_orders", "load_catalog", "track", "flush",
          "flush_all", "insert_catalog", "load_entry", "commit", "done"}
Field == {"genre", "bpm", "source", "confidence", "plays"}
Work == [set : Handlers \cup {None}, created : BOOLEAN, again : BOOLEAN, known : SUBSET Nat,
         at : Nat, rows : SUBSET TrackRow, loaded : [Pairs -> Entry \cup {None}],
         changed : [Pairs -> SUBSET Field], dirty : SUBSET Pairs, locked : SUBSET Pairs,
         inserted : SUBSET Pairs]

(* Every variable holds values of its kind.                                *)
TypeOK ==
    /\ sets \in SUBSET Handlers
    /\ tracks \in SUBSET TrackRow
    /\ catalog \in [Pairs -> Entry \cup {None}]
    /\ req \in [Handlers -> Request \cup {None}]
    /\ pc \in [Handlers -> Label]
    /\ answer \in [Handlers -> {"none", "200", "404", "500", "503", "lost"}]
    /\ work \in [Handlers -> Work]
    /\ overlap \in BOOLEAN

Plays(p) == Cardinality({t \in tracks : t.pair = p})

(* "Number of plays recorded for this entity" (schemas.py): play_count is  *)
(* the number of tracks linked to the entry.                               *)
PlayCountIsPlays == \A p \in Pairs : catalog[p] # None => catalog[p].plays = Plays(p)

(* What holds of it: one request at a time, play_count is that number.     *)
(* Overlapping requests can lose counts (of the sums two sessions write to *)
(* a row both had read, one stays) but never invent them, and a pair with  *)
(* tracks has an entry.                                                    *)
PlayCountAccounted ==
    /\ ~overlap => PlayCountIsPlays
    /\ \A p \in Pairs : IF catalog[p] = None THEN Plays(p) = 0
                        ELSE catalog[p].plays \in 1..Plays(p)

(* An ingest that answered 200 leaves no hole: its file, however many      *)
(* ingests of it race, fail, crash and are repeated, has one set, and that *)
(* a track at every play order of the payload, although some were skipped  *)
(* on account of what an earlier, possibly half-failed, ingest had stored. *)
(* (It need not be the payload's own track: one that was stored at its     *)
(* play order stays, and of two at one play order either will do.)         *)
Complete(h) ==
    \E s \in sets : /\ SetsOf(req[h].file) = {s}
                    /\ \A i \in DOMAIN req[h].tracks :
                          \E t \in tracks : t.set = s /\ t.order = PlayOrder(req[h].tracks[i])
AnsweredIngestIsComplete ==
    \A h \in Handlers : answer[h] = "200" /\ req[h].kind = "ingest" => Complete(h)

(* Ingesting a file again, when no other request is in flight, adds no     *)
(* track at a play order its set has: the two rows of one play order come  *)
(* from one payload.                                                       *)
SerialReingestAddsNothingTwice ==
    ~overlap => \A t, u \in tracks : t.set = u.set /\ t.order = u.order => t.by = u.by

(* Every request that starts is answered or lost: waits for the set key,   *)
(* catalog keys and catalog rows end, deadlocks included.  (A handler      *)
(* serves one request, so this says it of each of them.)                   *)
EveryRequestEnds == <>[](InFlight = {})
=============================================================================
