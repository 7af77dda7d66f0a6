---------------------------- MODULE WcsPipeline ----------------------------
(***************************************************************************)
(* The WCS pipeline: transcripts, sources, extractions, and the canonical  *)
(* layer that the Composition Service derives from them.                   *)
(*                                                                         *)
(* Every HTTP request is served by one asyncio handler with one database   *)
(* session.  Handlers interleave at every await; the database is Postgres  *)
(* at READ COMMITTED.  A handler reads what is committed plus what it has  *)
(* written itself, keeps its writes in txn[h] until it commits, and waits  *)
(* for another transaction that holds a row or a unique key it needs.      *)
(*                                                                         *)
(* A row's uuid is the handler that inserted it: a request inserts at most *)
(* one source, one extraction and one correction or addition.  The columns *)
(* of such a row never change afterwards, so they are read off req[h].     *)
(*                                                                         *)
(* An operator named Op_Fault is Op with a plausible bug.  It is used by   *)
(* no action: a run with Op replaced by it shows which property notices.   *)
(***************************************************************************)
EXTENDS Naturals, Sequences, FiniteSets

CONSTANTS
    Handlers,      \* the requests served, one handler each
    Plans,         \* names of the workloads that may turn out to be served
    PlanOf,        \* what each of them is
    Callers,       \* authenticated principals
    Transcripts,   \* (owner_id, drive_file_id) keys
    OwnerOf,       \* the owner of a transcript key
    Texts,         \* raw_text values
    NoText,        \* the transcript row does not exist
    Payloads,      \* raw_output values a cog may post
    Mentions,      \* Mentions[p]: the names composition resolves, in order
    Writes,        \* Writes[p]: the canonical tables p has rows for
    Names,         \* slugs of entities (and of instructors)
    Singular,      \* depluralize
    Tables,        \* how many canonical tables composition rewrites, in order
    NoOne

(***************************************************************************)
(* A mention is one name to resolve.  Attribution corrections rewrite only *)
(* the entities list (claim = TRUE); definitions, relations, drills,       *)
(* mistakes, notes and instructors are resolved as they stand.             *)
(***************************************************************************)
Mention == [name : Names, claim : BOOLEAN]

TranscriptPost == [kind : {"transcript"}, transcript : Transcripts, text : Texts]
IngestPost     == [kind : {"ingest"}, caller : Callers, transcript : Transcripts,
                   payload : Payloads]
RecomposePost  == [kind : {"recompose"}, source : Handlers]
CorrectionPost == [kind : {"correction"}, source : Handlers, from : Names, to : Names]
AdditionPost   == [kind : {"addition"}, source : Handlers \cup {NoOne},
                   refs : SUBSET Names, table : 1..Tables]
RelationPost   == [kind : {"relation"}, refs : SUBSET Names, table : 1..Tables]

Request == TranscriptPost \cup IngestPost \cup RecomposePost
             \cup CorrectionPost \cup AdditionPost \cup RelationPost

(* A workload: the transcripts stored before it, the requests handler h    *)
(* may turn out to serve, and the bound on how many are in flight at once. *)
Plan == [stored : [Transcripts -> Texts \cup {NoText}],
         requests : [Handlers -> SUBSET Request], width : Nat]

ASSUME ConstantsAssumption ==
    /\ IsFiniteSet(Handlers)
    /\ PlanOf \in [Plans -> Plan]
    /\ OwnerOf \in [Transcripts -> Callers]
    /\ NoText \notin Texts
    /\ Mentions \in [Payloads -> Seq(Mention)]
    /\ Tables \in Nat \ {0}
    /\ Writes \in [Payloads -> SUBSET (1..Tables)]
    /\ Singular \in [Names -> Names]
    /\ NoOne \notin Handlers \cup Request

VARIABLES
    plan,          \* the workload being served
    transcript,    \* wcs_transcripts: raw_text by key, NoText when absent
    sources,       \* wcs_sources
    extraction,    \* wcs_source_extractions: the source of each, NoOne when absent
    active,        \* the extractions with is_active
    inputs,        \* attribution corrections and all kinds of additions
    entities,      \* wcs_entities (and wcs_instructors) by slug
    canonical,     \* the rows of the canonical tables
    req,           \* the request a handler serves
    pc,            \* the statement a handler is at
    answer,        \* the HTTP status it answered, or how it ended
    txn,           \* the uncommitted writes of its session
    work           \* its local variables

db == <<plan, transcript, sources, extraction, active, inputs, entities, canonical>>
vars == <<db, req, pc, answer, txn, work>>

(***************************************************************************)
(* What one composition wrote into one table for one source.  The tag says *)
(* who wrote it and what it was derived from: the extraction and the       *)
(* corrections and additions the composition had read.                     *)
(***************************************************************************)
CanonicalRow == [table : 1..Tables, source : Handlers, by : Handlers,
                 ext : Handlers, inputs : SUBSET Handlers]

Label == {"idle", "find_transcript", "insert_transcript", "get_transcript", "find_source",
          "save_source", "demote", "demote_wait", "insert_extraction", "get_source",
          "store_input", "read_extraction", "read_inputs", "delete", "delete_wait",
          "resolve", "create_entity", "apply_additions", "commit", "done"}

Txn == [created : BOOLEAN, saved : Handlers \cup {NoOne}, demoted : SUBSET Handlers,
        promoted : BOOLEAN, stored : BOOLEAN, names : SUBSET Names,
        deleted : SUBSET CanonicalRow, added : SUBSET CanonicalRow]

Work == [target : Handlers \cup {NoOne}, dirty : BOOLEAN, queue : Seq(Handlers),
         ext : Handlers \cup {NoOne}, seen : SUBSET Handlers, table : Nat,
         victims : SUBSET (Handlers \cup CanonicalRow), at : Nat, name : Names \cup {NoOne}]

NoTxn == [created |-> FALSE, saved |-> NoOne, demoted |-> {}, promoted |-> FALSE,
          stored |-> FALSE, names |-> {}, deleted |-> {}, added |-> {}]

NoWork == [target |-> NoOne, dirty |-> FALSE, queue |-> <<>>, ext |-> NoOne, seen |-> {},
           table |-> 1, victims |-> {}, at |-> 1, name |-> NoOne]

Init ==
    /\ plan \in Plans
    /\ transcript = PlanOf[plan].stored
    /\ sources = {}
    /\ extraction = [h \in Handlers |-> NoOne]
    /\ active = {}
    /\ inputs = {}
    /\ entities = {}
    /\ canonical = {}
    /\ req = [h \in Handlers |-> NoOne]
    /\ pc = [h \in Handlers |-> "idle"]
    /\ answer = [h \in Handlers |-> "none"]
    /\ txn = [h \in Handlers |-> NoTxn]
    /\ work = [h \in Handlers |-> NoWork]

-----------------------------------------------------------------------------
(* What a handler sees: committed rows and its own.                        *)

Others(h) == Handlers \ {h}
InFlight == {h \in Handlers : pc[h] \notin {"idle", "done"}}

VisibleNames(h) == entities \cup txn[h].names
VisibleInputs(h) == inputs \cup (IF txn[h].stored THEN {h} ELSE {})

ActiveOf(s) == {e \in active : extraction[e] = s}
VisibleActive(h, s) ==
    (ActiveOf(s) \ txn[h].demoted)
      \cup (IF txn[h].promoted /\ work[h].target = s THEN {h} ELSE {})

SourcesOf(t) == {s \in sources : req[s].transcript = t}

(* compose_source's selects: corrections of the source, additions of the   *)
(* source or of no source, and every relation addition.                    *)
AppliesTo(i, s) ==
    \/ req[i].kind = "correction" /\ req[i].source = s
    \/ req[i].kind = "addition" /\ req[i].source \in {s, NoOne}
    \/ req[i].kind = "relation"

IsAddition(i) == req[i].kind \in {"addition", "relation"}

(* The rows composing source s from extraction e and inputs I inserts.     *)
TablesOf(e, I) == Writes[req[e].payload] \cup {req[i].table : i \in {j \in I : IsAddition(j)}}
Batch(s, h, e, I) ==
    {[table |-> k, source |-> s, by |-> h, ext |-> e, inputs |-> I] : k \in TablesOf(e, I)}

(* Corrections match the raw term; the last matching one wins, and the     *)
(* select has no ORDER BY, so any of them may be last.                     *)
CorrectedNames(m, I) ==
    LET renames == {c \in I : /\ req[c].kind = "correction"
                              /\ req[c].from = m.name
                              /\ req[c].to # m.name}
    IN  IF m.claim /\ renames # {} THEN {req[c].to : c \in renames} ELSE {m.name}

(* The orders in which a select without ORDER BY may return the set S.     *)
Orders(S) == {q \in [1..Cardinality(S) -> S] : \A i, j \in DOMAIN q : i # j => q[i] # q[j]}

-----------------------------------------------------------------------------
(***************************************************************************)
(* Row locks and unique keys.  BlockedBy(h) is the set of handlers whose   *)
(* transactions hold what h's next statement needs.                        *)
(***************************************************************************)
BlockedBy(h) ==
    LET holds(g) ==
          CASE pc[h] = "save_source" -> txn[g].saved = work[h].target
            [] pc[h] = "demote_wait" -> txn[g].demoted \cap work[h].victims # {}
            [] pc[h] = "insert_extraction" ->
                 \/ txn[g].promoted /\ work[g].target = work[h].target
                 \/ txn[g].demoted \cap ActiveOf(work[h].target) # {}
            [] pc[h] = "delete_wait" -> txn[g].deleted \cap work[h].victims # {}
            [] pc[h] = "create_entity" -> work[h].name \in txn[g].names
            [] OTHER -> FALSE
    IN  {g \in Others(h) : holds(g)}

WaitsWithin(S) == S # {} /\ \A h \in S : BlockedBy(h) \cap S # {}

(* h is on a cycle of transactions that wait for each other.               *)
Deadlocked(h) ==
    BlockedBy(h) # {} /\ \E S \in SUBSET Handlers :
        /\ h \in S
        /\ WaitsWithin(S)
        /\ \A R \in SUBSET S : WaitsWithin(R) => R = S

Goto(h, label) == pc' = [pc EXCEPT ![h] = label]

EndWith_PartialCommit(h, code) ==
    /\ Goto(h, "done")
    /\ answer' = [answer EXCEPT ![h] = code]
    /\ txn' = [txn EXCEPT ![h] = NoTxn]
    /\ work' = [work EXCEPT ![h] = NoWork]
    /\ canonical' = canonical \ txn[h].deleted
    /\ UNCHANGED <<plan, transcript, sources, extraction, active, inputs, entities, req>>

(* The handler ends without committing: its session is rolled back.        *)
EndWith(h, code) ==
    /\ Goto(h, "done")
    /\ answer' = [answer EXCEPT ![h] = code]
    /\ txn' = [txn EXCEPT ![h] = NoTxn]
    /\ work' = [work EXCEPT ![h] = NoWork]
    /\ UNCHANGED <<db, req>>

-----------------------------------------------------------------------------
(* Requests arrive.                                                        *)

EntryOf(r) ==
    CASE r.kind = "transcript" -> "find_transcript"
      [] r.kind = "ingest" -> "get_transcript"
      [] r.kind = "recompose" -> "get_source"
      [] OTHER -> "store_input"

Begin(h) ==
    /\ pc[h] = "idle"
    /\ Cardinality(InFlight) < PlanOf[plan].width
    /\ \E r \in PlanOf[plan].requests[h] :
          /\ req' = [req EXCEPT ![h] = r]
          /\ Goto(h, EntryOf(r))
    /\ UNCHANGED <<db, answer, txn, work>>

-----------------------------------------------------------------------------
(* POST /v1/wcs/transcripts: create_transcript.                            *)

FindTranscript(h) ==
    /\ pc[h] = "find_transcript"
    /\ LET stored == transcript[req[h].transcript]
       IN  /\ Goto(h, IF stored = NoText THEN "insert_transcript" ELSE "demote")
           /\ work' = [work EXCEPT ![h].dirty = (req[h].text # stored)]
    /\ UNCHANGED <<db, req, answer, txn>>

(* Insert, flush and commit; a row committed since the lookup violates the *)
(* unique constraint, which nothing catches.                               *)
InsertTranscript(h) ==
    /\ pc[h] = "insert_transcript"
    /\ IF transcript[req[h].transcript] = NoText
       THEN /\ transcript' = [transcript EXCEPT ![req[h].transcript] = req[h].text]
            /\ Goto(h, "done")
            /\ answer' = [answer EXCEPT ![h] = "201"]
            /\ work' = [work EXCEPT ![h] = NoWork]
            /\ UNCHANGED <<plan, sources, extraction, active, inputs, entities, canonical, req,
                           txn>>
       ELSE EndWith(h, "500")

-----------------------------------------------------------------------------
(* POST /v1/wcs/sources: ingest_source.                                    *)

GetTranscript(h) ==
    /\ pc[h] = "get_transcript"
    /\ CASE transcript[req[h].transcript] = NoText -> EndWith(h, "404")
         [] transcript[req[h].transcript] # NoText
              /\ OwnerOf[req[h].transcript] # req[h].caller -> EndWith(h, "403")
         [] OTHER -> Goto(h, "find_source") /\ UNCHANGED <<db, req, answer, txn, work>>

CreateSource_Always(h) ==
    /\ pc[h] = "find_source"
    /\ txn' = [txn EXCEPT ![h].created = TRUE]
    /\ work' = [work EXCEPT ![h].target = h]
    /\ Goto(h, "demote")
    /\ UNCHANGED <<db, req, answer>>

(* No source of the transcript is visible: insert one.                     *)
CreateSource(h) ==
    /\ pc[h] = "find_source"
    /\ SourcesOf(req[h].transcript) = {}
    /\ txn' = [txn EXCEPT ![h].created = TRUE]
    /\ work' = [work EXCEPT ![h].target = h]
    /\ Goto(h, "demote")
    /\ UNCHANGED <<db, req, answer>>

(* .first() of a select without ORDER BY.  The flush sends an UPDATE only  *)
(* when the payload changes a column of the row.                           *)
ReuseSource(h) ==
    /\ pc[h] = "find_source"
    /\ \E s \in SourcesOf(req[h].transcript), dirty \in BOOLEAN :
          IF req[s].caller # req[h].caller
          THEN EndWith(h, "403")
          ELSE /\ work' = [work EXCEPT ![h].target = s]
               /\ Goto(h, IF dirty THEN "save_source" ELSE "demote")
               /\ UNCHANGED <<db, req, answer, txn>>

SaveSource(h) ==
    /\ pc[h] = "save_source"
    /\ BlockedBy(h) = {}
    /\ txn' = [txn EXCEPT ![h].saved = work[h].target]
    /\ Goto(h, "demote")
    /\ UNCHANGED <<db, req, answer, work>>

-----------------------------------------------------------------------------
(***************************************************************************)
(* UPDATE ... SET is_active = FALSE, of the one source being ingested or   *)
(* of every source of the re-posted transcript.  The statement finds its   *)
(* rows in a snapshot.  Where another transaction holds one of them it     *)
(* waits, and then keeps those that still match: rows that became active   *)
(* meanwhile are not looked for again.                                     *)
(***************************************************************************)
DemotionScope_IngestForgets(h) ==
    IF req[h].kind = "transcript" THEN SourcesOf(req[h].transcript) ELSE {}

DemotionScope(h) ==
    IF req[h].kind = "transcript" THEN SourcesOf(req[h].transcript) ELSE {work[h].target}

AfterDemote(h) == IF req[h].kind = "transcript" THEN "commit" ELSE "insert_extraction"

Demote(h) ==
    /\ pc[h] = "demote"
    /\ LET victims == UNION {ActiveOf(s) : s \in DemotionScope(h)}
       IN  IF \A g \in Others(h) : txn[g].demoted \cap victims = {}
           THEN /\ txn' = [txn EXCEPT ![h].demoted = victims]
                /\ Goto(h, AfterDemote(h))
                /\ UNCHANGED work
           ELSE /\ work' = [work EXCEPT ![h].victims = victims]
                /\ Goto(h, "demote_wait")
                /\ UNCHANGED txn
    /\ UNCHANGED <<db, req, answer>>

DemoteWait(h) ==
    /\ pc[h] = "demote_wait"
    /\ BlockedBy(h) = {}
    /\ txn' = [txn EXCEPT ![h].demoted = work[h].victims \cap active]
    /\ work' = [work EXCEPT ![h].victims = {}]
    /\ Goto(h, AfterDemote(h))
    /\ UNCHANGED <<db, req, answer>>

InsertExtraction_NoIndex(h) ==
    /\ pc[h] = "insert_extraction"
    /\ txn' = [txn EXCEPT ![h].promoted = TRUE]
    /\ work' = [work EXCEPT ![h].queue = <<work[h].target>>]
    /\ Goto(h, "read_extraction")
    /\ UNCHANGED <<db, req, answer>>

(* The partial unique index admits one active extraction per source.       *)
InsertExtraction(h) ==
    /\ pc[h] = "insert_extraction"
    /\ BlockedBy(h) = {}
    /\ IF ActiveOf(work[h].target) \subseteq txn[h].demoted
       THEN /\ txn' = [txn EXCEPT ![h].promoted = TRUE]
            /\ work' = [work EXCEPT ![h].queue = <<work[h].target>>]
            /\ Goto(h, "read_extraction")
            /\ UNCHANGED <<db, req, answer>>
       ELSE EndWith(h, "500")

-----------------------------------------------------------------------------
(* The admin endpoints.                                                    *)

(* recompose_source: 404 unless the source exists.                         *)
GetSource(h) ==
    /\ pc[h] = "get_source"
    /\ IF req[h].source \in sources
       THEN /\ work' = [work EXCEPT ![h].queue = <<req[h].source>>]
            /\ Goto(h, "read_extraction")
            /\ UNCHANGED <<db, req, answer, txn>>
       ELSE EndWith(h, "404")

(***************************************************************************)
(* create_attribution_correction, create_*_addition: insert the row, then  *)
(* compose its source; an addition without a source is stored only; a      *)
(* relation addition composes every source with an active extraction.  The *)
(* foreign key refuses a source that is not committed.                     *)
(***************************************************************************)
HasSource(r) == r.kind \in {"correction", "addition"} /\ r.source # NoOne

StoreInput(h) ==
    /\ pc[h] = "store_input"
    /\ IF HasSource(req[h]) /\ req[h].source \notin sources
       THEN EndWith(h, "500")
       ELSE /\ txn' = [txn EXCEPT ![h].stored = TRUE]
            /\ LET queued == CASE HasSource(req[h]) -> {req[h].source}
                               [] req[h].kind = "relation" -> {extraction[e] : e \in active}
                               [] OTHER -> {}
               IN  \E q \in Orders(queued) :
                      /\ work' = [work EXCEPT ![h].queue = q]
                      /\ Goto(h, IF q = <<>> THEN "commit" ELSE "read_extraction")
            /\ UNCHANGED <<db, req, answer>>

-----------------------------------------------------------------------------
(* compose_source, for the first source of the queue.                      *)

NextSource_OnlyFirst(h) ==
    /\ work' = [work EXCEPT ![h] = [NoWork EXCEPT !.target = work[h].target]]
    /\ Goto(h, "commit")

NextSource_KeepsFirst(h) ==
    /\ work' = [work EXCEPT ![h] = [NoWork EXCEPT !.target = work[h].target, !.queue = work[h].queue]]
    /\ Goto(h, "read_extraction")

(* The composition of the first source is over: go on to the next, or      *)
(* back to the caller, which commits.                                      *)
NextSource(h) ==
    LET rest == Tail(work[h].queue)
    IN  /\ work' = [work EXCEPT ![h] = [NoWork EXCEPT !.target = work[h].target, !.queue = rest]]
        /\ Goto(h, IF rest = <<>> THEN "commit" ELSE "read_extraction")

(* Without an active extraction composition returns before it deletes.     *)
ReadExtraction(h) ==
    /\ pc[h] = "read_extraction"
    /\ LET found == VisibleActive(h, Head(work[h].queue))
       IN  IF found = {}
           THEN NextSource(h)
           ELSE /\ \E e \in found : work' = [work EXCEPT ![h].ext = e]
                /\ Goto(h, "read_inputs")
    /\ UNCHANGED <<db, req, answer, txn>>

ReadInputs_AnySource(h) ==
    /\ pc[h] = "read_inputs"
    /\ work' = [work EXCEPT ![h].seen = VisibleInputs(h)]
    /\ Goto(h, "delete")
    /\ UNCHANGED <<db, req, answer, txn>>

ReadInputs(h) ==
    /\ pc[h] = "read_inputs"
    /\ work' = [work EXCEPT ![h].seen =
                   {i \in VisibleInputs(h) : AppliesTo(i, Head(work[h].queue))}]
    /\ Goto(h, "delete")
    /\ UNCHANGED <<db, req, answer, txn>>

(***************************************************************************)
(* One DELETE ... WHERE source_id = s per canonical table, each with its   *)
(* own snapshot.  Like the UPDATE above, a DELETE that waited for another  *)
(* transaction does not see the rows that transaction inserted.            *)
(***************************************************************************)
Deleted(h, rows) ==
    /\ txn' = [txn EXCEPT ![h].deleted = @ \cup rows]
    /\ work' = [work EXCEPT ![h].table = @ + 1, ![h].victims = {}]
    /\ Goto(h, IF work[h].table = Tables THEN "resolve" ELSE "delete")

Delete(h) ==
    /\ pc[h] = "delete"
    /\ LET victims == {r \in canonical : /\ r.source = Head(work[h].queue)
                                         /\ r.table = work[h].table}
       IN  IF \A g \in Others(h) : txn[g].deleted \cap victims = {}
           THEN Deleted(h, victims)
           ELSE /\ work' = [work EXCEPT ![h].victims = victims]
                /\ Goto(h, "delete_wait")
                /\ UNCHANGED txn
    /\ UNCHANGED <<db, req, answer>>

DeleteWait(h) ==
    /\ pc[h] = "delete_wait"
    /\ BlockedBy(h) = {}
    /\ Deleted(h, work[h].victims \cap canonical)
    /\ UNCHANGED <<db, req, answer>>

(* resolve_entity: by slug or alias, then by the depluralized form.  The   *)
(* update of its external_origin, when the mention changes it, is left out:*)
(* no row of the layer depends on it, and the lock it takes on the entity  *)
(* could only add waits and deadlocks, which end in a 500 like the others. *)
Resolve(h) ==
    /\ pc[h] = "resolve"
    /\ LET mentions == Mentions[req[work[h].ext].payload]
       IN  IF work[h].at > Len(mentions)
           THEN Goto(h, "apply_additions") /\ UNCHANGED work
           ELSE \E n \in CorrectedNames(mentions[work[h].at], work[h].seen) :
                   IF {n, Singular[n]} \cap VisibleNames(h) # {}
                   THEN /\ work' = [work EXCEPT ![h].at = @ + 1]
                        /\ UNCHANGED pc
                   ELSE /\ work' = [work EXCEPT ![h].name = n]
                        /\ Goto(h, "create_entity")
    /\ UNCHANGED <<db, req, answer, txn>>

(* Insert and flush: the slug is unique, and nothing catches the violation *)
(* when another transaction has committed it since the lookup.             *)
CreateEntity(h) ==
    /\ pc[h] = "create_entity"
    /\ BlockedBy(h) = {}
    /\ IF work[h].name \in entities
       THEN EndWith(h, "500")
       ELSE /\ txn' = [txn EXCEPT ![h].names = @ \cup {work[h].name}]
            /\ work' = [work EXCEPT ![h].name = NoOne, ![h].at = @ + 1]
            /\ Goto(h, "resolve")
            /\ UNCHANGED <<db, req, answer>>

(* _resolve_entity_by_slug raises ValueError for an unknown slug.          *)
ApplyAdditions(h) ==
    /\ pc[h] = "apply_additions"
    /\ IF \A i \in work[h].seen : IsAddition(i) => req[i].refs \subseteq VisibleNames(h)
       THEN /\ txn' = [txn EXCEPT ![h].added =
                         @ \cup Batch(Head(work[h].queue), h, work[h].ext, work[h].seen)]
            /\ NextSource(h)
            /\ UNCHANGED <<db, req, answer>>
       ELSE EndWith(h, "500")

-----------------------------------------------------------------------------
(* wcs_source_extractions after h commits: the rows it inserted and        *)
(* demoted.                                                                *)
StoredExtraction_DropsDemoted(h) ==
    [e \in Handlers |-> CASE e = h /\ txn[h].promoted -> work[h].target
                         [] e \in txn[h].demoted -> NoOne
                         [] OTHER -> extraction[e]]
StoredExtraction(h) ==
    IF txn[h].promoted THEN [extraction EXCEPT ![h] = work[h].target] ELSE extraction

(* The caller's commit publishes the whole transaction.                    *)
Commit(h) ==
    /\ pc[h] = "commit"
    /\ transcript' = IF req[h].kind = "transcript" /\ work[h].dirty
                     THEN [transcript EXCEPT ![req[h].transcript] = req[h].text]
                     ELSE transcript
    /\ sources' = IF txn[h].created THEN sources \cup {h} ELSE sources
    /\ extraction' = StoredExtraction(h)
    /\ active' = (active \ txn[h].demoted) \cup (IF txn[h].promoted THEN {h} ELSE {})
    /\ inputs' = IF txn[h].stored THEN inputs \cup {h} ELSE inputs
    /\ entities' = entities \cup txn[h].names
    /\ canonical' = (canonical \ txn[h].deleted) \cup txn[h].added
    /\ Goto(h, "done")
    /\ answer' = [answer EXCEPT ![h] = "200"]
    /\ txn' = [txn EXCEPT ![h] = NoTxn]
    /\ work' = [work EXCEPT ![h] = NoWork]
    /\ UNCHANGED <<plan, req>>

(* Postgres aborts one transaction of a deadlock; the handler fails.       *)
BreakDeadlock(h) ==
    /\ Deadlocked(h)
    /\ EndWith(h, "500")

(* The process restarts or the connection drops before the commit.         *)
Crash(h) ==
    /\ h \in InFlight
    /\ EndWith(h, "lost")

Step(h) ==
    \/ FindTranscript(h)
    \/ InsertTranscript(h)
    \/ GetTranscript(h)
    \/ CreateSource(h)
    \/ ReuseSource(h)
    \/ SaveSource(h)
    \/ Demote(h)
    \/ DemoteWait(h)
    \/ InsertExtraction(h)
    \/ GetSource(h)
    \/ StoreInput(h)
    \/ ReadExtraction(h)
    \/ ReadInputs(h)
    \/ Delete(h)
    \/ DeleteWait(h)
    \/ Resolve(h)
    \/ CreateEntity(h)
    \/ ApplyAdditions(h)
    \/ Commit(h)

(* Every request has been answered and no other arrives.                   *)
Quiet ==
    /\ \A h \in Handlers : pc[h] = "done"
    /\ UNCHANGED vars

Next ==
    \/ \E h \in Handlers : Begin(h) \/ Step(h) \/ BreakDeadlock(h) \/ Crash(h)
    \/ Quiet

(* The event loop runs every handler that can go on, and Postgres looks    *)
(* for deadlocks.  Nothing obliges a request to arrive.                    *)
Fairness == \A h \in Handlers : WF_vars(Step(h) \/ BreakDeadlock(h))

Spec == Init /\ [][Next]_vars /\ Fairness
-----------------------------------------------------------------------------
(* Properties.                                                             *)

(* Every variable holds values of its kind.                                *)
TypeOK ==
    /\ plan \in Plans
    /\ transcript \in [Transcripts -> Texts \cup {NoText}]
    /\ sources \in SUBSET Handlers
    /\ extraction \in [Handlers -> Handlers \cup {NoOne}]
    /\ active \in SUBSET Handlers
    /\ inputs \in SUBSET Handlers
    /\ entities \in SUBSET Names
    /\ canonical \in SUBSET CanonicalRow
    /\ req \in [Handlers -> Request \cup {NoOne}]
    /\ pc \in [Handlers -> Label]
    /\ answer \in [Handlers -> {"none", "200", "201", "403", "404", "500", "lost"}]
    /\ txn \in [Handlers -> Txn]
    /\ work \in [Handlers -> Work]

(* However ingests, transcript re-posts and crashes interleave, no source  *)
(* has two active extractions: ingest demotes and inserts under row locks  *)
(* and a unique key, with waits in between.                                *)
OneActiveExtraction ==
    \A e, f \in active : extraction[e] = extraction[f] => e = f

(* The pipeline keeps the promise of CanonicalLayer: the canonical rows of *)
(* a source change only by the commit of a handler that leaves a complete  *)
(* composition of its own there, and an extraction is stored only with     *)
(* one.  No composition is committed in part or undone by one that failed, *)
(* and readers never find a source with part of its rows gone, although a  *)
(* composition deletes the rows of six tables and writes them again while  *)
(* others wait for it, overtake it, fail or crash.                         *)
Layer == INSTANCE CanonicalLayer WITH
    Ids <- Handlers,
    Tables <- 1..Tables,
    None <- NoOne,
    stored <- [e \in Handlers |->
                 IF extraction[e] = NoOne THEN NoOne
                 ELSE [source |-> extraction[e], tables |-> Writes[req[e].payload]]],
    given <- [i \in Handlers |->
                 CASE i \notin inputs -> NoOne
                   [] i \in inputs /\ IsAddition(i) -> {req[i].table}
                   [] OTHER -> {}],
    rows <- canonical
CanonicalLayerKept == Layer!LayerSpec

(* NoOne is no value of the layer either.                                  *)
ASSUME NoOneAssumption ==
    \A W \in SUBSET (1..Tables) :
        W # NoOne /\ \A s \in Handlers : [source |-> s, tables |-> W] # NoOne

(* Extractions are history: once stored, an extraction stays, keeps its    *)
(* source, and once demoted it is never active again, although a demotion  *)
(* may have been decided on rows read before another handler's commit.     *)
HistoryKept ==
    \A e \in Handlers :
        extraction[e] # NoOne => /\ extraction'[e] = extraction[e]
                                 /\ e \notin active => e \notin active'
ExtractionHistoryKept == [][HistoryKept]_vars

(* Every canonical row can be traced: to a stored extraction of the same   *)
(* source, to stored corrections and additions that apply to that source,  *)
(* and the additions name entities that exist.  Composition reads its own  *)
(* uncommitted extraction, correction and entities, which a failure takes  *)
(* back.                                                                   *)
CanonicalTraceable ==
    \A r \in canonical :
        /\ extraction[r.ext] = r.source
        /\ r.inputs \subseteq inputs
        /\ \A i \in r.inputs :
              /\ AppliesTo(i, r.source)
              /\ IsAddition(i) => req[i].refs \subseteq entities

(* Every request that starts is answered or lost: no handler waits forever *)
(* for a row or key, because a cycle of waiting transactions is broken.    *)
(* (A handler serves one request, so this says it of each of them.)        *)
EveryRequestEnds ==
    <>[](InFlight = {})

(***************************************************************************)
(* Served one at a time (width 1), the pipeline keeps the promises of its  *)
(* docs.                                                                   *)
(***************************************************************************)

(* The canonical rows of a source with an active extraction are exactly    *)
(* one composition of that extraction with every correction and addition   *)
(* that applies; only the additions without a source, which are stored     *)
(* without composing anything, may still be missing.                       *)
Due(s) ==
    {i \in inputs : AppliesTo(i, s) /\ ~(req[i].kind = "addition" /\ req[i].source = NoOne)}

CanonicalCurrent ==
    PlanOf[plan].width = 1 => \A e \in active :
        LET s == extraction[e]
        IN  \E h \in Handlers, I \in SUBSET inputs :
               /\ Due(s) \subseteq I
               /\ \A i \in I : AppliesTo(i, s)
               /\ {r \in canonical : r.source = s} = Batch(s, h, e, I)

(* A transcript has at most one source: "one canonical source per Drive    *)
(* file per owner" (migrations/020_transcript_uniqueness.sql).             *)
OneSourcePerTranscript ==
    PlanOf[plan].width = 1 => \A s, t \in sources : req[s].transcript = req[t].transcript => s = t

(* With nobody to race with, a request answers 500 only because it names a *)
(* source that does not exist or because a stored addition (or its own)    *)
(* names an entity nobody has created.                                     *)
FailureExplained ==
    PlanOf[plan].width = 1 => \A h \in Handlers :
        answer'[h] = "500" /\ answer[h] # "500" =>
            \/ HasSource(req[h]) /\ req[h].source \notin sources
            \/ \E i \in inputs \cup {h} : IsAddition(i) /\ ~(req[i].refs \subseteq entities)
FailuresExplained == [][FailureExplained]_vars

(***************************************************************************)
(* What the docs say of the pipeline and concurrent requests refute.       *)
(***************************************************************************)

(* "the DB never holds an extraction without its derived canonical rows"   *)
(* (routers/wcs_sources.py): the active extraction of a source has rows.   *)
NeverWithoutDerivedRows ==
    \A e \in active :
        \E h \in Handlers, I \in SUBSET inputs :
            Batch(extraction[e], h, e, I) \subseteq canonical

(* "Existing canonical rows for the source are deleted before              *)
(* re-composition (DELETE THEN INSERT pattern)" (wcs_composition.py): a    *)
(* table holds the rows of one composition of a source, not of two.        *)
OneCompositionPerTable ==
    \A r, q \in canonical : r.source = q.source /\ r.table = q.table => r.by = q.by
=============================================================================
