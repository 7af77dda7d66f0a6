# A verification project for deejay-marvel-api

The repository is a FastAPI service over one Postgres database. It stores DJ sets and the
catalog of songs they play, West Coast Swing (WCS) lesson transcripts and the knowledge
derived from them, and answers questions about that material with a tool-using agent. This
directory holds TLA+ modules that model the parts of it with state of their own to get wrong,
TLC configurations that check them on small instances, and theorems that TLAPS proves for
every instance.

Paths below are relative to `src/kaianolevine_api/` unless they start with `scripts/`,
`migrations/` or `docs/`.

## The system

### How it runs

One process serves all requests on one asyncio event loop. `database.py` gives each request a
session of its own (`get_db_session`, no autoflush, nothing expires on commit), so a request is
one handler with one transaction that interleaves with the others at every `await`. Postgres
runs at READ COMMITTED: each statement has its own snapshot of what is committed, plus what the
transaction has written itself; a statement that needs a row or a unique key another open
transaction holds waits for it, and then re-examines the rows it had found, without looking for
new ones. A transaction on a cycle of waits is aborted. An exception, a restart or a lost
connection rolls the transaction back. Components interact through the tables only: there is no
queue, cache or lock in the process that two requests share.

Before the API process starts, every deploy runs `scripts/apply_migrations.py` (railway.json);
the platform starts it again when it fails, and two deploys may overlap.

### Components

| Component | State | Operations | What is hard | Correct when |
|---|---|---|---|---|
| WCS pipeline (`routers/wcs_sources.py`, `routers/wcs_admin.py`, `create_transcript` of `routers/wcs_notes.py`, `services/wcs_sources.py`, `services/wcs_composition.py`, `services/wcs_admin.py`) | transcripts, sources, extractions with one active per source, corrections, additions, entities, six canonical tables | post a transcript, ingest a source, recompose, correct, add, relate | every write ends in `compose_source`, which reads, deletes six tables, resolves or creates entities and inserts, with nothing locked first | a source has one active extraction; its canonical rows are those of a whole composition, traceable, and current; history stays |
| Migration runner (`scripts/apply_migrations.py`) | `schema_migrations`, an advisory lock | bootstrap, apply, record, release | overlapping deploys, kills between a body and its row, bootstrap left on | each migration once, in order; the API starts on a complete schema; the lock always comes free |
| Set ingest (`routers/ingest.py`, `services/reconciliation.py`, `patch_catalog` of `routers/catalog.py`) | sets, tracks, catalog entries with counts and confidence | ingest or re-ingest a set, patch an entry | read-modify-write in the session's memory, unique keys found out at flush, flush order | one set per file; nothing a 200 claimed is missing; counts and confidence follow the plays |
| Identity (`auth.py`, `identity_registry.py`, `routers/wcs_auth.py`, the lifespan of `main.py`) | issuers, principals, roles, profiles | verify, resolve, authorise; provision a person; patch a profile; reconcile the registry at boot | profile and principal in two transactions, both looked up and then inserted; two images boot at once | a person whom the ecosystem knows holds the one role it was provisioned with; a boot applies its registry to machines and touches nobody else |
| Q&A agent (`agents/wcs_qa/`, `routers/wcs_qa.py`) | one conversation: messages, tokens, tool calls | model calls, tool dispatch, exhaustion call, corrective retry, citation enrichment | two budgets checked before calls that may pass them; the retry path | every tool call is answered; spend is bounded; only visible notes and own transcripts are cited |
| Embedding convergence (`retrieval/wcs/`) | note embeddings, transcript chunks | refresh, chunk, query | rows deleted before an await and inserted after it; content read before the await | a quiet refresh makes every row current; a second one does nothing |
| Evaluations (`routers/evaluations.py`, `routers/webhook.py`) | evaluation rows | insert, list the latest runs by pages | ties, missing run ids, redelivery, late commits | a run is listed whole or not at all; a walk through the pages repeats and skips nothing |
| Visibility (`services/wcs_access.py`, `services/wcs_source_visibility.py`) | grants, default visibility | a predicate used by lists, reads and citations | the same rule in several queries, the ids read before the rows | all forms of the rule agree; what is read under it was visible |
| Wiki views (`routers/wcs_wiki.py`, `services/wcs_wiki.py`) | none | views of an entity, an instructor, a source; lists; export; gap finders | one SELECT after another, each with its own snapshot, while sources are composed, hidden and shown | what is shown of an untouched source is whole; the export is closed |
| Live plays, Spotify (`routers/live_plays.py`, `routers/spotify.py`) | plays, playlists | insert if new, upsert on a changed snapshot | repeated, overlapping and reordered delivery | nothing is stored twice; each delivery's counts and snapshots are true at its commit |
| Flags (`routers/flags.py`, `services/flags.py`) | flag rows | read, patch | flips while a request is between check and commit | a disabled ingest is refused |
| Other views, contact, shell (`routers/sets.py`, `tracks.py`, `stats.py`, `resume.py`, `contact.py`, `main.py`, `config.py`, `schemas.py`, `models.py`) | none | selections, formatting, one outgoing mail, wiring | - | - |

`PROJECT.json` lists the hazards of this code line by line, with the properties that cover each.

## What is modelled

### WcsPipeline

The state is the tables (`transcript`, `sources`, `extraction`, `active`, `inputs`, `entities`,
`canonical`) and, per handler, the request it serves, the statement it is at, its uncommitted
writes (`txn`) and its local variables (`work`). A row's uuid is the handler that inserted it,
since a request inserts at most one source, extraction, correction or addition; columns that
never change are read off that request.

One action is one database statement (or a run of Python between two):

| Code | Actions |
|---|---|
| `create_transcript` | `FindTranscript`, `InsertTranscript`, `Demote`, `DemoteWait`, `Commit` |
| `ingest_source` | `GetTranscript`, `CreateSource` or `ReuseSource`, `SaveSource`, `Demote`, `DemoteWait`, `InsertExtraction`, then composition, `Commit` |
| admin endpoints | `GetSource` (recompose), `StoreInput` (corrections and additions), then composition of each queued source, `Commit` |
| `compose_source` | `ReadExtraction`, `ReadInputs`, `Delete`, `DeleteWait` per table, `Resolve`, `CreateEntity` per name, `ApplyAdditions` |
| Postgres and the process | `BlockedBy`, `BreakDeadlock`, `Crash` |

`Commit` publishes `txn`; `EndWith` is any end without a commit. The two waits matter: the
UPDATE that demotes and the DELETEs that clear a table find their rows in a snapshot, wait for
whoever holds one, and keep those that still match.

Abstracted: the six canonical tables are `Tables` tables (two in the runs: the order of deletes
and a composition spread over several tables is what counts); a composition's rows in one table
are one record saying who wrote it from which extraction and inputs; payloads are the sequence
of names they resolve and the tables they fill, instructors among the names; an alias and the
slug it stands for are one name; the five selects of inputs are one step. Texts, titles, prose
and positions are left out. The select of corrections has no ORDER BY: of several that match,
any may win.

`Resolve` leaves out that an entity which comes with an `external_origin` has that column updated
(`wcs_composition.py:432`): one more row lock, on a column that composition never reads.

Not modelled: name corrections (one of a source composes it at once, a global one waits for the
next composition; `resolve_instructor` looks them up for each name), metadata corrections (which
patch the source and compose it), merged entities, the clearing of `source_id` when a source is
deleted (no endpoint deletes one).

### CanonicalLayer

What the pipeline promises of the rows it derives, without the statements, waits and failures it
takes. The state is the stored extractions with the tables they write, the given inputs, and the
canonical rows. The only action is `Publish`: extractions and inputs are added; in some sources
a whole composition by the publishing transaction appears, and whatever else is there was there
before; an extraction is stored only with a composition of its source. "Whatever else was
there" is what the code does when compositions overlap (see `pipeline_twice`); "a stored
extraction" and not "the active one" is what it does in `pipeline_stale`. `WcsPipeline`
implements it with `Layer == INSTANCE CanonicalLayer WITH ...`: the extractions, inputs and
rows that are committed. The writers of `WikiViews` implement it too.

### SetIngest

Sets, tracks, one catalog entry per (title, artist), and per handler its session: the entries it
loaded, the columns it changed, the rows it has locked and inserted. `FindSet`, `InsertSet` (with
the caught violation), `ReadOrders`, `LoadCatalog`, one of `SkipTrack`, `LinkTrack`, `NewTrack`
per track, `FlushUpdate`, `InsertCatalog`, `FlushDone`, `Commit`; `LoadEntry` for the patch. A set
that is found comes with its tracks and their entries (`lazy="selectin"`), and an entry once loaded
is not read again: what a re-ingest knows of a catalog entry may be as old as `FindSet` (`Found`). The
unit of work is modelled as SQLAlchemy runs it: assignments stay in memory until a flush, the
flush sends UPDATEs in primary key order and then the INSERT, an UPDATE carries absolute values
of the columns that changed, and commit applies those columns only. `overlap` is a history
variable: some properties are claimed only as long as requests have not overlapped, and say so.

Left out: `release_year` (filled like genre, decides nothing), dates, labels, the counts in the
response, `data_quality`. A catalog key is a model value: normalisation is a library's.

### MigrationRunner

The advisory lock, the tracking table, how often each body has taken effect, and per runner its
step, its pending files and its exit code. Each statement of `_run`, `_bootstrap` and
`_apply_one` is an action; `StepFails` is an exception in any of them, `Crash` a kill anywhere.
A notransaction body and its row are two actions, as they are two transactions. `Deployed` is
what the schema held before the runner was introduced, and `Excluded` what bootstrap leaves.

### Identity

`POST /v1/wcs/me`, the admin's patch of a profile, and the reconciliation that every boot runs.
Requests and boots are both actors with one session; the state is the profiles, the principals,
their role rows with who granted them, and per actor its statement, its uncommitted writes and
its local variables.

| Code | Actions |
|---|---|
| `verify_bearer`, `require_scope` | `VerifyBearer` (external: accepts or not), `RequireScope` |
| `upsert_wcs_me` | `FindProfile`, `SaveProfile` (insert or set, and the first commit) |
| `provision_human` | `Resolve`, `InsertPrincipal`, `GrantDefault` (with the second commit) |
| the patch of a profile | `PatchProfile`, `SaveFlag` |
| `reconcile` | `FindPrincipal`, `InsertPrincipal`, `ReadRoles`, `Grant`, `EndGrants`, `Revoke`, `EndRevokes`, `Sweep`, `EndSweep`, `Commit`: all in one transaction, by a session of its own that flushes before each query |
| an operator; Postgres, the process | `HandGrant`; `BreakDeadlock`, `Crash` |

`alone` is a history variable: the actors nobody has overlapped. A workload also says what the
migrations have left in the store: which role names exist, and whether the two issuers have a row.
Left out: tokens and their claims (a library's), names and addresses, `emit_audit` (a sink outside
the transaction).

### MachineFeeds

What machines push: evaluation findings, flow states (the webhook), live plays behind their flag,
playlist snapshots; and the walk of a reader through `GET /v1/evaluations`. Several handlers of a
workload carry the same message, because senders post again what was not answered.

| Code | Actions |
|---|---|
| `create_evaluation`, `prefect_webhook` | `Store`, with `now()` of the start of the transaction |
| `list_evaluations` | `Count` and `Page` in turn, `EndWalk`; `Eligible` is the subquery of the latest runs, `Listed` adds the filters, `Orders` the ORDER BY |
| `ingest_live_plays` | `ReadFlag`, `InsertPlay` (ON CONFLICT DO NOTHING) per play, `CommitPlays` |
| `patch_flag` | `FindFlag`, `SaveFlag` |
| `ingest_spotify_playlists` | `Upsert` (DO UPDATE where the snapshot is distinct) per item, `CommitPlaylists` |
| Postgres, the process, the clock | `BreakDeadlock`, `Crash`, `Tick` |

A uuid is a number, since ids are compared when timestamps tie; a play is its unique key. Dates
that no comparison uses, texts and the severity summary are left out.

### WikiViews

A reader asks one thing and sends its SELECTs one by one; writers commit in between. The writers
are `Ingest`, `GiveInput`, `Recompose` (publications of `CanonicalLayer`, each with any extraction
and inputs, and with any old rows kept, as overlapping compositions may), `PatchVisibility` and
`ChangeGrant`.

| Code | Actions |
|---|---|
| `get_entity_view`, `get_instructor_view` | `Find`, `ReadVisible`, `ReadTable` per table, `EndTables` |
| `get_source_view`, for a user or the admin | `Find`, `ReadVisible` (the former), `ReadTable` per table, `EndTables` |
| `list_sources`, `list_all_sources` | `ReadVisible` (the former), `Count`, `ReadSources` |
| `export_wiki_corpus` | `ReadSources`, `ReadTable` per table, `EndTables`, `ReadEntities` |
| `list_uncomposed_sources` | one SELECT: `Uncomposed` is its result in every state |

`since` is what was visible to the reader, published and created since it began. `Order` is the
order of a view's selects, `Filtered` the tables a view of an entity limits to visible sources:
the relations are not, and the model keeps that. The instructors a source is taught by are fixed
(`Taught`); merges of entities and pages are left out. `Uncomposed` leaves out the join of the gap
finder with the active extraction, and so admits more sources than the query returns.

### NoteAccess and QaAgent

`NoteAccess` is who may see a (legacy) note: the viewer's profile, the notes shown by default, the
viewer's grants, and one action per endpoint of `routers/wcs_auth.py` that changes them. The
visibility rule is in the code twice, as the predicate `user_can_see_note` (`Sees`) and as the
clause `_build_visibility_clause` (`Searchable`), and so it is here.

`QaAgent` extends it with one ask: `run_agent` as a state machine over `pc`, one action per call
of the model and per tool_use.

| Code | Actions |
|---|---|
| the checks at the head of the loop | `OverBudget`, `Exhaust` |
| a call in the loop, by its stop reason | `AskForTools`, `AskForAnswer` |
| a tool_use block | `RefuseTool` beyond the cap; `RunTool`, a `NoteTool` or a `TranscriptTool`; `ToolsDone` sends the results |
| the exhaustion turn, the corrective retry | `FinalTurn`, `Retry`, `RetryRefused` |
| `enrich_citations`, the return | `Enrich` per entry, by `NoteResolves` or `ChunkResolves`; `Finish` |
| other requests; exceptions and restarts | `OthersChange`; `Fail` |

The model behind the API is external: every answer is possible, a text is only whether its citation
block parses and which notes and transcripts it cites, hidden ones and other owners' included. What
the API requires of a conversation, that every tool_use has its result, is the guard of `CallModel`.
One session serves the ask and, with nothing expired on commit, its identity map keeps rows it has
loaded for as long as they are referenced: `attrs` and `roles` are what the default visibility and
the profile have been since the ask began, and a read may return any of them; grants are always
selected afresh. `sighted` is what the viewer could see at some time since then.

Notes are reached in two ways, and the code guards them differently. The note tools and the citations
of notes ask `user_can_see_note`. The transcript tools (`retrieval/wcs/tools.py:157`, `:256`) and the
citations of chunks (`agents/wcs_qa/citations.py:344`) ask only whether the transcript is the
viewer's own, and then give the title, people, date and link of a note made from it, whoever may see
that note; `docs/wcs-qa-agent.md` and the tests describe it so. The module keeps the two apart:
`revealed` and the notes in `cited` were shown as notes, `labelled` are those of which such a label
was given. `MadeFrom` are the notes of some transcripts, `owned` the viewer's transcripts (fixed
during an ask), `SoleNote` the rule of the window tool and of citations that a transcript of several
notes labels none.

Left out: notes made while an ask runs, snippets, prompts, prices. Input and output tokens are one
number, as in the loop.

### EmbeddingConvergence

`POST /v1/wcs/embeddings/refresh` as statements of Postgres. The state is the sources (notes,
transcripts), the index `rows` as committed, and per handler what it has read, what is pending
(`queue`, `batch`), what its current statement has left (`todo`) and which keys its transaction
holds (`deleted`, `inserted`).

| Code | Actions |
|---|---|
| `_converge_notes` | `ReadNotes`, `CompareNotes`, `Embedded` (then the DELETE), `DeleteRow`, `Deleted`, `InsertRow`, `Commit`: all pending notes in one transaction |
| `_converge_transcripts` | `ReadTranscripts`, `ReadTitle` each, `CompareTranscripts`, then per transcript `NextTranscript` (the DELETE), `DeleteRow`, `Deleted`, `Embedded`, `InsertRow`, `Commit` |
| `chunk_transcript` | `Indices`, `Start`, `End` |
| endpoints that change sources | `CreateNote`, `PatchNote`, `PostTranscript` |
| Postgres, the embedder, the process | `Free`, `UniqueViolation`, `BreakDeadlock`, `Fail` |

The order differs between the two: notes are embedded before their rows are deleted, chunks after,
with the deleted rows held while the embedder is awaited. A row says what it was computed from
(`vector`), under which hash (`sha`) and which tokens it covers, so that "the hash matches" and
"the vector is current" are two things. A note's flattened text is its title; offsets count
tokens, not characters; the configuration is fixed. `quiet` is history.

## What is checked

| Run | Instance | Shows |
|---|---|---|
| `pipeline` | three workloads of 4 requests: of every kind, one in flight; composers over a first and second ingest, 3 in flight; 3 ingests of one transcript and its re-post, 3 in flight | every step is a publication of `CanonicalLayer` or none; one active extraction per source; history stays; every row is traceable; and where nothing overlaps, the rows of a source are exactly its composition with every input due, one source per transcript, a 500 has a reason in the input; every request ends |
| `pipeline_stale` | recompose overlapping an ingest | refutes "the DB never holds an extraction without its derived canonical rows" |
| `pipeline_twice` | two overlapping recomposes | refutes "existing canonical rows for the source are deleted before re-composition" |
| `views` | one reader with seven requests; three writers; one user, two tables | what is shown was visible since the read began; an untouched source is shown whole; totals match items; the export is closed |
| `identity` | sign-ins of one person with two admins' patches, 3 at once; boots of overlapping declarations, 2 at once, with two grants by hand; a store without issuers | one role per known person; admins are made by admins; a boot touches machines and its own grants only; an undisturbed boot applies its declaration; everything ends |
| `feeds` | findings of two runs and none with a walk by pages of one or more, 2 at once; plays and playlists in opposite orders with the flag, 3 at once | runs are listed whole; a finding is hidden only by a later run; a quiet walk is complete; nothing stored twice, counts and snapshots true at each commit; every delivery ends |
| `migrations` | 3 deploys of 2 images, 4 files, one of each hard kind | transactional files once; a notransaction file again only after a stop; the API starts migrated; in order; every runner ends |
| `set_ingest` | 3 requests on one file, an empty file name and two songs | an ingest answered 200 has one set with a track at every play order of the payload (not always the payload's own: what was stored stays, and of several at one order one is enough); counts never exceed plays; one at a time, counts are exact and re-ingest adds nothing twice; every request ends |
| `set_ingest_overlap` | the same | refutes "number of plays recorded" under overlap |
| `qa_agent` | one ask over a note and the transcript it was made from, which is the viewer's or another's; 3 changes of access | however the model answers: tools, calls and tokens keep their real bounds; every tool_use is answered; the note tools and citations of notes show only notes sighted since the ask began; of other notes only the label is given, and only with the viewer's own transcript; transcripts cited are the viewer's own; answer and citations are of one text; the two visibility rules agree; every ask ends |
| `qa_limit` | the same, default and limit equal | refutes "a request can never exceed this" |
| `embeddings` | 3 refreshes, 2 in flight, one edit; 2 notes of a transcript of 0, 1 or 2 windows | chunks of a transcript are all windows of one text under one hash; they go only with the commit of a refresh at that transcript that read an empty text; a quiet refresh leaves everything current, whatever came before, and embeds only what is out of date; every refresh is answered |

`views` is the largest with 1.8 million distinct states in about two minutes; `qa_agent` has a
million, `pipeline` 277,000, `feeds` 204,000, `identity` 128,000, `embeddings` 86,000, `set_ingest`
23,000, `migrations` 15,000. Type invariants are not among the properties of the runs: they are
theorems, and the inductive invariants of the proofs were checked on these instances before they were
proved.

### Bounds

Each handler serves one request, so the number of handlers bounds the requests of a behaviour, and
`MaxInFlight` how many overlap. Four requests are enough for a first ingest, a second one and two
composers over it; three in flight give every pair of kinds with a third interfering, and cycles of
three transactions. Two canonical tables show a composition between its first and last delete, and an
export between its first and last read. Two songs in both orders make the deadlock and the create
race of the catalog; three ingests make confidence reach its highest level. Two images and three
deploys give a bootstrap, a later image, and a third deploy that finds what the others left. For the
agent, a tool cap of two and answers with up to two tool_use blocks let one answer cross the cap; a
token cap of three and calls of up to two tokens let a call land on the cap or pass it. One note and
three changes (say a profile, a grant and a withdrawal) give every mix of stale and fresh reads of
one note, and notes interact only through a transcript of several, which then labels fewer. For the
index, two refreshes with an edit between their reads hold different texts of one transcript, in
either order of commit, and a third runs after them or overlaps the second; the transcript goes from
two windows to none, one or two, and a second note makes its title ambiguous. A text of two windows
is enough for a mixture and for a deadlock.

For identities, one person is new and one an admin; two sign-ins race while the admin sets the
flag and resets it, so that the flag changes between the two transactions of each; the two
machines are declared in opposite orders (a deadlock), by one image and not by the next (the
sweep), and with a role nobody knows (the skip). Two grants by hand meet each declaration. For
feeds, the clock takes two values: rows tie or do not; a delivery that started first may commit
last. Three findings of one repo fill three pages of the walk. Readers of the wiki do not
interact, so one is enough; three writers are a first ingest, then an input or an ingest of the
same or another source, then an input or a recompose, at any of the reader's statements.

No run uses symmetry: the requests of the handlers differ. Deadlock is checked in every run but
`views`; `Quiet` is the state in which all requests, boots or deploys, or the ask, have ended. In
`views` the reader answers and the ids of writers run out.

### Fairness

`WF` on a handler's `Step` or `BreakDeadlock`: the event loop resumes every handler whose statement
has returned, and Postgres looks for deadlocks after a second of waiting. `WF` on a runner's `Step`:
a started script runs on, and Postgres grants the advisory lock when it is free. The same holds of a
refresh, whose embedder answers or raises. In the migration model a lock is enough of a wait for weak
fairness because each runner takes it once. `WF` on the agent's `Step`, which leaves out `Fail`:
calls and queries end, and the event loop goes on. Identity's actors and the deliveries of
MachineFeeds are handlers of the first kind. WikiViews states none and has no liveness property: a
view is a fixed sequence of selects that wait for nobody. Nothing obliges a request to arrive, a
deploy to happen, or anything to crash.

### What the refutations mean

Each of the four violation runs ends in a state the documentation excludes, in a few steps two
overlapping requests or deploys, or one ask, can take:

1. **Stale composition** (`pipeline_stale`). A recompose reads the active extraction, an ingest
   demotes it, composes and commits, the recompose deletes the new rows and writes the old ones.
   The active extraction has no rows until somebody composes again. `CanonicalCurrent`, the same
   promise with nobody else in flight, holds.
2. **Two compositions** (`pipeline_twice`). The second recompose's DELETE waits for the first's
   and misses its inserts: both compositions' rows stay. `CanonicalLayerKept` still holds: rows
   are duplicated, never lost.
3. **Lost count** (`set_ingest_overlap`). Two overlapping ingests of one song add one to the same
   count they both read. `PlayCountAccounted` bounds the damage: a count is never above the
   number of tracks and never zero.
4. **Spend beyond the limit** (`qa_limit`). The cap is compared with what has been spent, before a
   call. The call that passes it, the exhaustion turn and the corrective retry are all paid in
   addition. `BudgetKept` is what does hold: fewer tokens than the cap and three calls together.

Others were met while modelling and have no run, because what the repository says of them is not
precise enough to be refuted, or because the run budget is better spent:

- `RefreshSummary.transcripts_embedded` counts "transcripts that were re-chunked and
  re-embedded", but a transcript without tokens stores no hash, is pending on every refresh and
  counted each time although nothing is embedded (`convergence.py:284`, `:317`).
- `docs/wcs-qa-agent.md:95` says the API strips the citation block from every answer, but when
  the retry's block does not parse either, its text is returned as it is.
- With `BOOTSTRAP` left on, the next deploy marks the new image's migrations as applied without
  running them; a single bootstrap is sound (`migrations`).
- Two overlapping first ingests of one transcript make two sources (`CREATE` after a lookup with
  no constraint between): `OneSourcePerTranscript` is claimed only where nothing overlaps.
- Boots of an old and a new image that overlap may leave a revocation unapplied, or remove by key
  a grant made by hand in between (`identity_registry.py:262`): `QuietBootApplies` and the last
  clause of `BootTouchesOnlyItsOwn` are claimed of boots nobody overlapped.
- A redelivered older playlist snapshot overwrites a newer one: snapshots are compared for
  difference, not for age. A redelivered webhook stores its finding again; `ShownUntilOutrun`
  is what keeps that from hiding anything but its own run's predecessors.
- A finding without a source joins with nothing in the subquery of the latest runs and is never
  listed.
- The export is not a snapshot: a source composed while it is read may appear with rows of two
  compositions, or with some of them; and the relations in the view of an entity are not
  limited to visible sources, although attributions and the other tables are.

## What is proved

Every safety property and every action property of the passing runs is a theorem, for every value
of the constants that meets the named assumptions of its module. TLC evaluates those assumptions
in the runs. Most say of which kind a constant is; these say more:

- `NoOneAssumption`, `NoneAssumption` and `AbsentAssumption`: the value that stands for "no row" is not
  equal to a row either, which no kind of value can say by itself;
- `HandGrantsAssumption`: a grant made by hand is of a known principal and role, as the foreign
  keys of the table require;
- `DeclarationAssumption`: a registry declares a machine once ("the name is the whole identity");
- `SeedAssumption`: a store that has the issuer of people has the two roles that provisioning grants
  (migration 023 inserts both, nothing deletes them), so the foreign key of a grant never fails;
- `ConvergenceAssumption` asks for a longest text, as a column of text has one, and for windows that
  overlap by less than their size, which `chunk_transcript` needs to advance.

The pattern is the same in each module: what a handler's label says of its request and its local
variables is added to `TypeOK`, which by itself is not inductive; then comes what its transaction
holds and whom that excludes; and on top of both the invariant of the property. Steps are first
classified by the few ways in which they change what the invariant is about (`StepCases` and
the like), so that each argument is made once and not once per action.

**WcsPipeline** (`WcsPipelineProofs`). `IType` strengthens `TypeOK` by what a handler's label says of
its request (`RequestAt`) and of its composition (`ComposedAt`), and by what requests the rows come
from (`RowsOfRequests`). `OneActive` needs three more conjuncts (`IOne`): a promotion exists only from
`insert_extraction` on (`PromotedLate`); no two handlers hold one for one source (`OnePromotion`,
the unique key); and whoever holds one has demoted every extraction of the source that is active
in the committed state (`PromotedDemotesAll`), which survives other commits because those who could
add an active extraction would hold a promotion too. `HistoryIsKept` follows.

`IBuilt` says of each open transaction what it has written so far: for every source it is done
with, the rows it adds are a whole composition of an extraction and inputs that are committed or
its own (`Finished`); the source at the head of its queue has had deletes only (`HeadKept`); the
others it has not touched (`Untouched`). At the commit the queue is empty, so `CommitPublishes`: a
commit is one publication of `CanonicalLayer`, every other step is a stutter. That is
`PipelineKeepsLayer`, the refinement, with the requests, statements, waits and crashes of the
pipeline on one side and one atomic step on the other. `RowsAreTraceable` follows from the same
invariant, and so does `PipelineIsWhole`, the layer's promise in the pipeline's own state.

Three properties are claimed only while requests are served one at a time. `ISerial` holds always
and speaks of that case: nobody else is in flight (`Alone`), so what a statement has found still
holds when the next one acts on it (`Checked`), and every source a handler is done with has either
its whole composition of what is now due, or had no reason to change (`Underway`). `RowsAreCurrent`,
`SourcesAreUnique` and `FailuresAreExplained` follow; the `pipeline_stale` and `pipeline_twice` runs
show that the first of them needs its condition.

**CanonicalLayer and WikiViews** (`WikiViewsProofs`). `LayerInv` (types, `LayerTraceable`,
`LayerWhole`) is inductive: what is stored composes to the same rows for ever (`CompositionKept`), so
a composition that is complete stays complete until a publication replaces it by another.
`LayerIsWhole` states it of the layer. `WriteStep` shows that each writer of the views publishes, so
that `LayerStep` carries the invariant over, and `ViewsPublish` that the whole implements
`CanonicalLayer`. Of a write, readers need only its `Effect`: in which sources it published, that
sources and entities never leave, and that the histories are kept. `ReaderInv` then says of each
reader, at each of its statements, which request it serves (`Asks`), that the ids it holds were
visible since it began and what it has read is filtered by them (`Sighted`), that an export's rows
stand in its sources and name entities that exist (`Closed`), and that of each source nobody
published in it has read exactly the rows of the tables that come first (`Thorough`). `ShownVisible`,
`ExportIsClosed` and `ViewsAreWhole` follow; `UncomposedTrue` follows from the layer alone.

**Identity** (`IdentityProofs`). `IHeld` says what a transaction holds (`HoldsOnly`: a sign-in its
own principal; a boot machines, and grants the registry made or, by key, those it found stale) and
that nobody else holds or has committed it (`Exclusive`: unique keys, by waiting).
`BootKeepsItsLimits` adds `IAlone`, what a boot nobody has overlapped knows of the store: without it
a grant made by hand may sit at a key the boot read as its own. `IPeople` adds, of each person, that
a principal made by a sign-in has exactly one grant of provisioning, and where an admin flag that a
sign-in has read came from, also when the flag has been reset since: `PeopleHoldOneRole` and
`OnlyAdminsMakeAdmins`. `IBoots` follows a boot that nobody has overlapped through its declaration
(`Progress`), in what its transaction sees: the entries behind it are `Applied`; the one it is at
lacks the roles still missing and has in excess the grants still stale (`AtEntry`); and in the sweep
at the end, what the registry still holds of a machine that is not declared is of one to do, or stale
(`Sweeps`). A stale grant goes by its key: that no entry behind loses a row with it is
`DeclarationAssumption`, each entry being the only one of its machine. That the sweep meets every
machine with a grant needs `HasPrincipals`, the foreign key of grants. At the commit all entries are
behind and nothing is to do: `QuietBoots`.

**SetIngest** (`SetIngestProofs`). `ISession` types what a session has loaded, changed and locked;
`IFiles` says that the set of an ingest is its own and nobody else's, or a committed one of its file;
`ICovers` that a track it has passed is stored or among its rows, so that a 200 means all are
(`AnsweredIngests`). `ISerial` is about re-ingests with nobody in between (`SerialReingest`). `ICounts`
relates four numbers: the committed count, the one a session holds, the committed rows of the
entry and the rows the session has added. A held count may lag behind the committed one, and is
then written back over it, but it never exceeds the rows committed by then plus the session's
own; before any overlap it equals them (`PlayCounts`).

**MachineFeeds** (`MachineFeedsProofs`). `ListsWholeRuns` and `ListedUntilOutrun` need little of the
state: ids are unique, and only `Store` adds a finding; the work is in lemmas on what the list of a
set of findings contains when one more is stored. `QuietWalks` rests on `Reading`: in every order
that the list may have, the pages read so far are its beginning, whatever page size and total. It
needs that an order by time and id is total, so that all orders are one. `StoredOnce` rests on
`OneRowPerPlay` (a play is stored or in one transaction, never both or two) and on the counters of a
delivery being those of what it has inserted and met.

**EmbeddingConvergence** (`EmbeddingConvergenceProofs`). `IWork` is what a refresh does at each label
and what it has read. `ChunksAreWhole` needs, beside the property itself (`WholeOf`), that open
transactions hold disjoint rows (`Apart`) and what a refresh has of the transcript whose chunks it
replaces (`Grasp`): it has marked for deletion every chunk there is, or it has been overtaken, its
DELETE having waited for rows that another refresh then replaced. It has then marked none, and cannot
commit a chunk: the key of the first one, which every text with tokens has, is taken, and the INSERT
ends in a unique violation. `ChunksStay` follows: only a commit takes chunks away, those of the
transcript in its batch, and it leaves others unless the text it has read has no tokens.
`QuietRefreshes` needs the whole of `UpToDate`: of a refresh that runs alone, which notes and
transcripts still differ from what is due, that those are exactly its queue and its batch, and that
the one hash it compares of a transcript stands for all its chunks, which is `WholeOf` again.

**MigrationRunner** (`MigrationRunnerProofs`). `TypeOK` is not inductive: `Record` adds `current[r]`
to the table, so it has to be known to be a file. `IInv` adds that pending files are of the image and
that the file being recorded is a notransaction one (`PendingOfImage`), that what a runner no longer
regards as pending is on record (`PendingSettled`), that whoever is past `pg_advisory_lock` holds it
(`LockExcludes`), and `TransactionalOnce` itself. From it: `TypeCorrect`, `OneRunnerAtATime`,
`MigratedOnce`, `ApiStartsMigrated` and, as an action property, `MigratedInOrder`. Rows of the
tracking table are never removed, so a runner's knowledge of them stays true without the lock; the
lock is needed for "at most once". `RerunsPaidFor` counts: a file runs once more than runners have
stopped with it only while its row is there or about to be written (`Reruns`), and a runner regards a
file as pending only while it has no row (`Unrecorded`), again because of the lock.

**QaAgent** (`QaAgentProofs`). Three inductive invariants, one per concern, from which the five safety
properties follow. `Spending`: every call of the loop is paid for by a tool call made or still to
handle, so calls stay within the tool cap; inside the loop tokens are less than one call beyond
their cap, before the retry less than two. `Sighting`: whatever the visibility column or the profile
has been since the ask began, the viewer could then see what it allows, so that a decision made on
stale columns and a fresh grant lets through only sighted notes; it rests on `GrantHasProfile`, which
also gives `VisibilityRulesAgree`. Of the transcript tools and chunk citations it says what they do
check: labels are of notes made from the viewer's own transcripts, and no other transcript is cited.
`AgentShowsSighted` states both. `Answering`: while citations are looked up, those to do and those
done are the ones of the text to be returned.

**Only model-checked.** Liveness (`EveryRequestEnds` of two modules, `EveryRunnerEnds`,
`EveryActorEnds`, `EveryDeliveryEnds`, `AskEnds`, `EveryRefreshEnds`): fairness and ENABLED are out
of the prover's reach. The four refutations are counterexamples and need no proof.

## Not modelled

- **Contact form** (`routers/contact.py`): it validates a submission and forwards it to external
  services; it keeps no state.
- **Verification of tokens** (`auth.py`): a library's; an accepted credential is a choice.
- **Name and metadata corrections, merged entities** (`services/wcs_admin.py`): they need the names
  of a source as data and entities with two states, in a module that is at the limit of what
  its run can explore.
- **Searches** (`retrieval/wcs/queries.py`): a vector index ranks; the clause that limits them to
  visible notes is in `NoteAccess`.
- **Notes made from a transcript while an ask runs**: `MadeFrom` is fixed during an ask.
- **Lists of entities, sets, tracks, catalog entries, flags; statistics, resume**: single selects.
- **Settings, schemas, wiring** (`config.py`, `schemas.py`, most of `main.py`): no behaviour of
  their own; constraints of `models.py` and the session discipline of `database.py` are part of
  every module.

## Plan

What the project has was built in this order: the pipeline, the migration runner and the set
ingest; the agent under changing access; the index; then `CanonicalLayer` as the pipeline's
abstract specification, `Identity`, `MachineFeeds`, and `WikiViews`, which reads what the layer
promises; then the proofs, of all of them. What would add most next:

1. Name and metadata corrections beside `WcsPipeline`.
2. That the windows of the chunker cover every text, as a lemma on `Indices`, `Start` and `End`.

Runs stay few: one per component for what holds, and a refuting run only where the repository says
something the code does not do.
