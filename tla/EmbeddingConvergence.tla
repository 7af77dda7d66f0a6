------------------------ MODULE EmbeddingConvergence ------------------------
(***************************************************************************)
(* POST /v1/wcs/embeddings/refresh: refresh_embeddings brings the vector   *)
(* index up to date with notes and transcripts that change meanwhile, and  *)
(* with other refreshes.                                                   *)
(*                                                                         *)
(* Notes are embedded first and then replaced, all in one transaction; of  *)
(* each transcript the chunks are deleted, then embedded, then inserted,   *)
(* in a transaction of its own.  The index is one table of rows under keys *)
(* <<source, chunk index>>, a note being one row.  The configuration (the  *)
(* model and the two versions) is part of every key and does not change.   *)
(*                                                                         *)
(* Statements are as in Postgres at READ COMMITTED: a DELETE finds its     *)
(* rows in a snapshot, waits for those another transaction holds, and      *)
(* leaves out those that are gone by then; an INSERT waits for who holds   *)
(* its key; SQLAlchemy sends the INSERTs when it commits.  A vector is the *)
(* content it was computed from, and so is a content_sha: hashes are taken *)
(* not to collide.  Op_Fault is Op with a plausible bug, used by none.     *)
(***************************************************************************)
EXTENDS Integers, FiniteSets

CONSTANTS
    MaxRefreshes,           \* bound: how many refreshes are asked for
    Notes, Transcripts,     \* ids
    TranscriptOf,           \* a note's transcript_id
    Titles, Untitled,       \* what a note may contain; its title may be empty
    Texts, Tokens,          \* what a transcript may contain, and its tokens
    Filename,               \* the title of a transcript without one note
    CHUNK_SIZE, CHUNK_OVERLAP,
    Absent,                 \* of a source or a row: not there
    MaxEdits,               \* bound: how often sources change
    MaxInFlight             \* bound: refreshes at a time

ASSUME ConvergenceAssumption ==
    /\ MaxRefreshes \in Nat
    /\ TranscriptOf \in [Notes -> Transcripts]
    /\ Notes \cap Transcripts = {}
    /\ Untitled \in Titles /\ Filename \notin Titles
    /\ Absent \notin Titles \cup Texts
    /\ Tokens \in [Texts -> Nat]
    /\ \E longest \in Texts : \A x \in Texts : Tokens[x] <= Tokens[longest]
    /\ CHUNK_SIZE \in Nat /\ CHUNK_OVERLAP \in Nat /\ CHUNK_OVERLAP < CHUNK_SIZE
    /\ MaxEdits \in Nat /\ MaxInFlight \in Nat \ {0}

(* Handlers, one request each, numbered as the requests arrive.            *)
Refreshes == 1..MaxRefreshes

VARIABLES
    note, text,         \* the sources: contents, or Absent
    edits,
    rows,               \* the index, as committed
    pc,
    notesSeen, textsSeen, titlesSeen,   \* what the handler has read
    queue,              \* pending transcripts
    batch,              \* the sources of the transaction, all notes or one transcript
    todo,               \* keys its statement has still to do
    deleted, inserted,  \* keys its transaction has deleted and inserted
    answer,             \* the HTTP status
    quiet               \* history: nothing else happened since it began

sources == <<note, text, edits>>
seen == <<notesSeen, textsSeen, titlesSeen>>
work == <<queue, batch, todo, deleted, inserted>>
vars == <<sources, rows, pc, seen, work, answer, quiet>>

-----------------------------------------------------------------------------
(* Chunks.                                                                 *)

(* chunk_transcript: it goes on as long as a window ends before the text.  *)
Start(i) == i * (CHUNK_SIZE - CHUNK_OVERLAP)
End(i, n) == IF Start(i) + CHUNK_SIZE <= n THEN Start(i) + CHUNK_SIZE ELSE n
Indices(n) == {i \in 0..n : n > 0 /\ (i > 0 => End(i - 1, n) < n)}

MostTokens == CHOOSE n \in {Tokens[x] : x \in Texts} : \A x \in Texts : Tokens[x] <= n
Keys == (Notes \X {0}) \cup (Transcripts \X Indices(MostTokens))
KeysOf(source) == {k \in Keys : k[1] = source}

(* _resolve_transcript_title.                                              *)
TitleOf(t) ==
    LET linked == {n \in Notes : note[n] # Absent /\ TranscriptOf[n] = t}
        titles == {note[n] : n \in linked}
    IN IF Cardinality(linked) = 1 /\ titles # {Untitled}
       THEN CHOOSE title \in titles : TRUE
       ELSE Filename

(* What is hashed.                                                         *)
NoteSha(content) == <<content>>
TranscriptSha_OfText(title, content) == <<content>>
TranscriptSha(title, content) == <<title, content>>

(* A row: its hash, what its vector was computed from, and which window.   *)
NoteRow(content) ==
    [sha |-> NoteSha(content), vector |-> <<content>>, from |-> 0, to |-> 1]
ChunkRow(title, content, i) ==
    [sha |-> TranscriptSha(title, content), vector |-> <<title, content>>,
     from |-> Start(i), to |-> End(i, Tokens[content])]

NoteRows == {NoteRow(c) : c \in Titles}
ChunkRows ==
    {ChunkRow(title, x, i) : title \in Titles \cup {Filename}, x \in Texts,
                             i \in Indices(MostTokens)}

(* Absent is neither a row nor a hash.                                     *)
ASSUME AbsentAssumption ==
    /\ Absent \notin NoteRows \cup ChunkRows
    /\ Absent \notin (Titles \cup {Filename}) \X Texts

(* The index of what there is now: what a refresh is to arrive at.         *)
DueNow ==
    [k \in Keys |->
        IF k[1] \in Notes
        THEN IF note[k[1]] = Absent THEN Absent ELSE NoteRow(note[k[1]])
        ELSE IF text[k[1]] # Absent /\ k[2] \in Indices(Tokens[text[k[1]]])
             THEN ChunkRow(TitleOf(k[1]), text[k[1]], k[2])
             ELSE Absent]

Init ==
    /\ note \in [Notes -> Titles \cup {Absent}]
    /\ text \in [Transcripts -> Texts \cup {Absent}]
    /\ \A n \in Notes : text[TranscriptOf[n]] = Absent => note[n] = Absent
    /\ edits = 0
    /\ rows \in {[k \in Keys |-> Absent], DueNow}
    /\ pc = [h \in Refreshes |-> "idle"]
    /\ notesSeen = [h \in Refreshes |-> [n \in Notes |-> Absent]]
    /\ textsSeen = [h \in Refreshes |-> [t \in Transcripts |-> Absent]]
    /\ titlesSeen = [h \in Refreshes |-> [t \in Transcripts |-> Absent]]
    /\ queue = [h \in Refreshes |-> {}]
    /\ batch = [h \in Refreshes |-> {}]
    /\ todo = [h \in Refreshes |-> {}]
    /\ deleted = [h \in Refreshes |-> {}]
    /\ inserted = [h \in Refreshes |-> {}]
    /\ answer = [h \in Refreshes |-> "none"]
    /\ quiet = [h \in Refreshes |-> FALSE]

-----------------------------------------------------------------------------
(* Other requests change the sources.                                      *)

Edited ==
    /\ edits < MaxEdits
    /\ edits' = edits + 1
    /\ quiet' = [h \in Refreshes |-> FALSE]
    /\ UNCHANGED <<rows, pc, seen, work, answer>>

CreateNote(n, title) ==
    /\ note[n] = Absent /\ text[TranscriptOf[n]] # Absent
    /\ note' = [note EXCEPT ![n] = title]
    /\ UNCHANGED text
    /\ Edited

PatchNote(n, title) ==
    /\ note[n] # Absent
    /\ note' = [note EXCEPT ![n] = title]
    /\ UNCHANGED text
    /\ Edited

(* Created or replaced; what that does to extractions is in WcsPipeline.   *)
PostTranscript(t, content) ==
    /\ text' = [text EXCEPT ![t] = content]
    /\ UNCHANGED note
    /\ Edited

Edit ==
    \/ \E n \in Notes, title \in Titles : CreateNote(n, title) \/ PatchNote(n, title)
    \/ \E t \in Transcripts, content \in Texts : PostTranscript(t, content)

-----------------------------------------------------------------------------
(* The handler.                                                            *)

Goto(h, label) == pc' = [pc EXCEPT ![h] = label]
Active(h) == pc[h] \notin {"idle", "done"}
Existing(source) == {k \in KeysOf(source) : rows[k] # Absent}
Present(contents) == {s \in DOMAIN contents : contents[s] # Absent}

(* The request is answered, its locals are gone; with EndWith its          *)
(* transaction ends too, and what it did not commit is gone.               *)
Return(h, status) ==
    /\ Goto(h, "done")
    /\ answer' = [answer EXCEPT ![h] = status]
    /\ notesSeen' = [notesSeen EXCEPT ![h] = [n \in Notes |-> Absent]]
    /\ textsSeen' = [textsSeen EXCEPT ![h] = [t \in Transcripts |-> Absent]]
    /\ titlesSeen' = [titlesSeen EXCEPT ![h] = [t \in Transcripts |-> Absent]]
    /\ queue' = [queue EXCEPT ![h] = {}] /\ batch' = [batch EXCEPT ![h] = {}]
    /\ quiet' = [quiet EXCEPT ![h] = FALSE]

Release(h) ==
    deleted' = [deleted EXCEPT ![h] = {}] /\ inserted' = [inserted EXCEPT ![h] = {}]

EndWith_KeepsLocks(h, status) ==
    /\ Return(h, status)
    /\ todo' = [todo EXCEPT ![h] = {}]
    /\ UNCHANGED <<deleted, inserted>>
EndWith(h, status) ==
    /\ Return(h, status)
    /\ todo' = [todo EXCEPT ![h] = {}]
    /\ Release(h)

Begin(h) ==
    /\ pc[h] = "idle" /\ \A g \in 1..h - 1 : pc[g] # "idle"
    /\ Cardinality({o \in Refreshes : Active(o)}) < MaxInFlight
    /\ Goto(h, "read_notes")
    /\ quiet' = [g \in Refreshes |-> g = h /\ \A o \in Refreshes : ~Active(o)]
    /\ UNCHANGED <<sources, rows, seen, work, answer>>

ReadNotes(h) ==
    /\ pc[h] = "read_notes"
    /\ notesSeen' = [notesSeen EXCEPT ![h] = note]
    /\ Goto(h, IF Present(note) = {} THEN "read_transcripts" ELSE "compare_notes")
    /\ UNCHANGED <<sources, rows, textsSeen, titlesSeen, work, answer, quiet>>

NotesPending(h) ==
    {n \in Present(notesSeen[h]) :
        \A k \in Existing(n) : rows[k].sha # NoteSha(notesSeen[h][n])}

CompareNotes(h) ==
    /\ pc[h] = "compare_notes"
    /\ batch' = [batch EXCEPT ![h] = NotesPending(h)]
    /\ Goto(h, IF NotesPending(h) = {} THEN "read_transcripts" ELSE "embed")
    /\ UNCHANGED <<sources, rows, seen, queue, todo, deleted, inserted, answer, quiet>>

ReadTranscripts(h) ==
    /\ pc[h] = "read_transcripts"
    /\ IF Present(text) = {}
       THEN EndWith(h, "200")
       ELSE /\ textsSeen' = [textsSeen EXCEPT ![h] = text]
            /\ queue' = [queue EXCEPT ![h] = Present(text)]
            /\ Goto(h, "titles")
            /\ UNCHANGED <<notesSeen, titlesSeen, batch, todo, deleted, inserted, answer, quiet>>
    /\ UNCHANGED <<sources, rows>>

ReadTitle(h) ==
    /\ pc[h] = "titles"
    /\ \E t \in queue[h] :
        /\ titlesSeen' = [titlesSeen EXCEPT ![h][t] = TitleOf(t)]
        /\ queue' = [queue EXCEPT ![h] = @ \ {t}]
    /\ UNCHANGED <<sources, rows, pc, notesSeen, textsSeen, batch, todo, deleted,
                   inserted, answer, quiet>>

(* The dictionary of existing hashes keeps one per transcript.             *)
Kept(t) == IF Existing(t) = {} THEN {Absent} ELSE {rows[k].sha : k \in Existing(t)}

CompareTranscripts(h) ==
    /\ pc[h] = "titles" /\ queue[h] = {}
    /\ \E pending \in SUBSET Present(textsSeen[h]) :
        /\ \A t \in Present(textsSeen[h]) : \E sha \in Kept(t) :
            (t \in pending) = (sha # TranscriptSha(titlesSeen[h][t], textsSeen[h][t]))
        /\ IF pending = {}
           THEN EndWith(h, "200")
           ELSE /\ queue' = [queue EXCEPT ![h] = pending]
                /\ Goto(h, "next")
                /\ UNCHANGED <<seen, batch, todo, deleted, inserted, answer, quiet>>
    /\ UNCHANGED <<sources, rows>>

-----------------------------------------------------------------------------
(* The transaction that replaces the rows of a batch.                      *)

ForNotes(h) == batch[h] \subseteq Notes

(* What the handler has computed for a key of its batch.                   *)
Computed(h, k) ==
    IF k[1] \in Notes
    THEN NoteRow(notesSeen[h][k[1]])
    ELSE ChunkRow(titlesSeen[h][k[1]], textsSeen[h][k[1]], k[2])
NewKeys(h) ==
    {k \in Keys : k[1] \in batch[h] /\
        (k[1] \in Transcripts => k[2] \in Indices(Tokens[textsSeen[h][k[1]]]))}

(* A DELETE takes its snapshot.                                            *)
StartDelete(h, batched) ==
    /\ todo' = [todo EXCEPT ![h] = UNION {Existing(s) : s \in batched}]
    /\ Goto(h, "delete")

NextTranscript(h) ==
    /\ pc[h] = "next"
    /\ \E t \in queue[h] :
        /\ queue' = [queue EXCEPT ![h] = @ \ {t}]
        /\ batch' = [batch EXCEPT ![h] = {t}]
        /\ StartDelete(h, {t})
    /\ UNCHANGED <<sources, rows, seen, deleted, inserted, answer, quiet>>

(* The embedder has answered; notes are deleted only now.                  *)
Embedded(h) ==
    /\ pc[h] = "embed"
    /\ IF ForNotes(h)
       THEN StartDelete(h, batch[h])
       ELSE /\ todo' = [todo EXCEPT ![h] = NewKeys(h)]
            /\ Goto(h, "insert")
    /\ UNCHANGED <<sources, rows, seen, queue, batch, deleted, inserted, answer, quiet>>

Held(h, k) == k \in deleted[h] \cup inserted[h]
Free(h, k) == \A o \in Refreshes \ {h} : ~Held(o, k)

DeleteRow(h) ==
    /\ pc[h] = "delete"
    /\ \E k \in todo[h] :
        /\ Free(h, k)
        /\ deleted' = [deleted EXCEPT ![h] = @ \cup {k}]
        /\ todo' = [todo EXCEPT ![h] = @ \ {k}]
    /\ UNCHANGED <<sources, rows, pc, seen, queue, batch, inserted, answer, quiet>>

(* A transcript is embedded only now; without chunks it is just committed. *)
Deleted_Commits(h) ==
    /\ pc[h] = "delete" /\ todo[h] = {}
    /\ IF ForNotes(h) \/ NewKeys(h) = {}
       THEN todo' = [todo EXCEPT ![h] = NewKeys(h)] /\ Goto(h, "insert")
       ELSE Goto(h, "embed") /\ UNCHANGED todo
    /\ rows' = [k \in Keys |-> IF k \in deleted[h] THEN Absent ELSE rows[k]]
    /\ deleted' = [deleted EXCEPT ![h] = {}]
    /\ UNCHANGED <<sources, seen, queue, batch, inserted, answer, quiet>>
Deleted(h) ==
    /\ pc[h] = "delete" /\ todo[h] = {}
    /\ IF ForNotes(h) \/ NewKeys(h) = {}
       THEN todo' = [todo EXCEPT ![h] = NewKeys(h)] /\ Goto(h, "insert")
       ELSE Goto(h, "embed") /\ UNCHANGED todo
    /\ UNCHANGED <<sources, rows, seen, queue, batch, deleted, inserted, answer, quiet>>

Taken(h, k) == rows[k] # Absent /\ k \notin deleted[h]

InsertRow_OnConflictDoNothing(h) ==
    /\ pc[h] = "insert"
    /\ \E k \in todo[h] :
        /\ Free(h, k)
        /\ inserted' = [inserted EXCEPT ![h] = IF Taken(h, k) THEN @ ELSE @ \cup {k}]
        /\ todo' = [todo EXCEPT ![h] = @ \ {k}]
    /\ UNCHANGED <<sources, rows, pc, seen, queue, batch, deleted, answer, quiet>>
InsertRow(h) ==
    /\ pc[h] = "insert"
    /\ \E k \in todo[h] :
        /\ Free(h, k) /\ ~Taken(h, k)
        /\ inserted' = [inserted EXCEPT ![h] = @ \cup {k}]
        /\ todo' = [todo EXCEPT ![h] = @ \ {k}]
    /\ UNCHANGED <<sources, rows, pc, seen, queue, batch, deleted, answer, quiet>>

UniqueViolation(h) ==
    /\ pc[h] = "insert"
    /\ \E k \in todo[h] : Free(h, k) /\ Taken(h, k)
    /\ EndWith(h, "500")
    /\ UNCHANGED <<sources, rows>>

(* Rows appear and disappear, and who waits to delete one that is gone     *)
(* leaves it out.                                                          *)
Commit(h) ==
    /\ pc[h] = "insert" /\ todo[h] = {}
    /\ rows' = [k \in Keys |->
                   IF k \in inserted[h] THEN Computed(h, k)
                   ELSE IF k \in deleted[h] THEN Absent ELSE rows[k]]
    /\ IF ~ForNotes(h) /\ queue[h] = {}
       THEN Return(h, "200")
       ELSE /\ Goto(h, IF ForNotes(h) THEN "read_transcripts" ELSE "next")
            /\ batch' = [batch EXCEPT ![h] = {}]
            /\ UNCHANGED <<answer, seen, queue, quiet>>
    /\ todo' = [o \in Refreshes |-> IF pc[o] = "delete" THEN todo[o] \ deleted[h] ELSE todo[o]]
    /\ Release(h)
    /\ UNCHANGED sources

(* The embedder raises or returns too few vectors, a statement fails, or   *)
(* the process stops: what the request has committed before stays.         *)
Fail(h) ==
    /\ Active(h)
    /\ EndWith(h, "500")
    /\ UNCHANGED <<sources, rows>>

(* Each of a set waits for a row another of the set holds.                 *)
Waits(h, S) ==
    /\ pc[h] \in {"delete", "insert"} /\ todo[h] # {}
    /\ \A k \in todo[h] : \E o \in S \ {h} : Held(o, k)
BreakDeadlock(h) ==
    /\ \E S \in SUBSET Refreshes : h \in S /\ \A o \in S : Waits(o, S)
    /\ EndWith(h, "500")
    /\ UNCHANGED <<sources, rows>>

Step(h) ==
    \/ ReadNotes(h) \/ CompareNotes(h) \/ ReadTranscripts(h) \/ ReadTitle(h)
    \/ CompareTranscripts(h) \/ NextTranscript(h) \/ Embedded(h)
    \/ DeleteRow(h) \/ Deleted(h) \/ InsertRow(h) \/ UniqueViolation(h) \/ Commit(h)

(* Every refresh has been answered; sources may change no more.            *)
Quiet == (\A h \in Refreshes : pc[h] = "done") /\ UNCHANGED vars

Next ==
    \/ Edit
    \/ \E h \in Refreshes : Begin(h) \/ Step(h) \/ Fail(h) \/ BreakDeadlock(h)
    \/ Quiet

Fairness == \A h \in Refreshes : WF_vars(Step(h) \/ BreakDeadlock(h))

Spec == Init /\ [][Next]_vars /\ Fairness

-----------------------------------------------------------------------------
(* Properties.                                                             *)

(* The tables hold rows of their kinds, and a handler that has answered    *)
(* has nothing left: no row locked, no transcript queued.                  *)
TypeOK ==
    /\ note \in [Notes -> Titles \cup {Absent}]
    /\ text \in [Transcripts -> Texts \cup {Absent}]
    /\ edits \in 0..MaxEdits
    /\ rows \in [Keys -> NoteRows \cup ChunkRows \cup {Absent}]
    /\ notesSeen \in [Refreshes -> [Notes -> Titles \cup {Absent}]]
    /\ textsSeen \in [Refreshes -> [Transcripts -> Texts \cup {Absent}]]
    /\ titlesSeen \in [Refreshes -> [Transcripts -> Titles \cup {Filename, Absent}]]
    /\ queue \in [Refreshes -> SUBSET Transcripts]
    /\ batch \in [Refreshes -> SUBSET (Notes \cup Transcripts)]
    /\ \A h \in Refreshes :
        /\ todo[h] \cup deleted[h] \cup inserted[h] \subseteq Keys
        /\ ~Active(h) => queue[h] \cup batch[h] \cup todo[h] \cup deleted[h] \cup inserted[h] = {}
    /\ quiet \in [Refreshes -> BOOLEAN]

(* The committed chunks of a transcript, which _converge_transcripts       *)
(* deletes, embeds and inserts with refreshes of other texts in between,   *)
(* are never a mixture: all come from one title and text, under one hash,  *)
(* and they are all windows of chunk_transcript: they begin at 0, overlap  *)
(* by CHUNK_OVERLAP, end at the end of the text, and each brings new       *)
(* tokens.                                                                 *)
ChunksWhole ==
    \A t \in Transcripts :
        LET ks == Existing(t)
            first == rows[<<t, 0>>]
        IN ks # {} =>
            /\ <<t, 0>> \in ks /\ first.from = 0
            /\ \A k \in ks :
                /\ rows[k].sha = first.sha /\ rows[k].vector = first.vector
                /\ LET n == Tokens[rows[k].vector[2]]
                       after == <<t, k[2] + 1>>
                   IN \/ rows[k].to = n /\ after \notin ks
                      \/ /\ rows[k].to - rows[k].from = CHUNK_SIZE /\ after \in ks
                         /\ rows[after].from = rows[k].to - CHUNK_OVERLAP
                         /\ rows[after].to > rows[k].to

(* "Idempotent - re-running embeds nothing if no source content has        *)
(* changed": a refresh that runs alone, with no source changed since it    *)
(* began, calls the embedder only while something is out of date, and, if  *)
(* answered 200, leaves every note and every transcript embedded as it is  *)
(* now, whatever overlapping or failed refreshes left behind before it.    *)
QuietRefreshConverges ==
    [][\A h \in Refreshes : quiet[h] =>
        /\ pc[h] = "embed" => rows # DueNow
        /\ answer'[h] = "200" /\ answer[h] # "200" => rows' = DueNow]_vars

(* While chunks are replaced, the old ones stay readable until the new     *)
(* ones are there, even if the embedder fails in between: a transcript's   *)
(* chunks go only with the commit of a refresh that is at this transcript  *)
(* and has read a text of it without tokens.  A refresh that only has such *)
(* a text in hand, and is elsewhere, excuses nothing.                      *)
ChunksNeverVanish ==
    [][\A t \in Transcripts :
        (\E k \in KeysOf(t) : rows[k] # Absent) /\ (\A k \in KeysOf(t) : rows'[k] = Absent)
          => \E h \in Refreshes : /\ pc[h] = "insert" /\ pc'[h] # "insert" /\ batch[h] = {t}
                                 /\ textsSeen[h][t] # Absent /\ Tokens[textsSeen[h][t]] = 0]_vars

(* Every refresh is answered, also of refreshes that delete the same rows  *)
(* in opposite orders and wait for each other.                             *)
EveryRefreshEnds == \A h \in Refreshes : Active(h) ~> pc[h] = "done"

=============================================================================
