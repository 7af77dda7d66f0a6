---------------------- MODULE EmbeddingConvergenceProofs ----------------------
(* Theorems about EmbeddingConvergence, for any notes, transcripts, titles,  *)
(* texts and window sizes, any number of overlapping refreshes and edits,    *)
(* and any failures and deadlocks.                                           *)
EXTENDS EmbeddingConvergence, FiniteSetTheorems, TLAPS

Moves(h) == Begin(h) \/ Step(h) \/ Fail(h) \/ BreakDeadlock(h)
AllTitles == Titles \cup {Filename}

-----------------------------------------------------------------------------
(* The windows of a text.                                                  *)

LEMMA Stride ==
    ASSUME NEW i \in Nat
    PROVE  /\ Start(i) \in Nat /\ i <= Start(i) /\ Start(0) = 0
           /\ Start(i + 1) = Start(i) + CHUNK_SIZE - CHUNK_OVERLAP
<1>1. PICK d \in Nat : d = CHUNK_SIZE - CHUNK_OVERLAP /\ d >= 1
  BY ConvergenceAssumption
<1>2. \A j \in Nat : Start(j) = j * d
  BY <1>1 DEF Start
<1>3. i * d \in Nat /\ i <= i * d /\ 0 * d = 0 /\ (i + 1) * d = i * d + d
  BY <1>1
<1>4. Start(i) = i * d /\ Start(0) = 0 * d /\ Start(i + 1) = (i + 1) * d
  BY <1>2
<1> QED BY <1>1, <1>3, <1>4, ConvergenceAssumption

LEMMA Windows ==
    ASSUME NEW n \in Nat
    PROVE  /\ Indices(n) \subseteq Nat
           /\ Indices(n) # {} => n # 0
           /\ n # 0 => 0 \in Indices(n)
           /\ \A m \in Nat : n <= m => Indices(n) \subseteq Indices(m)
           /\ \A i \in Indices(n) :
                 /\ End(i, n) = n => i + 1 \notin Indices(n)
                 /\ End(i, n) # n =>
                       /\ i + 1 \in Indices(n)
                       /\ End(i, n) = Start(i) + CHUNK_SIZE
                       /\ Start(i + 1) = End(i, n) - CHUNK_OVERLAP
                       /\ End(i + 1, n) > End(i, n)
<1>1. Indices(n) \subseteq Nat /\ (Indices(n) # {} => n # 0) /\ (n # 0 => 0 \in Indices(n))
  BY DEF Indices
<1>2. ASSUME NEW m \in Nat, n <= m, NEW i \in Indices(n) PROVE i \in Indices(m)
  <2>1. CASE i = 0
    BY <1>2, <2>1 DEF Indices
  <2>2. CASE i # 0
    <3>1. i \in 0..n /\ i - 1 \in Nat /\ End(i - 1, n) < n
      BY <2>2 DEF Indices
    <3>2. Start(i - 1) \in Nat
      BY <3>1, Stride
    <3>3. Start(i - 1) + CHUNK_SIZE < n
      BY <3>1, <3>2, ConvergenceAssumption DEF End
    <3>4. End(i - 1, m) < m
      BY <1>2, <3>2, <3>3, ConvergenceAssumption DEF End
    <3> QED BY <1>2, <3>1, <3>4 DEF Indices
  <2> QED BY <2>1, <2>2
<1>3. ASSUME NEW i \in Indices(n)
      PROVE  /\ End(i, n) = n => i + 1 \notin Indices(n)
             /\ End(i, n) # n =>
                   /\ i + 1 \in Indices(n)
                   /\ End(i, n) = Start(i) + CHUNK_SIZE
                   /\ Start(i + 1) = End(i, n) - CHUNK_OVERLAP
                   /\ End(i + 1, n) > End(i, n)
  <2>1. i \in Nat /\ i <= n /\ n > 0
    BY DEF Indices
  <2>2. /\ Start(i) \in Nat /\ i <= Start(i)
        /\ Start(i + 1) = Start(i) + CHUNK_SIZE - CHUNK_OVERLAP
    BY <2>1, Stride
  <2>3. CHUNK_SIZE \in Nat /\ CHUNK_OVERLAP \in Nat /\ CHUNK_OVERLAP < CHUNK_SIZE
    BY ConvergenceAssumption
  <2>4. CASE Start(i) + CHUNK_SIZE < n
    <3>1. End(i, n) = Start(i) + CHUNK_SIZE
      BY <2>2, <2>3, <2>4 DEF End
    <3>2. i + 1 \in 0..n
      BY <2>1, <2>2, <2>3, <2>4
    <3>3. i + 1 \in Indices(n)
      BY <2>1, <2>4, <3>1, <3>2 DEF Indices
    <3>4. End(i + 1, n) > End(i, n)
      BY <2>2, <2>3, <2>4, <3>1 DEF End
    <3> QED BY <2>2, <2>3, <2>4, <3>1, <3>3, <3>4
  <2>5. CASE ~(Start(i) + CHUNK_SIZE < n)
    <3>1. End(i, n) = n
      BY <2>1, <2>2, <2>3, <2>5 DEF End
    <3>2. i + 1 \notin Indices(n)
      BY <2>1, <3>1 DEF Indices
    <3> QED BY <3>1, <3>2
  <2> QED BY <2>4, <2>5
<1> QED BY <1>1, <1>2, <1>3

LEMMA LongestText ==
    /\ MostTokens \in Nat
    /\ \A x \in Texts : Tokens[x] \in Nat /\ Tokens[x] <= MostTokens
                          /\ Indices(Tokens[x]) \subseteq Indices(MostTokens)
<1>1. PICK longest \in Texts : \A x \in Texts : Tokens[x] <= Tokens[longest]
  BY ConvergenceAssumption
<1>2. \E n \in {Tokens[x] : x \in Texts} : \A x \in Texts : Tokens[x] <= n
  BY <1>1
<1>3. MostTokens \in {Tokens[x] : x \in Texts} /\ \A x \in Texts : Tokens[x] <= MostTokens
  BY <1>2 DEF MostTokens
<1>4. MostTokens \in Nat /\ \A x \in Texts : Tokens[x] \in Nat
  BY <1>3, ConvergenceAssumption
<1>5. \A x \in Texts : Indices(Tokens[x]) \subseteq Indices(MostTokens)
  BY <1>3, <1>4, Windows
<1> QED BY <1>3, <1>4, <1>5

LEMMA KeysOfSource ==
    /\ \A n \in Notes : KeysOf(n) = {<<n, 0>>}
    /\ \A t \in Transcripts : KeysOf(t) = {<<t, i>> : i \in Indices(MostTokens)}
    /\ \A k \in Keys : k = <<k[1], k[2]>> /\ k[1] \in Notes \cup Transcripts
    /\ Notes \cap Transcripts = {}
BY ConvergenceAssumption DEF KeysOf, Keys

(* The chunks of a text: its windows, and nothing at other keys.           *)
Chunk(title, x, i) == IF i \in Indices(Tokens[x]) THEN ChunkRow(title, x, i) ELSE Absent

LEMMA ChunkRowsKnown ==
    ASSUME NEW title \in AllTitles, NEW x \in Texts, NEW i \in Indices(MostTokens)
    PROVE  ChunkRow(title, x, i) \in ChunkRows /\ ChunkRow(title, x, i) # Absent
<1>1. ChunkRow(title, x, i) \in ChunkRows
  BY DEF ChunkRows, AllTitles
<1> QED BY <1>1, AbsentAssumption

LEMMA NoteRowsKnown ==
    ASSUME NEW c \in Titles
    PROVE  NoteRow(c) \in NoteRows /\ NoteRow(c) # Absent
<1>1. NoteRow(c) \in NoteRows
  BY DEF NoteRows
<1> QED BY <1>1, AbsentAssumption

LEMMA TitleKnown ==
    ASSUME note \in [Notes -> Titles \cup {Absent}], NEW t
    PROVE  TitleOf(t) \in AllTitles
<1> DEFINE linked == {n \in Notes : note[n] # Absent /\ TranscriptOf[n] = t}
           titles == {note[n] : n \in linked}
<1>1. titles \subseteq Titles
  OBVIOUS
<1>2. Cardinality(linked) = 1 => linked # {}
  BY FS_EmptySet
<1>3. linked # {} => titles # {}
  OBVIOUS
<1>4. titles # {} => (CHOOSE title \in titles : TRUE) \in titles
  OBVIOUS
<1> HIDE DEF linked, titles
<1>5. TitleOf(t) = IF Cardinality(linked) = 1 /\ titles # {Untitled}
                   THEN CHOOSE title \in titles : TRUE ELSE Filename
  BY DEF TitleOf, linked, titles
<1> QED BY <1>1, <1>2, <1>3, <1>4, <1>5 DEF AllTitles

-----------------------------------------------------------------------------
(***************************************************************************)
(* What a refresh is doing at each label, and what it has read.            *)
(***************************************************************************)
Label == {"idle", "read_notes", "compare_notes", "read_transcripts", "titles", "next",
          "embed", "delete", "insert", "done"}
Working == {"embed", "delete", "insert"}

Shape ==
    /\ note \in [Notes -> Titles \cup {Absent}]
    /\ text \in [Transcripts -> Texts \cup {Absent}]
    /\ edits \in 0..MaxEdits
    /\ rows \in [Keys -> NoteRows \cup ChunkRows \cup {Absent}]
    /\ pc \in [Refreshes -> Label]
    /\ notesSeen \in [Refreshes -> [Notes -> Titles \cup {Absent}]]
    /\ textsSeen \in [Refreshes -> [Transcripts -> Texts \cup {Absent}]]
    /\ titlesSeen \in [Refreshes -> [Transcripts -> AllTitles \cup {Absent}]]
    /\ queue \in [Refreshes -> SUBSET Transcripts]
    /\ batch \in [Refreshes -> SUBSET (Notes \cup Transcripts)]
    /\ todo \in [Refreshes -> SUBSET Keys]
    /\ deleted \in [Refreshes -> SUBSET Keys]
    /\ inserted \in [Refreshes -> SUBSET Keys]
    /\ answer \in [Refreshes -> {"none", "200", "500"}]
    /\ quiet \in [Refreshes -> BOOLEAN]

(* A batch is of notes, or one transcript, that have been read.            *)
OfNotes(h) == batch[h] \subseteq Present(notesSeen[h])
OfChunks(h) == \E t \in Present(textsSeen[h]) : batch[h] = {t}

Idles(h) ==
    /\ pc[h] \notin Working => batch[h] = {} /\ deleted[h] = {}
    /\ pc[h] \notin {"delete", "insert"} => todo[h] = {}
    /\ pc[h] # "insert" => inserted[h] = {}
    /\ pc[h] \in {"idle", "done"} => queue[h] = {}
Works(h) ==
    /\ pc[h] \in Working => OfNotes(h) \/ OfChunks(h)
    /\ pc[h] = "insert" => todo[h] \cup inserted[h] = NewKeys(h)
    /\ \A k \in todo[h] \cup deleted[h] \cup inserted[h] : k[1] \in batch[h]
HasRead(h) ==
    /\ queue[h] \subseteq Present(textsSeen[h])
    /\ \A t \in Present(textsSeen[h]) :
          (pc[h] = "titles" /\ t \in queue[h]) \/ titlesSeen[h][t] \in AllTitles

IWork == Shape /\ \A h \in Refreshes : Idles(h) /\ Works(h) /\ HasRead(h)

LEMMA EmptySeen ==
    /\ [n \in Notes |-> Absent] \in [Notes -> Titles \cup {Absent}]
    /\ [t \in Transcripts |-> Absent] \in [Transcripts -> Texts \cup {Absent}]
    /\ [t \in Transcripts |-> Absent] \in [Transcripts -> AllTitles \cup {Absent}]
    /\ Present([n \in Notes |-> Absent]) = {}
    /\ Present([t \in Transcripts |-> Absent]) = {}
BY DEF Present

LEMMA PresentIn ==
    /\ \A f \in [Notes -> Titles \cup {Absent}] :
          Present(f) = {n \in Notes : f[n] # Absent} /\ \A n \in Present(f) : f[n] \in Titles
    /\ \A f \in [Transcripts -> Texts \cup {Absent}] :
          Present(f) = {t \in Transcripts : f[t] # Absent} /\ \A t \in Present(f) : f[t] \in Texts
BY DEF Present

LEMMA SeenIn ==
    ASSUME Shape, NEW h \in Refreshes
    PROVE  /\ Present(notesSeen[h]) = {n \in Notes : notesSeen[h][n] # Absent}
           /\ Present(textsSeen[h]) = {t \in Transcripts : textsSeen[h][t] # Absent}
           /\ \A n \in Present(notesSeen[h]) : notesSeen[h][n] \in Titles
           /\ \A t \in Present(textsSeen[h]) : textsSeen[h][t] \in Texts
<1>1. /\ notesSeen[h] \in [Notes -> Titles \cup {Absent}]
      /\ textsSeen[h] \in [Transcripts -> Texts \cup {Absent}]
  BY DEF Shape
<1> QED BY <1>1, PresentIn

LEMMA DueKnown ==
    ASSUME note \in [Notes -> Titles \cup {Absent}], text \in [Transcripts -> Texts \cup {Absent}]
    PROVE  /\ DueNow \in [Keys -> NoteRows \cup ChunkRows \cup {Absent}]
           /\ \A n \in Notes :
                 DueNow[<<n, 0>>] = IF note[n] = Absent THEN Absent ELSE NoteRow(note[n])
           /\ \A t \in Transcripts, i \in Indices(MostTokens) :
                 DueNow[<<t, i>>] = IF text[t] = Absent THEN Absent
                                    ELSE Chunk(TitleOf(t), text[t], i)
<1>1. ASSUME NEW n \in Notes
      PROVE  /\ <<n, 0>> \in Keys
             /\ DueNow[<<n, 0>>] = IF note[n] = Absent THEN Absent ELSE NoteRow(note[n])
  <2>1. <<n, 0>> \in Keys
    BY DEF Keys
  <2> QED BY <2>1 DEF DueNow
<1>2. ASSUME NEW t \in Transcripts, NEW i \in Indices(MostTokens)
      PROVE  /\ <<t, i>> \in Keys
             /\ DueNow[<<t, i>>] = IF text[t] = Absent THEN Absent
                                   ELSE Chunk(TitleOf(t), text[t], i)
  <2>1. <<t, i>> \in Keys /\ t \notin Notes
    BY ConvergenceAssumption DEF Keys
  <2>2. <<t, i>>[1] = t /\ <<t, i>>[2] = i
    OBVIOUS
  <2>3. DueNow[<<t, i>>] = IF text[t] # Absent /\ i \in Indices(Tokens[text[t]])
                           THEN ChunkRow(TitleOf(t), text[t], i) ELSE Absent
    BY <2>1, <2>2 DEF DueNow
  <2> QED BY <2>1, <2>3 DEF Chunk
<1>3. ASSUME NEW k \in Keys PROVE DueNow[k] \in NoteRows \cup ChunkRows \cup {Absent}
  <2>1. CASE \E n \in Notes : k = <<n, 0>>
    <3>1. PICK n \in Notes : k = <<n, 0>>
      BY <2>1
    <3>2. note[n] # Absent => NoteRow(note[n]) \in NoteRows
      BY NoteRowsKnown
    <3> QED BY <1>1, <3>1, <3>2
  <2>2. CASE \E t \in Transcripts, i \in Indices(MostTokens) : k = <<t, i>>
    <3>1. PICK t \in Transcripts, i \in Indices(MostTokens) : k = <<t, i>>
      BY <2>2
    <3>2. PICK title \in AllTitles : title = TitleOf(t)
      BY TitleKnown
    <3>3. text[t] # Absent => ChunkRow(title, text[t], i) \in ChunkRows
      BY ChunkRowsKnown
    <3> QED BY <1>2, <3>1, <3>2, <3>3 DEF Chunk
  <2> QED BY <2>1, <2>2 DEF Keys
<1>4. DueNow = [k \in Keys |-> DueNow[k]]
  BY DEF DueNow
<1> QED BY <1>1, <1>2, <1>3, <1>4

LEMMA WorkInit == Init => IWork
<1> SUFFICES ASSUME Init PROVE IWork
  OBVIOUS
<1>1. Shape
  <2>1. /\ note \in [Notes -> Titles \cup {Absent}] /\ text \in [Transcripts -> Texts \cup {Absent}]
        /\ edits \in 0..MaxEdits
    BY ConvergenceAssumption DEF Init
  <2>2. /\ notesSeen \in [Refreshes -> [Notes -> Titles \cup {Absent}]]
        /\ textsSeen \in [Refreshes -> [Transcripts -> Texts \cup {Absent}]]
        /\ titlesSeen \in [Refreshes -> [Transcripts -> AllTitles \cup {Absent}]]
    BY EmptySeen DEF Init
  <2>3. /\ pc \in [Refreshes -> Label] /\ queue \in [Refreshes -> SUBSET Transcripts]
        /\ batch \in [Refreshes -> SUBSET (Notes \cup Transcripts)]
        /\ todo \in [Refreshes -> SUBSET Keys] /\ deleted \in [Refreshes -> SUBSET Keys]
        /\ inserted \in [Refreshes -> SUBSET Keys]
        /\ answer \in [Refreshes -> {"none", "200", "500"}] /\ quiet \in [Refreshes -> BOOLEAN]
    BY DEF Init, Label
  <2>4. rows \in [Keys -> NoteRows \cup ChunkRows \cup {Absent}]
    <3>1. CASE rows = [k \in Keys |-> Absent]
      BY <3>1
    <3>2. CASE rows = DueNow
      BY <2>1, <3>2, DueKnown
    <3> QED BY <3>1, <3>2 DEF Init
  <2> QED BY <2>1, <2>2, <2>3, <2>4 DEF Shape
<1>2. ASSUME NEW h \in Refreshes PROVE Idles(h) /\ Works(h) /\ HasRead(h)
  BY EmptySeen DEF Init, Idles, Works, HasRead, Working, Refreshes
<1> QED BY <1>1, <1>2 DEF IWork

-----------------------------------------------------------------------------
(* The steps, one by one.                                                  *)

LEMMA EndKept ==
    ASSUME IWork, NEW h \in Refreshes, NEW status \in {"200", "500"},
           EndWith(h, status), UNCHANGED <<sources, rows>>
    PROVE  Shape' /\ Idles(h)' /\ Works(h)' /\ HasRead(h)'
<1>1. /\ notesSeen' \in [Refreshes -> [Notes -> Titles \cup {Absent}]]
      /\ textsSeen' \in [Refreshes -> [Transcripts -> Texts \cup {Absent}]]
      /\ titlesSeen' \in [Refreshes -> [Transcripts -> AllTitles \cup {Absent}]]
  BY EmptySeen DEF EndWith, Return, IWork, Shape
<1>2. /\ pc' \in [Refreshes -> Label] /\ pc'[h] = "done"
      /\ batch'[h] = {} /\ queue'[h] = {} /\ todo'[h] = {} /\ deleted'[h] = {} /\ inserted'[h] = {}
      /\ textsSeen'[h] = [t \in Transcripts |-> Absent]
  BY DEF EndWith, Return, Goto, Release, IWork, Shape, Label
<1>3. Shape'
  BY <1>1, <1>2 DEF EndWith, Return, Goto, Release, IWork, Shape, sources
<1>4. Idles(h)' /\ Works(h)'
  BY <1>2 DEF Idles, Works, Working
<1>5. HasRead(h)'
  BY <1>2, EmptySeen DEF HasRead
<1> QED BY <1>3, <1>4, <1>5

LEMMA BeginKept ==
    ASSUME IWork, NEW h \in Refreshes, Begin(h)
    PROVE  Shape' /\ Idles(h)' /\ Works(h)' /\ HasRead(h)'
<1>1. /\ pc' \in [Refreshes -> Label] /\ pc'[h] = "read_notes"
      /\ quiet' \in [Refreshes -> BOOLEAN]
  BY DEF Begin, Goto, IWork, Shape, Label
<1>2. UNCHANGED <<sources, rows, seen, work, answer>>
  BY DEF Begin
<1>3. Shape'
  BY <1>1, <1>2 DEF IWork, Shape, sources, seen, work
<1>4. pc[h] = "idle"
  BY DEF Begin
<1>5. Idles(h) /\ Works(h) /\ HasRead(h)
  BY DEF IWork
<1>6. Idles(h)'
  BY <1>1, <1>2, <1>4, <1>5 DEF Idles, Working, work
<1>7. Works(h)'
  BY <1>1, <1>2, <1>4, <1>5 DEF Works, Working, work
<1>8. HasRead(h)'
  BY <1>1, <1>2, <1>4, <1>5 DEF HasRead, work, seen
<1> QED BY <1>3, <1>6, <1>7, <1>8

LEMMA ReadNotesKept ==
    ASSUME IWork, NEW h \in Refreshes, ReadNotes(h)
    PROVE  Shape' /\ Idles(h)' /\ Works(h)' /\ HasRead(h)'
<1>1. /\ pc' \in [Refreshes -> Label] /\ pc'[h] \in {"read_transcripts", "compare_notes"}
  BY DEF ReadNotes, Goto, IWork, Shape, Label
<1>2. /\ pc[h] = "read_notes" /\ notesSeen' = [notesSeen EXCEPT ![h] = note]
      /\ UNCHANGED <<sources, rows, textsSeen, titlesSeen, work, answer, quiet>>
  BY DEF ReadNotes
<1>3. Shape'
  BY <1>1, <1>2 DEF IWork, Shape, sources, work
<1>5. Idles(h) /\ Works(h) /\ HasRead(h)
  BY DEF IWork
<1>6. Idles(h)'
  BY <1>1, <1>2, <1>5 DEF Idles, Working, work
<1>7. Works(h)'
  BY <1>1, <1>2, <1>5 DEF Works, Working, work
<1>8. HasRead(h)'
  BY <1>1, <1>2, <1>5 DEF HasRead, work
<1> QED BY <1>3, <1>6, <1>7, <1>8

LEMMA CompareNotesKept ==
    ASSUME IWork, NEW h \in Refreshes, CompareNotes(h)
    PROVE  Shape' /\ Idles(h)' /\ Works(h)' /\ HasRead(h)'
<1>1. NotesPending(h) \subseteq Present(notesSeen[h]) /\ Present(notesSeen[h]) \subseteq Notes
  BY SeenIn DEF NotesPending, IWork
<1>2. /\ pc[h] = "compare_notes" /\ batch' = [batch EXCEPT ![h] = NotesPending(h)]
      /\ Goto(h, IF NotesPending(h) = {} THEN "read_transcripts" ELSE "embed")
      /\ UNCHANGED <<sources, rows, seen, queue, todo, deleted, inserted, answer, quiet>>
  BY DEF CompareNotes
<1>3. /\ pc' \in [Refreshes -> Label] /\ batch'[h] = NotesPending(h)
      /\ pc'[h] = IF NotesPending(h) = {} THEN "read_transcripts" ELSE "embed"
  BY <1>2 DEF Goto, IWork, Shape, Label
<1>4. batch' \in [Refreshes -> SUBSET (Notes \cup Transcripts)]
  BY <1>1, <1>2 DEF IWork, Shape
<1>5. Shape'
  BY <1>2, <1>3, <1>4 DEF IWork, Shape, sources, seen
<1>6. Idles(h) /\ Works(h) /\ HasRead(h)
  BY DEF IWork
<1>7. Idles(h)'
  BY <1>2, <1>3, <1>6 DEF Idles, Working
<1>8. Works(h)'
  BY <1>1, <1>2, <1>3, <1>6 DEF Works, Working, OfNotes, seen, Idles
<1>9. HasRead(h)'
  BY <1>2, <1>3, <1>6 DEF HasRead, seen
<1> QED BY <1>5, <1>7, <1>8, <1>9

LEMMA ReadTranscriptsKept ==
    ASSUME IWork, NEW h \in Refreshes, ReadTranscripts(h)
    PROVE  Shape' /\ Idles(h)' /\ Works(h)' /\ HasRead(h)'
<1>1. CASE Present(text) = {}
  BY <1>1, EndKept DEF ReadTranscripts
<1>2. CASE Present(text) # {}
  <2>1. /\ pc[h] = "read_transcripts" /\ textsSeen' = [textsSeen EXCEPT ![h] = text]
        /\ queue' = [queue EXCEPT ![h] = Present(text)] /\ Goto(h, "titles")
        /\ UNCHANGED <<notesSeen, titlesSeen, batch, todo, deleted, inserted, answer, quiet>>
        /\ UNCHANGED <<sources, rows>>
    BY <1>2 DEF ReadTranscripts
  <2>2. Present(text) \subseteq Transcripts
    BY PresentIn DEF IWork, Shape
  <2>3. pc' \in [Refreshes -> Label] /\ pc'[h] = "titles"
    BY <2>1 DEF Goto, IWork, Shape, Label
  <2>4. /\ textsSeen' \in [Refreshes -> [Transcripts -> Texts \cup {Absent}]]
        /\ queue' \in [Refreshes -> SUBSET Transcripts]
        /\ textsSeen'[h] = text /\ queue'[h] = Present(text)
    BY <2>1, <2>2 DEF IWork, Shape
  <2>5. Shape'
    BY <2>1, <2>3, <2>4 DEF IWork, Shape, sources
  <2>6. Idles(h) /\ Works(h) /\ HasRead(h)
    BY DEF IWork
  <2>7. Idles(h)'
    BY <2>1, <2>3, <2>6 DEF Idles, Working
  <2>8. Works(h)'
    BY <2>1, <2>3, <2>6 DEF Works, Working, Idles
  <2>9. HasRead(h)'
    BY <2>3, <2>4 DEF HasRead
  <2> QED BY <2>5, <2>7, <2>8, <2>9
<1> QED BY <1>1, <1>2

LEMMA ReadTitleKept ==
    ASSUME IWork, NEW h \in Refreshes, ReadTitle(h)
    PROVE  Shape' /\ Idles(h)' /\ Works(h)' /\ HasRead(h)'
<1>1. PICK t \in queue[h] :
         /\ titlesSeen' = [titlesSeen EXCEPT ![h][t] = TitleOf(t)]
         /\ queue' = [queue EXCEPT ![h] = @ \ {t}]
  BY DEF ReadTitle
<1>2. /\ pc[h] = "titles"
      /\ UNCHANGED <<sources, rows, pc, notesSeen, textsSeen, batch, todo, deleted, inserted,
                     answer, quiet>>
  BY DEF ReadTitle
<1>3. PICK title \in AllTitles : title = TitleOf(t)
  BY TitleKnown DEF IWork, Shape
<1>4. t \in Transcripts
  BY DEF IWork, Shape
<1>5. /\ titlesSeen' \in [Refreshes -> [Transcripts -> AllTitles \cup {Absent}]]
      /\ queue' \in [Refreshes -> SUBSET Transcripts] /\ queue'[h] = queue[h] \ {t}
      /\ titlesSeen'[h][t] = title
      /\ \A s \in Transcripts \ {t} : titlesSeen'[h][s] = titlesSeen[h][s]
  BY <1>1, <1>3, <1>4 DEF IWork, Shape
<1>6. Shape'
  BY <1>2, <1>5 DEF IWork, Shape, sources
<1>7. Idles(h) /\ Works(h) /\ HasRead(h)
  BY DEF IWork
<1>8. Idles(h)'
  BY <1>2, <1>7 DEF Idles, Working
<1>9. Works(h)'
  BY <1>2, <1>7 DEF Works, Working
<1>10. Present(textsSeen[h]) \subseteq Transcripts
  BY SeenIn DEF IWork
<1>11. HasRead(h)'
  BY <1>2, <1>5, <1>7, <1>10 DEF HasRead
<1> QED BY <1>6, <1>8, <1>9, <1>11

LEMMA CompareTranscriptsKept ==
    ASSUME IWork, NEW h \in Refreshes, CompareTranscripts(h)
    PROVE  Shape' /\ Idles(h)' /\ Works(h)' /\ HasRead(h)'
<1>1. PICK pending \in SUBSET Present(textsSeen[h]) :
         IF pending = {}
         THEN EndWith(h, "200")
         ELSE /\ queue' = [queue EXCEPT ![h] = pending]
              /\ Goto(h, "next")
              /\ UNCHANGED <<seen, batch, todo, deleted, inserted, answer, quiet>>
  BY DEF CompareTranscripts
<1>2. pc[h] = "titles" /\ queue[h] = {} /\ UNCHANGED <<sources, rows>>
  BY DEF CompareTranscripts
<1>3. CASE pending = {}
  BY <1>1, <1>2, <1>3, EndKept
<1>4. CASE pending # {}
  <2>1. /\ queue' = [queue EXCEPT ![h] = pending] /\ Goto(h, "next")
        /\ UNCHANGED <<seen, batch, todo, deleted, inserted, answer, quiet>>
    BY <1>1, <1>4
  <2>2. Present(textsSeen[h]) \subseteq Transcripts
    BY SeenIn DEF IWork
  <2>3. pc' \in [Refreshes -> Label] /\ pc'[h] = "next"
    BY <2>1 DEF Goto, IWork, Shape, Label
  <2>4. queue' \in [Refreshes -> SUBSET Transcripts] /\ queue'[h] = pending
    BY <2>1, <2>2 DEF IWork, Shape
  <2>5. Shape'
    BY <1>2, <2>1, <2>3, <2>4 DEF IWork, Shape, sources, seen
  <2>6. Idles(h) /\ Works(h) /\ HasRead(h)
    BY DEF IWork
  <2>7. Idles(h)'
    BY <1>2, <2>1, <2>3, <2>6 DEF Idles, Working
  <2>8. Works(h)'
    BY <1>2, <2>1, <2>3, <2>6 DEF Works, Working
  <2>9. HasRead(h)'
    BY <1>2, <2>1, <2>3, <2>4, <2>6 DEF HasRead, seen
  <2> QED BY <2>5, <2>7, <2>8, <2>9
<1> QED BY <1>3, <1>4

LEMMA NextTranscriptKept ==
    ASSUME IWork, NEW h \in Refreshes, NextTranscript(h)
    PROVE  Shape' /\ Idles(h)' /\ Works(h)' /\ HasRead(h)'
<1>1. PICK t \in queue[h] :
         /\ queue' = [queue EXCEPT ![h] = @ \ {t}]
         /\ batch' = [batch EXCEPT ![h] = {t}]
         /\ StartDelete(h, {t})
  BY DEF NextTranscript
<1>2. /\ pc[h] = "next"
      /\ UNCHANGED <<sources, rows, seen, deleted, inserted, answer, quiet>>
  BY DEF NextTranscript
<1>3. Idles(h) /\ Works(h) /\ HasRead(h)
  BY DEF IWork
<1>4. t \in Transcripts /\ t \in Present(textsSeen[h])
  BY <1>3 DEF IWork, Shape, HasRead
<1>5. todo' = [todo EXCEPT ![h] = Existing(t)] /\ Goto(h, "delete")
  BY <1>1 DEF StartDelete
<1>6. Existing(t) \subseteq Keys /\ \A k \in Existing(t) : k[1] = t
  BY DEF Existing, KeysOf
<1>7. /\ pc' \in [Refreshes -> Label] /\ pc'[h] = "delete"
      /\ todo' \in [Refreshes -> SUBSET Keys] /\ todo'[h] = Existing(t)
  BY <1>5, <1>6 DEF Goto, IWork, Shape, Label
<1>8. /\ queue' \in [Refreshes -> SUBSET Transcripts] /\ queue'[h] = queue[h] \ {t}
      /\ batch' \in [Refreshes -> SUBSET (Notes \cup Transcripts)] /\ batch'[h] = {t}
  BY <1>1, <1>4 DEF IWork, Shape
<1>9. Shape'
  BY <1>2, <1>7, <1>8 DEF IWork, Shape, sources, seen
<1>10. Idles(h)'
  BY <1>2, <1>3, <1>7 DEF Idles, Working
<1>11. OfChunks(h)'
  BY <1>2, <1>4, <1>8 DEF OfChunks, seen
<1>12. Works(h)'
  BY <1>2, <1>3, <1>6, <1>7, <1>8, <1>11 DEF Works, Working, Idles
<1>13. HasRead(h)'
  BY <1>2, <1>3, <1>7, <1>8 DEF HasRead, seen
<1> QED BY <1>9, <1>10, <1>12, <1>13

LEMMA EmbeddedKept ==
    ASSUME IWork, NEW h \in Refreshes, Embedded(h)
    PROVE  Shape' /\ Idles(h)' /\ Works(h)' /\ HasRead(h)'
<1>1. /\ pc[h] = "embed"
      /\ UNCHANGED <<sources, rows, seen, queue, batch, deleted, inserted, answer, quiet>>
  BY DEF Embedded
<1>2. PICK T \in SUBSET Keys, label \in {"delete", "insert"} :
         /\ todo' = [todo EXCEPT ![h] = T] /\ Goto(h, label)
         /\ label = "insert" => T = NewKeys(h)
         /\ \A k \in T : k[1] \in batch[h]
  <2>1. CASE ForNotes(h)
    <3>1. /\ UNION {Existing(s) : s \in batch[h]} \subseteq Keys
          /\ \A k \in UNION {Existing(s) : s \in batch[h]} : k[1] \in batch[h]
      BY DEF Existing, KeysOf
    <3> QED BY <2>1, <3>1 DEF Embedded, StartDelete
  <2>2. CASE ~ForNotes(h)
    <3>1. NewKeys(h) \subseteq Keys /\ \A k \in NewKeys(h) : k[1] \in batch[h]
      BY DEF NewKeys
    <3> QED BY <2>2, <3>1 DEF Embedded
  <2> QED BY <2>1, <2>2
<1>3. /\ pc' \in [Refreshes -> Label] /\ pc'[h] = label
      /\ todo' \in [Refreshes -> SUBSET Keys] /\ todo'[h] = T
  BY <1>2 DEF Goto, IWork, Shape, Label
<1>4. Shape'
  BY <1>1, <1>3 DEF IWork, Shape, sources, seen
<1>5. Idles(h) /\ Works(h) /\ HasRead(h)
  BY DEF IWork
<1>6. Idles(h)'
  BY <1>1, <1>3, <1>5 DEF Idles, Working
<1>7. inserted[h] = {} /\ \A k \in deleted[h] : k[1] \in batch[h]
  BY <1>1, <1>5 DEF Idles, Works
<1>8. OfNotes(h)' \/ OfChunks(h)'
  BY <1>1, <1>5 DEF Works, Working, OfNotes, OfChunks, seen
<1>9. NewKeys(h)' = NewKeys(h)
  BY <1>1 DEF NewKeys, seen
<1>10. Works(h)'
  BY <1>1, <1>2, <1>3, <1>7, <1>8, <1>9 DEF Works
<1>11. HasRead(h)'
  BY <1>1, <1>3, <1>5 DEF HasRead, seen
<1> QED BY <1>4, <1>6, <1>10, <1>11

LEMMA DeleteRowKept ==
    ASSUME IWork, NEW h \in Refreshes, DeleteRow(h)
    PROVE  Shape' /\ Idles(h)' /\ Works(h)' /\ HasRead(h)'
<1>1. PICK k \in todo[h] :
         /\ deleted' = [deleted EXCEPT ![h] = @ \cup {k}]
         /\ todo' = [todo EXCEPT ![h] = @ \ {k}]
  BY DEF DeleteRow
<1>2. /\ pc[h] = "delete"
      /\ UNCHANGED <<sources, rows, pc, seen, queue, batch, inserted, answer, quiet>>
  BY DEF DeleteRow
<1>3. k \in Keys
  BY DEF IWork, Shape
<1>4. /\ deleted' \in [Refreshes -> SUBSET Keys] /\ deleted'[h] = deleted[h] \cup {k}
      /\ todo' \in [Refreshes -> SUBSET Keys] /\ todo'[h] = todo[h] \ {k}
  BY <1>1, <1>3 DEF IWork, Shape
<1>5. Shape'
  BY <1>2, <1>4 DEF IWork, Shape, sources, seen
<1>6. Idles(h) /\ Works(h) /\ HasRead(h)
  BY DEF IWork
<1>7. Idles(h)'
  BY <1>2, <1>6 DEF Idles, Working
<1>8. OfNotes(h)' \/ OfChunks(h)'
  BY <1>2, <1>6 DEF Works, Working, OfNotes, OfChunks, seen
<1>9. Works(h)'
  BY <1>2, <1>4, <1>6, <1>8 DEF Works
<1>10. HasRead(h)'
  BY <1>2, <1>6 DEF HasRead, seen
<1> QED BY <1>5, <1>7, <1>9, <1>10

LEMMA DeletedKept ==
    ASSUME IWork, NEW h \in Refreshes, Deleted(h)
    PROVE  Shape' /\ Idles(h)' /\ Works(h)' /\ HasRead(h)'
<1>1. /\ pc[h] = "delete" /\ todo[h] = {}
      /\ UNCHANGED <<sources, rows, seen, queue, batch, deleted, inserted, answer, quiet>>
  BY DEF Deleted
<1>2. NewKeys(h) \subseteq Keys /\ \A k \in NewKeys(h) : k[1] \in batch[h]
  BY DEF NewKeys
<1>3. /\ pc' \in [Refreshes -> Label] /\ todo' \in [Refreshes -> SUBSET Keys]
      /\ \/ pc'[h] = "insert" /\ todo'[h] = NewKeys(h)
         \/ pc'[h] = "embed" /\ todo'[h] = {}
  <2>1. CASE ForNotes(h) \/ NewKeys(h) = {}
    <3>1. todo' = [todo EXCEPT ![h] = NewKeys(h)] /\ Goto(h, "insert")
      BY <2>1 DEF Deleted
    <3> QED BY <1>2, <3>1 DEF Goto, IWork, Shape, Label
  <2>2. CASE ~(ForNotes(h) \/ NewKeys(h) = {})
    <3>1. Goto(h, "embed") /\ UNCHANGED todo
      BY <2>2 DEF Deleted
    <3> QED BY <1>1, <3>1 DEF Goto, IWork, Shape, Label
  <2> QED BY <2>1, <2>2
<1>4. Shape'
  BY <1>1, <1>3 DEF IWork, Shape, sources, seen
<1>5. Idles(h) /\ Works(h) /\ HasRead(h)
  BY DEF IWork
<1>6. Idles(h)'
  BY <1>1, <1>3, <1>5 DEF Idles, Working
<1>7. inserted[h] = {} /\ \A k \in deleted[h] : k[1] \in batch[h]
  BY <1>1, <1>5 DEF Idles, Works
<1>8. OfNotes(h)' \/ OfChunks(h)'
  BY <1>1, <1>5 DEF Works, Working, OfNotes, OfChunks, seen
<1>9. NewKeys(h)' = NewKeys(h)
  BY <1>1 DEF NewKeys, seen
<1>10. Works(h)'
  BY <1>1, <1>2, <1>3, <1>7, <1>8, <1>9 DEF Works
<1>11. HasRead(h)'
  BY <1>1, <1>3, <1>5 DEF HasRead, seen
<1> QED BY <1>4, <1>6, <1>10, <1>11

LEMMA InsertRowKept ==
    ASSUME IWork, NEW h \in Refreshes, InsertRow(h)
    PROVE  Shape' /\ Idles(h)' /\ Works(h)' /\ HasRead(h)'
<1>1. PICK k \in todo[h] :
         /\ inserted' = [inserted EXCEPT ![h] = @ \cup {k}]
         /\ todo' = [todo EXCEPT ![h] = @ \ {k}]
  BY DEF InsertRow
<1>2. /\ pc[h] = "insert"
      /\ UNCHANGED <<sources, rows, pc, seen, queue, batch, deleted, answer, quiet>>
  BY DEF InsertRow
<1>3. k \in Keys
  BY DEF IWork, Shape
<1>4. /\ inserted' \in [Refreshes -> SUBSET Keys] /\ inserted'[h] = inserted[h] \cup {k}
      /\ todo' \in [Refreshes -> SUBSET Keys] /\ todo'[h] = todo[h] \ {k}
  BY <1>1, <1>3 DEF IWork, Shape
<1>5. Shape'
  BY <1>2, <1>4 DEF IWork, Shape, sources, seen
<1>6. Idles(h) /\ Works(h) /\ HasRead(h)
  BY DEF IWork
<1>7. Idles(h)'
  BY <1>2, <1>6 DEF Idles, Working
<1>8. OfNotes(h)' \/ OfChunks(h)'
  BY <1>2, <1>6 DEF Works, Working, OfNotes, OfChunks, seen
<1>9. NewKeys(h)' = NewKeys(h)
  BY <1>2 DEF NewKeys, seen
<1>10. Works(h)'
  BY <1>2, <1>4, <1>6, <1>8, <1>9 DEF Works
<1>11. HasRead(h)'
  BY <1>2, <1>6 DEF HasRead, seen
<1> QED BY <1>5, <1>7, <1>10, <1>11

(* What a commit writes is a row of its key.                               *)
LEMMA ComputedKnown ==
    ASSUME IWork, NEW h \in Refreshes, pc[h] = "insert", NEW k \in inserted[h]
    PROVE  /\ k \in NewKeys(h)
           /\ k[1] \in Notes =>
                 notesSeen[h][k[1]] \in Titles /\ Computed(h, k) = NoteRow(notesSeen[h][k[1]])
           /\ k[1] \notin Notes =>
                 /\ batch[h] = {k[1]} /\ k[1] \in Present(textsSeen[h])
                 /\ titlesSeen[h][k[1]] \in AllTitles \/ pc[h] = "titles"
                 /\ textsSeen[h][k[1]] \in Texts /\ k[2] \in Indices(Tokens[textsSeen[h][k[1]]])
                 /\ Computed(h, k) = ChunkRow(titlesSeen[h][k[1]], textsSeen[h][k[1]], k[2])
           /\ Computed(h, k) \in NoteRows \cup ChunkRows
<1>0. Works(h) /\ HasRead(h)
  BY DEF IWork
<1>1. k \in NewKeys(h)
  BY <1>0 DEF Works
<1>2. k \in Keys /\ k[1] \in batch[h]
  BY <1>1 DEF NewKeys
<1>3. CASE k[1] \in Notes
  <2>1. k[1] \in Present(notesSeen[h])
    <3>1. OfNotes(h) \/ OfChunks(h)
      BY <1>0 DEF Works, Working
    <3>2. Present(textsSeen[h]) \cap Notes = {}
      BY SeenIn, ConvergenceAssumption DEF IWork
    <3> QED BY <1>2, <1>3, <3>1, <3>2 DEF OfNotes, OfChunks
  <2>2. notesSeen[h][k[1]] \in Titles
    BY <2>1, SeenIn DEF IWork
  <2>3. Computed(h, k) = NoteRow(notesSeen[h][k[1]])
    BY <1>3 DEF Computed
  <2> QED BY <1>1, <1>3, <2>2, <2>3, NoteRowsKnown
<1>4. CASE k[1] \notin Notes
  <2>1. k[1] \in Transcripts
    BY <1>2, <1>4, KeysOfSource
  <2>2. batch[h] = {k[1]} /\ k[1] \in Present(textsSeen[h])
    <3>1. OfNotes(h) \/ OfChunks(h)
      BY <1>0 DEF Works, Working
    <3>2. Present(notesSeen[h]) \subseteq Notes
      BY SeenIn DEF IWork
    <3> QED BY <1>2, <1>4, <3>1, <3>2 DEF OfNotes, OfChunks
  <2>3. textsSeen[h][k[1]] \in Texts
    BY <2>2, SeenIn DEF IWork
  <2>4. k[2] \in Indices(Tokens[textsSeen[h][k[1]]])
    BY <1>1, <2>1 DEF NewKeys
  <2>5. titlesSeen[h][k[1]] \in AllTitles
    BY <1>0, <2>2 DEF HasRead
  <2>6. Computed(h, k) = ChunkRow(titlesSeen[h][k[1]], textsSeen[h][k[1]], k[2])
    BY <1>4 DEF Computed
  <2>7. k[2] \in Indices(MostTokens)
    BY <2>3, <2>4, LongestText
  <2> QED BY <1>1, <1>4, <2>2, <2>3, <2>4, <2>5, <2>6, <2>7, ChunkRowsKnown
<1> QED BY <1>3, <1>4

LEMMA CommitKept ==
    ASSUME IWork, NEW h \in Refreshes, Commit(h)
    PROVE  Shape' /\ Idles(h)' /\ Works(h)' /\ HasRead(h)'
<1>1. /\ pc[h] = "insert" /\ todo[h] = {} /\ UNCHANGED sources
      /\ rows' = [k \in Keys |-> IF k \in inserted[h] THEN Computed(h, k)
                                 ELSE IF k \in deleted[h] THEN Absent ELSE rows[k]]
      /\ todo' = [o \in Refreshes |-> IF pc[o] = "delete" THEN todo[o] \ deleted[h] ELSE todo[o]]
      /\ Release(h)
  BY DEF Commit
<1>2. rows' \in [Keys -> NoteRows \cup ChunkRows \cup {Absent}]
  BY <1>1, ComputedKnown DEF IWork, Shape
<1>3. /\ todo' \in [Refreshes -> SUBSET Keys] /\ todo'[h] = {}
      /\ deleted' \in [Refreshes -> SUBSET Keys] /\ deleted'[h] = {}
      /\ inserted' \in [Refreshes -> SUBSET Keys] /\ inserted'[h] = {}
  BY <1>1 DEF IWork, Shape, Release
<1>4. Idles(h) /\ Works(h) /\ HasRead(h)
  BY DEF IWork
<1>5. CASE ~ForNotes(h) /\ queue[h] = {}
  <2>0. Return(h, "200")
    BY <1>5 DEF Commit
  <2>1. /\ notesSeen' \in [Refreshes -> [Notes -> Titles \cup {Absent}]]
        /\ textsSeen' \in [Refreshes -> [Transcripts -> Texts \cup {Absent}]]
        /\ titlesSeen' \in [Refreshes -> [Transcripts -> AllTitles \cup {Absent}]]
    BY <2>0, EmptySeen DEF Return, IWork, Shape
  <2>2. /\ pc' \in [Refreshes -> Label] /\ pc'[h] = "done"
        /\ batch'[h] = {} /\ queue'[h] = {}
        /\ textsSeen'[h] = [t \in Transcripts |-> Absent]
    BY <2>0 DEF Return, Goto, IWork, Shape, Label
  <2>3. Shape'
    BY <1>1, <1>2, <1>3, <2>0, <2>1, <2>2 DEF Return, Goto, IWork, Shape, sources
  <2>4. Idles(h)' /\ Works(h)'
    BY <1>3, <2>2 DEF Idles, Works, Working
  <2>5. HasRead(h)'
    BY <2>2, EmptySeen DEF HasRead
  <2> QED BY <2>3, <2>4, <2>5
<1>6. CASE ~(~ForNotes(h) /\ queue[h] = {})
  <2>1. /\ Goto(h, IF ForNotes(h) THEN "read_transcripts" ELSE "next")
        /\ batch' = [batch EXCEPT ![h] = {}]
        /\ UNCHANGED <<answer, seen, queue, quiet>>
    BY <1>6 DEF Commit
  <2>2. /\ pc' \in [Refreshes -> Label] /\ pc'[h] \in {"read_transcripts", "next"}
        /\ batch' \in [Refreshes -> SUBSET (Notes \cup Transcripts)] /\ batch'[h] = {}
    BY <2>1 DEF Goto, IWork, Shape, Label
  <2>3. Shape'
    BY <1>1, <1>2, <1>3, <2>1, <2>2 DEF IWork, Shape, sources, seen
  <2>4. Idles(h)' /\ Works(h)'
    BY <1>3, <2>2 DEF Idles, Works, Working
  <2>5. HasRead(h)'
    BY <1>1, <1>4, <2>1, <2>2 DEF HasRead, seen
  <2> QED BY <2>3, <2>4, <2>5
<1> QED BY <1>5, <1>6

-----------------------------------------------------------------------------
(* Together.                                                               *)

LEMMA StepKinds ==
    ASSUME IWork, NEW h \in Refreshes, Moves(h)
    PROVE  \/ Begin(h) \/ ReadNotes(h) \/ CompareNotes(h) \/ ReadTranscripts(h) \/ ReadTitle(h)
           \/ CompareTranscripts(h) \/ NextTranscript(h) \/ Embedded(h) \/ DeleteRow(h)
           \/ Deleted(h) \/ InsertRow(h) \/ Commit(h)
           \/ EndWith(h, "500") /\ UNCHANGED <<sources, rows>>
BY DEF Moves, Step, Fail, BreakDeadlock, UniqueViolation

(* A step leaves everything of the other refreshes as it is, but that it   *)
(* begins while they run, and commits rows they wait to delete.            *)
LEMMA OthersKept ==
    ASSUME IWork, NEW h \in Refreshes, Moves(h), NEW o \in Refreshes, o # h
    PROVE  /\ pc'[o] = pc[o] /\ notesSeen'[o] = notesSeen[o] /\ textsSeen'[o] = textsSeen[o]
           /\ titlesSeen'[o] = titlesSeen[o] /\ queue'[o] = queue[o] /\ batch'[o] = batch[o]
           /\ deleted'[o] = deleted[o] /\ inserted'[o] = inserted[o] /\ answer'[o] = answer[o]
           /\ todo'[o] = IF Commit(h) /\ pc[o] = "delete" THEN todo[o] \ deleted[h] ELSE todo[o]
<1>1. CASE EndWith(h, "500") /\ UNCHANGED <<sources, rows>> /\ ~Commit(h)
  BY <1>1 DEF EndWith, Return, Goto, Release, IWork, Shape
<1>2. CASE Begin(h) /\ ~Commit(h)
  BY <1>2 DEF Begin, Goto, IWork, Shape, seen, work
<1>3. CASE ReadNotes(h) /\ ~Commit(h)
  BY <1>3 DEF ReadNotes, Goto, IWork, Shape, work
<1>4. CASE CompareNotes(h) /\ ~Commit(h)
  BY <1>4 DEF CompareNotes, Goto, IWork, Shape, seen
<1>5. CASE ReadTranscripts(h) /\ ~Commit(h)
  <2>1. CASE Present(text) = {}
    BY <1>5, <2>1 DEF ReadTranscripts, EndWith, Return, Goto, Release, IWork, Shape
  <2>2. CASE Present(text) # {}
    BY <1>5, <2>2 DEF ReadTranscripts, Goto, IWork, Shape
  <2> QED BY <2>1, <2>2
<1>6. CASE ReadTitle(h) /\ ~Commit(h)
  BY <1>6 DEF ReadTitle, IWork, Shape
<1>7. CASE CompareTranscripts(h) /\ ~Commit(h)
  <2>1. PICK pending \in SUBSET Present(textsSeen[h]) :
           IF pending = {}
           THEN EndWith(h, "200")
           ELSE /\ queue' = [queue EXCEPT ![h] = pending]
                /\ Goto(h, "next")
                /\ UNCHANGED <<seen, batch, todo, deleted, inserted, answer, quiet>>
    BY <1>7 DEF CompareTranscripts
  <2>2. CASE pending = {}
    BY <1>7, <2>1, <2>2 DEF EndWith, Return, Goto, Release, IWork, Shape
  <2>3. CASE pending # {}
    BY <1>7, <2>1, <2>3 DEF Goto, IWork, Shape, seen
  <2> QED BY <2>2, <2>3
<1>8. CASE NextTranscript(h) /\ ~Commit(h)
  BY <1>8 DEF NextTranscript, StartDelete, Goto, IWork, Shape, seen
<1>9. CASE Embedded(h) /\ ~Commit(h)
  <2>1. CASE ForNotes(h)
    BY <1>9, <2>1 DEF Embedded, StartDelete, Goto, IWork, Shape, seen
  <2>2. CASE ~ForNotes(h)
    BY <1>9, <2>2 DEF Embedded, Goto, IWork, Shape, seen
  <2> QED BY <2>1, <2>2
<1>10. CASE DeleteRow(h) /\ ~Commit(h)
  BY <1>10 DEF DeleteRow, IWork, Shape, seen
<1>11. CASE Deleted(h) /\ ~Commit(h)
  <2>1. CASE ForNotes(h) \/ NewKeys(h) = {}
    BY <1>11, <2>1 DEF Deleted, Goto, IWork, Shape, seen
  <2>2. CASE ~(ForNotes(h) \/ NewKeys(h) = {})
    BY <1>11, <2>2 DEF Deleted, Goto, IWork, Shape, seen
  <2> QED BY <2>1, <2>2
<1>12. CASE InsertRow(h) /\ ~Commit(h)
  BY <1>12 DEF InsertRow, IWork, Shape, seen
<1>13. CASE Commit(h)
  <2>1. /\ deleted'[o] = deleted[o] /\ inserted'[o] = inserted[o]
        /\ todo'[o] = IF pc[o] = "delete" THEN todo[o] \ deleted[h] ELSE todo[o]
    BY <1>13 DEF Commit, Release, IWork, Shape
  <2>2. CASE ~ForNotes(h) /\ queue[h] = {}
    <3>1. Return(h, "200")
      BY <1>13, <2>2 DEF Commit
    <3> QED BY <1>13, <2>1, <3>1 DEF Return, Goto, IWork, Shape
  <2>3. CASE ~(~ForNotes(h) /\ queue[h] = {})
    <3>1. /\ Goto(h, IF ForNotes(h) THEN "read_transcripts" ELSE "next")
          /\ batch' = [batch EXCEPT ![h] = {}]
          /\ UNCHANGED <<answer, seen, queue, quiet>>
      BY <1>13, <2>3 DEF Commit
    <3> QED BY <1>13, <2>1, <3>1 DEF Goto, IWork, Shape, seen
  <2> QED BY <2>2, <2>3
<1> QED
  BY <1>1, <1>2, <1>3, <1>4, <1>5, <1>6, <1>7, <1>8, <1>9, <1>10, <1>11, <1>12, <1>13, StepKinds

(* Only an edit changes the sources, only a commit the index, and with the *)
(* index nothing else that is shared.                                      *)
LEMMA SharedKept ==
    ASSUME IWork, NEW h \in Refreshes, Moves(h)
    PROVE  /\ UNCHANGED sources
           /\ ~Commit(h) => UNCHANGED rows
<1>1. ASSUME CompareTranscripts(h) PROVE UNCHANGED <<sources, rows>>
  BY <1>1 DEF CompareTranscripts
<1> QED BY <1>1, StepKinds DEF Begin, ReadNotes, CompareNotes, ReadTranscripts, ReadTitle,
           NextTranscript, Embedded, DeleteRow, Deleted, InsertRow, Commit

LEMMA EditKept ==
    ASSUME IWork, Edit
    PROVE  /\ IWork' /\ UNCHANGED <<rows, pc, seen, work, answer>>
           /\ quiet' = [h \in Refreshes |-> FALSE]
           /\ \A n \in Notes : note[n] # Absent => note'[n] # Absent
           /\ \A t \in Transcripts : text[t] # Absent => text'[t] # Absent
<1>1. Edited
  BY DEF Edit, CreateNote, PatchNote, PostTranscript
<1>2. /\ UNCHANGED <<rows, pc, seen, work, answer>> /\ quiet' = [h \in Refreshes |-> FALSE]
      /\ edits' \in 0..MaxEdits
  BY <1>1, ConvergenceAssumption DEF Edited, IWork, Shape
<1>3. \/ \E n \in Notes, title \in Titles : note' = [note EXCEPT ![n] = title] /\ UNCHANGED text
      \/ \E t \in Transcripts, content \in Texts :
            text' = [text EXCEPT ![t] = content] /\ UNCHANGED note
  BY DEF Edit, CreateNote, PatchNote, PostTranscript
<1>4. /\ note' \in [Notes -> Titles \cup {Absent}]
      /\ text' \in [Transcripts -> Texts \cup {Absent}]
      /\ \A n \in Notes : note[n] # Absent => note'[n] # Absent
      /\ \A t \in Transcripts : text[t] # Absent => text'[t] # Absent
  <2>1. CASE \E n \in Notes, title \in Titles :
               note' = [note EXCEPT ![n] = title] /\ UNCHANGED text
    BY <2>1, ConvergenceAssumption DEF IWork, Shape
  <2>2. CASE \E t \in Transcripts, content \in Texts :
               text' = [text EXCEPT ![t] = content] /\ UNCHANGED note
    BY <2>2, ConvergenceAssumption DEF IWork, Shape
  <2> QED BY <1>3, <2>1, <2>2
<1>5. Shape'
  BY <1>2, <1>4 DEF IWork, Shape, seen, work
<1>6. ASSUME NEW h \in Refreshes PROVE (Idles(h) /\ Works(h) /\ HasRead(h))'
  <2>1. Idles(h) /\ Works(h) /\ HasRead(h)
    BY DEF IWork
  <2>2. Idles(h)'
    BY <1>2, <2>1 DEF Idles, work
  <2>3. OfNotes(h)' = OfNotes(h) /\ OfChunks(h)' = OfChunks(h) /\ NewKeys(h)' = NewKeys(h)
    BY <1>2 DEF OfNotes, OfChunks, NewKeys, work, seen
  <2>4. Works(h)'
    BY <1>2, <2>1, <2>3 DEF Works, work
  <2>5. HasRead(h)'
    BY <1>2, <2>1 DEF HasRead, work, seen
  <2> QED BY <2>2, <2>4, <2>5
<1> QED BY <1>2, <1>4, <1>5, <1>6 DEF IWork

LEMMA WorkStep == IWork /\ [Next]_vars => IWork'
<1> SUFFICES ASSUME IWork, [Next]_vars PROVE IWork'
  OBVIOUS
<1>1. ASSUME NEW h \in Refreshes, Moves(h) PROVE IWork'
  <2>1. Shape' /\ Idles(h)' /\ Works(h)' /\ HasRead(h)'
    BY <1>1, StepKinds, EndKept, BeginKept, ReadNotesKept, CompareNotesKept,
       ReadTranscriptsKept, ReadTitleKept, CompareTranscriptsKept, NextTranscriptKept,
       EmbeddedKept, DeleteRowKept, DeletedKept, InsertRowKept, CommitKept
  <2>2. ASSUME NEW o \in Refreshes, o # h PROVE (Idles(o) /\ Works(o) /\ HasRead(o))'
    <3>1. Idles(o) /\ Works(o) /\ HasRead(o)
      BY DEF IWork
    <3>2. /\ pc'[o] = pc[o] /\ notesSeen'[o] = notesSeen[o] /\ textsSeen'[o] = textsSeen[o]
          /\ titlesSeen'[o] = titlesSeen[o] /\ queue'[o] = queue[o] /\ batch'[o] = batch[o]
          /\ deleted'[o] = deleted[o] /\ inserted'[o] = inserted[o]
          /\ todo'[o] \subseteq todo[o] /\ (pc[o] # "delete" => todo'[o] = todo[o])
      BY <1>1, <2>2, OthersKept
    <3>3. Idles(o)'
      BY <3>1, <3>2 DEF Idles
    <3>4. OfNotes(o)' = OfNotes(o) /\ OfChunks(o)' = OfChunks(o) /\ NewKeys(o)' = NewKeys(o)
      BY <3>2 DEF OfNotes, OfChunks, NewKeys
    <3>5. Works(o)'
      BY <3>1, <3>2, <3>4 DEF Works
    <3>6. HasRead(o)'
      BY <3>1, <3>2 DEF HasRead
    <3> QED BY <3>3, <3>5, <3>6
  <2> QED BY <2>1, <2>2 DEF IWork
<1>2. CASE Edit
  BY <1>2, EditKept
<1>3. CASE UNCHANGED vars
  <2>1. Shape'
    BY <1>3 DEF vars, sources, seen, work, IWork, Shape
  <2>2. ASSUME NEW h \in Refreshes PROVE (Idles(h) /\ Works(h) /\ HasRead(h))'
    <3>1. Idles(h) /\ Works(h) /\ HasRead(h)
      BY DEF IWork
    <3>2. OfNotes(h)' = OfNotes(h) /\ OfChunks(h)' = OfChunks(h) /\ NewKeys(h)' = NewKeys(h)
      BY <1>3 DEF OfNotes, OfChunks, NewKeys, vars, work, seen
    <3>3. Idles(h)'
      BY <1>3, <3>1 DEF Idles, vars, work
    <3>4. Works(h)'
      BY <1>3, <3>1, <3>2 DEF Works, vars, work
    <3>5. HasRead(h)'
      BY <1>3, <3>1 DEF HasRead, vars, work, seen
    <3> QED BY <3>3, <3>4, <3>5
  <2> QED BY <2>1, <2>2 DEF IWork
<1> QED BY <1>1, <1>2, <1>3 DEF Next, Moves, Quiet

LEMMA WorkInvariant == Spec => []IWork
BY WorkInit, WorkStep, PTL DEF Spec

(* The tables hold rows of their kinds, and a handler that has answered    *)
(* has nothing left: no row locked, no transcript queued.                  *)
THEOREM TypeCorrect == Spec => []TypeOK
<1>1. IWork => TypeOK
  BY DEF IWork, Shape, TypeOK, Idles, Active, Working, AllTitles
<1> QED BY <1>1, WorkInvariant, PTL

-----------------------------------------------------------------------------
(***************************************************************************)
(* The chunks of a transcript are replaced whole.  Of two refreshes that   *)
(* replace them, one commits first; the other then has nothing of what it  *)
(* meant to delete, and cannot insert the first chunk, which every set of  *)
(* chunks has, unless all of them are gone again.                          *)
(***************************************************************************)

(* What a refresh will have deleted when it commits.                       *)
Marked(h) == IF pc[h] = "delete" THEN deleted[h] \cup todo[h] ELSE deleted[h]

(* It has them all, or it has been overtaken.                              *)
Grasp(h) ==
    \A t \in Transcripts : batch[h] = {t} =>
        \/ Existing(t) = Marked(h)
        \/ Marked(h) = {} /\ <<t, 0>> \notin inserted[h]

Apart ==
    \A h, o \in Refreshes : h # o =>
        (deleted[h] \cup inserted[h]) \cap (deleted[o] \cup inserted[o]) = {}

WholeOf(t) ==
    \/ Existing(t) = {}
    \/ \E title \in AllTitles, x \in Texts :
          \A i \in Indices(MostTokens) : rows[<<t, i>>] = Chunk(title, x, i)

IIndex ==
    /\ IWork /\ Apart
    /\ \A h \in Refreshes : Grasp(h)
    /\ \A t \in Transcripts : WholeOf(t)

LEMMA ExistingOf ==
    ASSUME NEW t \in Transcripts
    PROVE  /\ Existing(t) = {<<t, i>> : i \in {j \in Indices(MostTokens) : rows[<<t, j>>] # Absent}}
           /\ \A i : <<t, i>> \in Existing(t) <=>
                        i \in Indices(MostTokens) /\ rows[<<t, i>>] # Absent
           /\ \A k \in Existing(t) : k \in Keys /\ k[1] = t
<1>1. KeysOf(t) = {<<t, i>> : i \in Indices(MostTokens)}
  BY KeysOfSource
<1>2. \A k \in KeysOf(t) : k \in Keys /\ k[1] = t
  BY DEF KeysOf
<1> QED BY <1>1, <1>2 DEF Existing

LEMMA ExistingIs ==
    ASSUME NEW t \in Transcripts
    PROVE  /\ \A k \in Existing(t) : \E i \in Indices(MostTokens) : k = <<t, i>>
           /\ (\A i \in Indices(MostTokens) : rows[<<t, i>>] = Absent) => Existing(t) = {}
BY KeysOfSource DEF Existing

LEMMA ChunkPresence ==
    ASSUME NEW title \in AllTitles, NEW x \in Texts, NEW i \in Indices(MostTokens)
    PROVE  /\ Chunk(title, x, i) = Absent <=> i \notin Indices(Tokens[x])
           /\ Chunk(title, x, i) # Absent => Tokens[x] # 0
           /\ Tokens[x] # 0 => 0 \in Indices(Tokens[x])
<1>1. Tokens[x] \in Nat
  BY ConvergenceAssumption
<1>2. i \in Indices(Tokens[x]) => Tokens[x] # 0
  BY <1>1, Windows
<1>3. Tokens[x] # 0 => 0 \in Indices(Tokens[x])
  BY <1>1, Windows
<1>4. ChunkRow(title, x, i) # Absent
  BY ChunkRowsKnown
<1> QED BY <1>2, <1>3, <1>4 DEF Chunk

LEMMA FirstChunk ==
    ASSUME NEW t \in Transcripts, WholeOf(t), Existing(t) # {}
    PROVE  <<t, 0>> \in Existing(t)
<1>1. PICK title \in AllTitles, x \in Texts :
         \A i \in Indices(MostTokens) : rows[<<t, i>>] = Chunk(title, x, i)
  BY DEF WholeOf
<1>2. PICK i \in Indices(MostTokens) : rows[<<t, i>>] # Absent
  <2>1. PICK k \in KeysOf(t) : rows[k] # Absent
    BY DEF Existing
  <2>2. \E i \in Indices(MostTokens) : k = <<t, i>>
    BY <2>1, KeysOfSource
  <2> QED BY <2>1, <2>2
<1>3. 0 \in Indices(Tokens[x])
  BY <1>1, <1>2, ChunkPresence
<1>4. 0 \in Indices(MostTokens)
  BY <1>3, LongestText
<1>5. rows[<<t, 0>>] # Absent
  BY <1>1, <1>3, <1>4, ChunkPresence
<1> QED BY <1>4, <1>5, ExistingOf

LEMMA CommitElsewhere ==
    ASSUME IWork, NEW h \in Refreshes, Commit(h), NEW k \in Keys, k[1] \notin batch[h]
    PROVE  rows'[k] = rows[k] /\ k \notin deleted[h]
<1>1. k \notin deleted[h] /\ k \notin inserted[h]
  BY DEF IWork, Works
<1> QED BY <1>1 DEF Commit

(* Of its transcript, a commit writes all chunks or none.                  *)
LEMMA CommitChunks ==
    ASSUME IIndex, NEW h \in Refreshes, Commit(h), NEW t \in Transcripts, batch[h] = {t}
    PROVE  /\ t \in Present(textsSeen[h])
           /\ titlesSeen[h][t] \in AllTitles /\ textsSeen[h][t] \in Texts
           /\ Tokens[textsSeen[h][t]] # 0 => <<t, 0>> \in inserted[h]
           /\ \/ /\ Tokens[textsSeen[h][t]] = 0 /\ deleted[h] = {}
                 /\ \A i \in Indices(MostTokens) : rows'[<<t, i>>] = rows[<<t, i>>]
              \/ /\ Existing(t) = deleted[h]
                 /\ \A i \in Indices(MostTokens) :
                       rows'[<<t, i>>] = Chunk(titlesSeen[h][t], textsSeen[h][t], i)
<1>1. /\ pc[h] = "insert" /\ todo[h] = {}
      /\ rows' = [k \in Keys |-> IF k \in inserted[h] THEN Computed(h, k)
                                 ELSE IF k \in deleted[h] THEN Absent ELSE rows[k]]
  BY DEF Commit
<1>2. Works(h) /\ HasRead(h) /\ Grasp(h) /\ WholeOf(t) /\ IWork
  BY DEF IIndex, IWork
<1>3. inserted[h] = NewKeys(h) /\ Marked(h) = deleted[h]
  BY <1>1, <1>2 DEF Works, Marked
<1>4. t \in Present(textsSeen[h])
  <2>1. OfNotes(h) \/ OfChunks(h)
    BY <1>1, <1>2 DEF Works, Working
  <2>2. ~OfNotes(h)
    BY <1>2, SeenIn, ConvergenceAssumption DEF OfNotes, IWork
  <2> QED BY <2>1, <2>2 DEF OfChunks
<1>5. PICK title \in AllTitles, x \in Texts : title = titlesSeen[h][t] /\ x = textsSeen[h][t]
  BY <1>1, <1>2, <1>4, SeenIn DEF HasRead, IWork
<1>6. \A i \in Indices(MostTokens) : <<t, i>> \in NewKeys(h) <=> i \in Indices(Tokens[x])
  <2> TAKE i \in Indices(MostTokens)
  <2>1. <<t, i>> \in Keys /\ <<t, i>>[1] = t /\ <<t, i>>[2] = i
    BY DEF Keys
  <2> QED BY <1>5, <2>1 DEF NewKeys
<1>7. Tokens[x] \in Nat /\ (Tokens[x] = 0 => Indices(Tokens[x]) = {})
      /\ (Tokens[x] # 0 => 0 \in Indices(Tokens[x]))
  BY Windows, ConvergenceAssumption
<1>8. Indices(Tokens[x]) \subseteq Indices(MostTokens)
  BY LongestText
<1>9. ASSUME NEW i \in Indices(MostTokens)
      PROVE  rows'[<<t, i>>] = IF i \in Indices(Tokens[x]) THEN ChunkRow(title, x, i)
                               ELSE IF <<t, i>> \in deleted[h] THEN Absent ELSE rows[<<t, i>>]
  <2>1. <<t, i>> \in Keys /\ <<t, i>>[1] = t /\ <<t, i>>[2] = i /\ t \notin Notes
    BY ConvergenceAssumption DEF Keys
  <2>2. Computed(h, <<t, i>>) = ChunkRow(title, x, i)
    BY <1>5, <2>1 DEF Computed
  <2> QED BY <1>1, <1>3, <1>6, <2>1, <2>2
<1>10. Tokens[x] # 0 => <<t, 0>> \in inserted[h]
  BY <1>3, <1>6, <1>7, <1>8
<1>11. CASE Existing(t) = deleted[h]
  <2>1. ASSUME NEW i \in Indices(MostTokens) PROVE rows'[<<t, i>>] = Chunk(title, x, i)
    <3>1. <<t, i>> \notin deleted[h] => rows[<<t, i>>] = Absent
      BY <1>11, ExistingOf
    <3> QED BY <1>9, <3>1 DEF Chunk
  <2> QED BY <1>4, <1>5, <1>10, <1>11, <2>1
<1>12. CASE deleted[h] = {} /\ <<t, 0>> \notin inserted[h]
  <2>1. Tokens[x] = 0 /\ Indices(Tokens[x]) = {}
    BY <1>7, <1>10, <1>12
  <2>2. \A i \in Indices(MostTokens) : rows'[<<t, i>>] = rows[<<t, i>>]
    BY <1>9, <1>12, <2>1
  <2> QED BY <1>4, <1>5, <1>10, <1>12, <2>1, <2>2
<1> QED BY <1>2, <1>3, <1>11, <1>12 DEF Grasp

LEMMA HeldKept ==
    ASSUME IWork, NEW h \in Refreshes, Moves(h)
    PROVE  \/ deleted'[h] \subseteq deleted[h] /\ inserted'[h] \subseteq inserted[h]
           \/ \E k \in Keys : /\ Free(h, k)
                              /\ deleted'[h] \cup inserted'[h] = deleted[h] \cup inserted[h] \cup {k}
<1>1. CASE DeleteRow(h)
  <2>1. PICK k \in todo[h] : Free(h, k) /\ deleted' = [deleted EXCEPT ![h] = @ \cup {k}]
    BY <1>1 DEF DeleteRow
  <2>2. UNCHANGED inserted
    BY <1>1 DEF DeleteRow
  <2>3. k \in Keys /\ deleted'[h] = deleted[h] \cup {k}
    BY <2>1 DEF IWork, Shape
  <2> QED BY <2>1, <2>2, <2>3
<1>2. CASE InsertRow(h)
  <2>1. PICK k \in todo[h] : Free(h, k) /\ inserted' = [inserted EXCEPT ![h] = @ \cup {k}]
    BY <1>2 DEF InsertRow
  <2>2. UNCHANGED deleted
    BY <1>2 DEF InsertRow
  <2>3. k \in Keys /\ inserted'[h] = inserted[h] \cup {k}
    BY <2>1 DEF IWork, Shape
  <2> QED BY <2>1, <2>2, <2>3
<1>3. CASE EndWith(h, "500")
  BY <1>3 DEF EndWith, Release, IWork, Shape
<1>4. CASE Commit(h)
  BY <1>4 DEF Commit, Release, IWork, Shape
<1>5. CASE ReadTranscripts(h)
  BY <1>5 DEF ReadTranscripts, EndWith, Release, IWork, Shape
<1>6. CASE CompareTranscripts(h)
  <2>1. \/ EndWith(h, "200")
        \/ UNCHANGED <<seen, batch, todo, deleted, inserted, answer, quiet>>
    BY <1>6 DEF CompareTranscripts
  <2>2. CASE EndWith(h, "200")
    BY <2>2 DEF EndWith, Release, IWork, Shape
  <2> QED BY <2>1, <2>2
<1>7. CASE Begin(h) \/ ReadNotes(h) \/ CompareNotes(h) \/ ReadTitle(h) \/ NextTranscript(h)
           \/ Embedded(h) \/ Deleted(h)
  BY <1>7 DEF Begin, ReadNotes, CompareNotes, ReadTitle, NextTranscript, Embedded, Deleted, work
<1> QED BY <1>1, <1>2, <1>3, <1>4, <1>5, <1>6, <1>7, StepKinds

LEMMA ApartStep ==
    ASSUME IWork, Apart, NEW h \in Refreshes, Moves(h)
    PROVE  Apart'
<1>1. ASSUME NEW o \in Refreshes, o # h
      PROVE  (deleted'[h] \cup inserted'[h]) \cap (deleted'[o] \cup inserted'[o]) = {}
  <2>1. deleted'[o] = deleted[o] /\ inserted'[o] = inserted[o]
    BY <1>1, OthersKept
  <2>2. (deleted[h] \cup inserted[h]) \cap (deleted[o] \cup inserted[o]) = {}
    BY <1>1 DEF Apart
  <2>3. CASE deleted'[h] \subseteq deleted[h] /\ inserted'[h] \subseteq inserted[h]
    BY <2>1, <2>2, <2>3
  <2>4. CASE \E k \in Keys : /\ Free(h, k)
                             /\ deleted'[h] \cup inserted'[h] = deleted[h] \cup inserted[h] \cup {k}
    <3>1. PICK k \in Keys : /\ Free(h, k)
                            /\ deleted'[h] \cup inserted'[h] = deleted[h] \cup inserted[h] \cup {k}
      BY <2>4
    <3>2. k \notin deleted[o] \cup inserted[o]
      BY <1>1, <3>1 DEF Free, Held
    <3> QED BY <2>1, <2>2, <3>1, <3>2
  <2> QED BY <2>3, <2>4, HeldKept
<1>2. ASSUME NEW a \in Refreshes, NEW o \in Refreshes, a # o, a # h, o # h
      PROVE  (deleted'[a] \cup inserted'[a]) \cap (deleted'[o] \cup inserted'[o]) = {}
  <2>1. /\ deleted'[o] = deleted[o] /\ inserted'[o] = inserted[o]
        /\ deleted'[a] = deleted[a] /\ inserted'[a] = inserted[a]
    BY <1>2, OthersKept
  <2> QED BY <1>2, <2>1 DEF Apart
<1> QED BY <1>1, <1>2 DEF Apart

(* What a step other than a commit leaves of a refresh's hold on a         *)
(* transcript.                                                             *)
LEMMA HoldKept ==
    ASSUME IIndex, IWork', NEW h \in Refreshes, Moves(h), ~Commit(h)
    PROVE  Grasp(h)'
<1>0. UNCHANGED rows
  BY SharedKept DEF IIndex
<1> SUFFICES ASSUME NEW t \in Transcripts, batch'[h] = {t}
             PROVE  \/ Existing(t) = Marked(h)'
                    \/ Marked(h)' = {} /\ <<t, 0>> \notin inserted'[h]
  BY <1>0 DEF Grasp, Existing
<1>1. IWork /\ Grasp(h) /\ WholeOf(t) /\ Idles(h) /\ Works(h) /\ Idles(h)'
  BY DEF IIndex, IWork
<1>2. pc'[h] \in Working
  BY <1>1 DEF Idles
<1>3. CASE NextTranscript(h)
  <2>1. PICK s \in queue[h] : batch' = [batch EXCEPT ![h] = {s}] /\ StartDelete(h, {s})
    BY <1>3 DEF NextTranscript
  <2>2. pc[h] = "next" /\ deleted' = deleted
    BY <1>3 DEF NextTranscript
  <2>3. s = t
    BY <1>1, <2>1 DEF IWork, Shape
  <2>5. UNION {Existing(x) : x \in {s}} = Existing(t)
    BY <2>3
  <2>6. todo' = [todo EXCEPT ![h] = Existing(t)] /\ Goto(h, "delete")
    BY <2>1, <2>5 DEF StartDelete
  <2>4. todo'[h] = Existing(t) /\ pc'[h] = "delete" /\ deleted'[h] = {}
    BY <1>1, <2>2, <2>6 DEF Goto, IWork, Shape, Idles, Working
  <2> QED BY <2>4 DEF Marked
<1>4. CASE Embedded(h)
  <2>1. batch[h] = {t} /\ ~ForNotes(h)
    BY <1>4, ConvergenceAssumption DEF Embedded, ForNotes
  <2>2. pc[h] = "embed" /\ Goto(h, "insert") /\ deleted' = deleted /\ inserted' = inserted
    BY <1>4, <2>1 DEF Embedded
  <2>3. pc'[h] = "insert"
    BY <1>1, <2>2 DEF Goto, IWork, Shape
  <2>4. Marked(h)' = Marked(h)
    BY <2>2, <2>3 DEF Marked
  <2> QED BY <1>1, <2>1, <2>2, <2>4 DEF Grasp
<1>5. CASE DeleteRow(h)
  <2>1. PICK k \in todo[h] : /\ deleted' = [deleted EXCEPT ![h] = @ \cup {k}]
                             /\ todo' = [todo EXCEPT ![h] = @ \ {k}]
    BY <1>5 DEF DeleteRow
  <2>2. pc[h] = "delete" /\ pc' = pc /\ batch' = batch /\ inserted' = inserted
    BY <1>5 DEF DeleteRow
  <2>3. deleted'[h] = deleted[h] \cup {k} /\ todo'[h] = todo[h] \ {k}
    BY <1>1, <2>1 DEF IWork, Shape
  <2>4. Marked(h)' = Marked(h)
    BY <2>1, <2>2, <2>3 DEF Marked
  <2> QED BY <1>1, <2>2, <2>4 DEF Grasp
<1>6. CASE Deleted(h)
  <2>1. /\ pc[h] = "delete" /\ todo[h] = {} /\ batch' = batch /\ deleted' = deleted
        /\ inserted' = inserted
    BY <1>6 DEF Deleted
  <2>2. pc'[h] # "delete"
    BY <1>1, <1>6 DEF Deleted, Goto, IWork, Shape
  <2>3. Marked(h)' = Marked(h)
    BY <2>1, <2>2 DEF Marked
  <2> QED BY <1>1, <2>1, <2>3 DEF Grasp
<1>7. CASE InsertRow(h)
  <2>1. PICK k \in todo[h] : /\ ~Taken(h, k)
                             /\ inserted' = [inserted EXCEPT ![h] = @ \cup {k}]
    BY <1>7 DEF InsertRow
  <2>2. pc[h] = "insert" /\ pc' = pc /\ batch' = batch /\ deleted' = deleted
    BY <1>7 DEF InsertRow
  <2>3. inserted'[h] = inserted[h] \cup {k} /\ Marked(h)' = Marked(h) /\ Marked(h) = deleted[h]
    BY <1>1, <2>1, <2>2 DEF IWork, Shape, Marked
  <2>4. ASSUME deleted[h] = {}, k = <<t, 0>> PROVE Existing(t) = {}
    <3>1. rows[<<t, 0>>] = Absent
      BY <2>1, <2>4 DEF Taken
    <3>2. <<t, 0>> \notin Existing(t)
      BY <3>1, ExistingOf
    <3> QED BY <1>1, <3>2, FirstChunk
  <2> QED BY <1>1, <2>2, <2>3, <2>4 DEF Grasp
<1>8. CASE CompareNotes(h)
  <2>1. batch'[h] = NotesPending(h) /\ NotesPending(h) \subseteq Notes
    BY <1>1, <1>8, SeenIn DEF CompareNotes, NotesPending, IWork, Shape
  <2> QED BY <2>1, ConvergenceAssumption
<1>9. CASE Begin(h) \/ ReadNotes(h) \/ ReadTranscripts(h) \/ ReadTitle(h) \/ CompareTranscripts(h)
           \/ EndWith(h, "500")
  <2>1. pc'[h] \notin Working
    <3>1. ASSUME Goto(h, "done") PROVE pc'[h] = "done"
      BY <1>1, <3>1 DEF Goto, IWork, Shape
    <3>2. CASE ReadTranscripts(h)
      BY <1>1, <3>1, <3>2 DEF ReadTranscripts, EndWith, Return, Goto, IWork, Shape, Working
    <3>3. CASE CompareTranscripts(h)
      <4>1. Goto(h, "done") \/ Goto(h, "next")
        BY <3>3 DEF CompareTranscripts, EndWith, Return
      <4> QED BY <1>1, <4>1 DEF Goto, IWork, Shape, Working
    <3>4. CASE EndWith(h, "500")
      BY <3>1, <3>4 DEF EndWith, Return, Working
    <3>5. CASE Begin(h) \/ ReadNotes(h) \/ ReadTitle(h)
      BY <1>1, <3>5 DEF Begin, ReadNotes, ReadTitle, Goto, IWork, Shape, Working
    <3> QED BY <1>9, <3>2, <3>3, <3>4, <3>5
  <2> QED BY <1>2, <2>1
<1> QED BY <1>1, <1>3, <1>4, <1>5, <1>6, <1>7, <1>8, <1>9, StepKinds

(* What a commit leaves of the others' hold, and of the transcripts.       *)
LEMMA CommitOvertakes ==
    ASSUME IIndex, NEW h \in Refreshes, Commit(h), NEW o \in Refreshes, o # h
    PROVE  Grasp(o)'
<1>0. IWork /\ Grasp(o) /\ Moves(h) /\ Works(o)
  BY DEF IIndex, IWork, Moves, Step
<1>1. /\ pc'[o] = pc[o] /\ batch'[o] = batch[o] /\ deleted'[o] = deleted[o]
      /\ inserted'[o] = inserted[o]
      /\ todo'[o] = IF pc[o] = "delete" THEN todo[o] \ deleted[h] ELSE todo[o]
  BY <1>0, OthersKept
<1>2. (deleted[h] \cup inserted[h]) \cap (deleted[o] \cup inserted[o]) = {}
  BY DEF IIndex, Apart
<1> SUFFICES ASSUME NEW t \in Transcripts, batch[o] = {t}
             PROVE  \/ Existing(t)' = Marked(o)'
                    \/ Marked(o)' = {} /\ <<t, 0>> \notin inserted[o]
  BY <1>1 DEF Grasp
<1>3. \/ Existing(t) = Marked(o)
      \/ Marked(o) = {} /\ <<t, 0>> \notin inserted[o]
  BY <1>0 DEF Grasp
<1>4. ASSUME \A i \in Indices(MostTokens) : rows'[<<t, i>>] = rows[<<t, i>>],
             deleted[h] \cap Marked(o) = {}
      PROVE  Existing(t)' = Existing(t) /\ Marked(o)' = Marked(o)
  <2>1. \A k \in KeysOf(t) : rows'[k] = rows[k]
    BY <1>4, KeysOfSource
  <2>2. Existing(t)' = Existing(t)
    BY <2>1 DEF Existing
  <2> QED BY <1>1, <1>4, <2>2 DEF Marked
<1>5. CASE batch[h] # {t}
  <2>1. t \notin batch[h]
    <3>1. OfNotes(h) \/ OfChunks(h)
      BY <1>0 DEF IWork, Works, Working, Commit
    <3>2. Present(notesSeen[h]) \cap Transcripts = {}
      BY <1>0, SeenIn, ConvergenceAssumption DEF IWork
    <3> QED BY <1>5, <3>1, <3>2 DEF OfNotes, OfChunks
  <2>2. ASSUME NEW i \in Indices(MostTokens) PROVE rows'[<<t, i>>] = rows[<<t, i>>]
    <3>1. <<t, i>> \in Keys /\ <<t, i>>[1] = t
      BY DEF Keys
    <3> QED BY <1>0, <2>1, <3>1, CommitElsewhere
  <2>3. deleted[h] \cap Marked(o) = {}
    <3>1. \A k \in deleted[h] : k[1] \in batch[h]
      BY <1>0 DEF IWork, Works
    <3>2. \A k \in Marked(o) : k[1] = t
      BY <1>0 DEF Works, Marked
    <3> QED BY <2>1, <3>1, <3>2
  <2> QED BY <1>3, <1>4, <2>2, <2>3
<1>6. CASE batch[h] = {t}
  <2>1. /\ titlesSeen[h][t] \in AllTitles /\ textsSeen[h][t] \in Texts
        /\ Tokens[textsSeen[h][t]] # 0 => <<t, 0>> \in inserted[h]
        /\ \/ /\ Tokens[textsSeen[h][t]] = 0 /\ deleted[h] = {}
              /\ \A i \in Indices(MostTokens) : rows'[<<t, i>>] = rows[<<t, i>>]
           \/ /\ Existing(t) = deleted[h]
              /\ \A i \in Indices(MostTokens) :
                    rows'[<<t, i>>] = Chunk(titlesSeen[h][t], textsSeen[h][t], i)
    BY <1>6, CommitChunks
  <2>2. CASE /\ deleted[h] = {}
             /\ \A i \in Indices(MostTokens) : rows'[<<t, i>>] = rows[<<t, i>>]
    BY <1>3, <1>4, <2>2
  <2>3. CASE /\ Existing(t) = deleted[h]
             /\ \A i \in Indices(MostTokens) :
                   rows'[<<t, i>>] = Chunk(titlesSeen[h][t], textsSeen[h][t], i)
    <3>1. Marked(o)' = {}
      <4>1. CASE Existing(t) = Marked(o)
        BY <1>1, <1>2, <2>3, <4>1 DEF Marked
      <4>2. CASE Marked(o) = {}
        BY <1>1, <4>2 DEF Marked
      <4> QED BY <1>3, <4>1, <4>2
    <3>2. CASE Tokens[textsSeen[h][t]] # 0
      BY <1>2, <2>1, <3>1, <3>2
    <3>3. CASE Tokens[textsSeen[h][t]] = 0
      <4>1. \A i \in Indices(MostTokens) : rows'[<<t, i>>] = Absent
        BY <2>1, <2>3, <3>3, ChunkPresence
      <4>2. \A k \in KeysOf(t) : rows'[k] = Absent
        BY <4>1, KeysOfSource
      <4>3. Existing(t)' = {}
        BY <4>2 DEF Existing
      <4> QED BY <3>1, <4>3
    <3> QED BY <3>2, <3>3
  <2> QED BY <2>1, <2>2, <2>3
<1> QED BY <1>5, <1>6

LEMMA CommitWhole ==
    ASSUME IIndex, NEW h \in Refreshes, Commit(h), NEW t \in Transcripts
    PROVE  WholeOf(t)'
<1>0. IWork /\ WholeOf(t)
  BY DEF IIndex
<1>1. ASSUME \A i \in Indices(MostTokens) : rows'[<<t, i>>] = rows[<<t, i>>]
      PROVE  WholeOf(t)'
  <2>1. \A k \in KeysOf(t) : rows'[k] = rows[k]
    BY <1>1, KeysOfSource
  <2>2. Existing(t)' = Existing(t)
    BY <2>1 DEF Existing
  <2> QED BY <1>0, <1>1, <2>2 DEF WholeOf
<1>2. CASE t \notin batch[h]
  <2>1. ASSUME NEW i \in Indices(MostTokens) PROVE rows'[<<t, i>>] = rows[<<t, i>>]
    <3>1. <<t, i>> \in Keys /\ <<t, i>>[1] = t
      BY DEF Keys
    <3> QED BY <1>0, <1>2, <3>1, CommitElsewhere
  <2> QED BY <1>1, <2>1
<1>3. CASE t \in batch[h]
  <2>1. batch[h] = {t}
    <3>1. OfNotes(h) \/ OfChunks(h)
      BY <1>0 DEF IWork, Works, Working, Commit
    <3>2. Present(notesSeen[h]) \cap Transcripts = {}
      BY <1>0, SeenIn, ConvergenceAssumption DEF IWork
    <3> QED BY <1>3, <3>1, <3>2 DEF OfNotes, OfChunks
  <2>2. PICK title \in AllTitles, x \in Texts :
           \/ \A i \in Indices(MostTokens) : rows'[<<t, i>>] = rows[<<t, i>>]
           \/ \A i \in Indices(MostTokens) : rows'[<<t, i>>] = Chunk(title, x, i)
    <3>1. /\ titlesSeen[h][t] \in AllTitles /\ textsSeen[h][t] \in Texts
          /\ \/ \A i \in Indices(MostTokens) : rows'[<<t, i>>] = rows[<<t, i>>]
             \/ \A i \in Indices(MostTokens) :
                   rows'[<<t, i>>] = Chunk(titlesSeen[h][t], textsSeen[h][t], i)
      BY <2>1, CommitChunks
    <3> QED BY <3>1
  <2> QED BY <1>1, <2>2 DEF WholeOf
<1> QED BY <1>2, <1>3

LEMMA IndexInit == Init => IIndex
<1> SUFFICES ASSUME Init PROVE IIndex
  OBVIOUS
<1>1. IWork
  BY WorkInit
<1>2. Apart /\ \A h \in Refreshes : Grasp(h)
  BY DEF Init, Apart, Grasp
<1>3. ASSUME NEW t \in Transcripts PROVE WholeOf(t)
  <2>1. CASE rows = [k \in Keys |-> Absent]
    <3>1. \A i \in Indices(MostTokens) : rows[<<t, i>>] = Absent
      BY <2>1 DEF Keys
    <3> QED BY <3>1, ExistingIs DEF WholeOf
  <2>2. CASE rows = DueNow
    <3>1. note \in [Notes -> Titles \cup {Absent}] /\ text \in [Transcripts -> Texts \cup {Absent}]
      BY DEF Init
    <3>2. \A i \in Indices(MostTokens) :
             rows[<<t, i>>] = IF text[t] = Absent THEN Absent ELSE Chunk(TitleOf(t), text[t], i)
      BY <2>2, <3>1, DueKnown
    <3>3. CASE text[t] = Absent
      <4>1. Existing(t) = {}
        BY <3>2, <3>3, ExistingIs
      <4> QED BY <4>1 DEF WholeOf
    <3>4. CASE text[t] # Absent
      <4>1. text[t] \in Texts /\ TitleOf(t) \in AllTitles
        BY <3>1, <3>4, TitleKnown
      <4> QED BY <3>2, <3>4, <4>1 DEF WholeOf
    <3> QED BY <3>3, <3>4
  <2> QED BY <2>1, <2>2 DEF Init
<1> QED BY <1>1, <1>2, <1>3 DEF IIndex

(* Nothing the index invariant speaks of but the rows and the refreshes.   *)
LEMMA IndexKept ==
    ASSUME IIndex, IWork', UNCHANGED <<rows, pc, work>>
    PROVE  IIndex'
<1>1. Apart'
  BY DEF IIndex, Apart, work
<1>2. \A t : Existing(t)' = Existing(t)
  BY DEF Existing
<1>3. ASSUME NEW h \in Refreshes PROVE Grasp(h)'
  <2>1. Grasp(h) /\ Marked(h)' = Marked(h)
    BY DEF IIndex, Marked, work
  <2> QED BY <1>2, <2>1 DEF Grasp, work
<1>4. ASSUME NEW t \in Transcripts PROVE WholeOf(t)'
  <2>1. WholeOf(t)
    BY DEF IIndex
  <2> QED BY <1>2, <2>1 DEF WholeOf
<1> QED BY <1>1, <1>3, <1>4 DEF IIndex

LEMMA IndexStep == IIndex /\ [Next]_vars => IIndex'
<1> SUFFICES ASSUME IIndex, [Next]_vars PROVE IIndex'
  OBVIOUS
<1>0. IWork /\ IWork'
  BY WorkStep DEF IIndex
<1>1. ASSUME NEW h \in Refreshes, Moves(h) PROVE IIndex'
  <2>1. Apart'
    BY <1>0, <1>1, ApartStep DEF IIndex
  <2>2. CASE Commit(h)
    <3>1. Grasp(h)'
      <4>1. batch'[h] = {}
        BY <1>0, <2>2 DEF Commit, Return, IWork, Shape
      <4> QED BY <4>1 DEF Grasp
    <3>2. \A o \in Refreshes : Grasp(o)'
      BY <2>2, <3>1, CommitOvertakes
    <3>3. \A t \in Transcripts : WholeOf(t)'
      BY <2>2, CommitWhole
    <3> QED BY <1>0, <2>1, <3>2, <3>3 DEF IIndex
  <2>3. CASE ~Commit(h)
    <3>1. UNCHANGED rows
      BY <1>0, <1>1, <2>3, SharedKept
    <3>2. \A t : Existing(t)' = Existing(t)
      BY <3>1 DEF Existing
    <3>3. ASSUME NEW t \in Transcripts PROVE WholeOf(t)'
      <4>1. WholeOf(t)
        BY DEF IIndex
      <4> QED BY <3>1, <3>2, <4>1 DEF WholeOf
    <3>4. ASSUME NEW o \in Refreshes, o # h PROVE Grasp(o)'
      <4>1. Grasp(o)
        BY DEF IIndex
      <4>2. /\ pc'[o] = pc[o] /\ batch'[o] = batch[o] /\ deleted'[o] = deleted[o]
            /\ inserted'[o] = inserted[o] /\ todo'[o] = todo[o]
        BY <1>0, <1>1, <2>3, <3>4, OthersKept
      <4>3. Marked(o)' = Marked(o)
        BY <4>2 DEF Marked
      <4> QED BY <3>2, <4>1, <4>2, <4>3 DEF Grasp
    <3>5. Grasp(h)'
      BY <1>0, <1>1, <2>3, HoldKept
    <3> QED BY <1>0, <2>1, <3>3, <3>4, <3>5 DEF IIndex
  <2> QED BY <2>2, <2>3
<1>2. CASE Edit
  BY <1>0, <1>2, EditKept, IndexKept
<1>3. CASE UNCHANGED vars
  BY <1>0, <1>3, IndexKept DEF vars
<1> QED BY <1>1, <1>2, <1>3 DEF Next, Moves, Quiet

LEMMA IndexInvariant == Spec => []IIndex
BY IndexInit, IndexStep, PTL DEF Spec

(* However refreshes of different texts overlap, the committed chunks of a *)
(* transcript are the windows of one text under one title, all of them.    *)
THEOREM ChunksAreWhole == Spec => []ChunksWhole
<1>1. IIndex => ChunksWhole
  <2> SUFFICES ASSUME IIndex, NEW t \in Transcripts, Existing(t) # {}
               PROVE  LET ks == Existing(t)
                          first == rows[<<t, 0>>]
                      IN  /\ <<t, 0>> \in ks /\ first.from = 0
                          /\ \A k \in ks :
                              /\ rows[k].sha = first.sha /\ rows[k].vector = first.vector
                              /\ LET n == Tokens[rows[k].vector[2]]
                                     after == <<t, k[2] + 1>>
                                 IN \/ rows[k].to = n /\ after \notin ks
                                    \/ /\ rows[k].to - rows[k].from = CHUNK_SIZE /\ after \in ks
                                       /\ rows[after].from = rows[k].to - CHUNK_OVERLAP
                                       /\ rows[after].to > rows[k].to
    BY DEF ChunksWhole
  <2>1. WholeOf(t)
    BY DEF IIndex
  <2>2. <<t, 0>> \in Existing(t)
    BY <2>1, FirstChunk
  <2>3. PICK title \in AllTitles, x \in Texts :
           \A i \in Indices(MostTokens) : rows[<<t, i>>] = Chunk(title, x, i)
    BY <2>1 DEF WholeOf
  <2>4. \A i : <<t, i>> \in Existing(t) <=> i \in Indices(Tokens[x])
    <3>1. Indices(Tokens[x]) \subseteq Indices(MostTokens)
      BY LongestText
    <3>2. \A i \in Indices(MostTokens) : rows[<<t, i>>] # Absent <=> i \in Indices(Tokens[x])
      BY <2>3, ChunkPresence
    <3> QED BY <3>1, <3>2, ExistingOf
  <2>5. \A i \in Indices(Tokens[x]) : rows[<<t, i>>] = ChunkRow(title, x, i)
    BY <2>3, <2>4, ExistingOf DEF Chunk
  <2>6. \A i \in Indices(Tokens[x]) :
           /\ rows[<<t, i>>].sha = <<title, x>> /\ rows[<<t, i>>].vector = <<title, x>>
           /\ rows[<<t, i>>].from = Start(i) /\ rows[<<t, i>>].to = End(i, Tokens[x])
    <3> TAKE i \in Indices(Tokens[x])
    <3>1. rows[<<t, i>>] = ChunkRow(title, x, i)
      BY <2>5
    <3>2. ChunkRow(title, x, i) = [sha |-> <<title, x>>, vector |-> <<title, x>>,
                                   from |-> Start(i), to |-> End(i, Tokens[x])]
      BY DEF ChunkRow, TranscriptSha
    <3> QED BY <3>1, <3>2
  <2>7. 0 \in Indices(Tokens[x]) /\ Start(0) = 0
    BY <2>2, <2>4, Stride
  <2>8. ASSUME NEW k \in Existing(t)
        PROVE  LET n == Tokens[rows[k].vector[2]]
                   after == <<t, k[2] + 1>>
               IN /\ rows[k].sha = <<title, x>> /\ rows[k].vector = <<title, x>>
                  /\ \/ rows[k].to = n /\ after \notin Existing(t)
                     \/ /\ rows[k].to - rows[k].from = CHUNK_SIZE /\ after \in Existing(t)
                        /\ rows[after].from = rows[k].to - CHUNK_OVERLAP
                        /\ rows[after].to > rows[k].to
    <3>1. PICK i \in Indices(Tokens[x]) : k = <<t, i>>
      BY <2>4, ExistingIs
    <3>2. k[2] = i /\ <<title, x>>[2] = x /\ rows[k].vector = <<title, x>>
      BY <2>6, <3>1
    <3>3. Tokens[x] \in Nat
      BY LongestText
    <3>4. i \in Nat /\ Start(i) \in Nat
      BY <3>3, Windows, Stride
    <3>5. CASE End(i, Tokens[x]) = Tokens[x]
      <4>1. <<t, i + 1>> \notin Existing(t)
        BY <2>4, <3>3, <3>5, Windows
      <4> QED BY <2>6, <3>1, <3>2, <3>5, <4>1
    <3>6. CASE End(i, Tokens[x]) # Tokens[x]
      <4>1. /\ i + 1 \in Indices(Tokens[x]) /\ End(i, Tokens[x]) = Start(i) + CHUNK_SIZE
            /\ Start(i + 1) = End(i, Tokens[x]) - CHUNK_OVERLAP
            /\ End(i + 1, Tokens[x]) > End(i, Tokens[x])
        BY <3>3, <3>6, Windows
      <4>2. <<t, i + 1>> \in Existing(t)
        BY <2>4, <4>1
      <4>3. End(i, Tokens[x]) - Start(i) = CHUNK_SIZE
        BY <3>4, <4>1, ConvergenceAssumption
      <4>4. /\ rows[<<t, i + 1>>].from = Start(i + 1)
            /\ rows[<<t, i + 1>>].to = End(i + 1, Tokens[x])
        BY <2>6, <4>1
      <4>5. rows[k].from = Start(i) /\ rows[k].to = End(i, Tokens[x]) /\ rows[k].sha = <<title, x>>
        BY <2>6, <3>1
      <4> QED BY <3>2, <4>1, <4>2, <4>3, <4>4, <4>5
    <3> QED BY <3>5, <3>6
  <2> QED BY <2>2, <2>6, <2>7, <2>8
<1> QED BY <1>1, IndexInvariant, PTL

LEMMA NotEmptied ==
    ASSUME IIndex, NEW h \in Refreshes, Commit(h), NEW t \in Transcripts, batch[h] = {t}
    PROVE  /\ t \in Present(textsSeen[h])
           /\ (\A k \in KeysOf(t) : rows'[k] = Absent) =>
                 Tokens[textsSeen[h][t]] = 0
<1>1. /\ t \in Present(textsSeen[h])
      /\ titlesSeen[h][t] \in AllTitles /\ textsSeen[h][t] \in Texts
      /\ \/ Tokens[textsSeen[h][t]] = 0
         \/ \A i \in Indices(MostTokens) :
               rows'[<<t, i>>] = Chunk(titlesSeen[h][t], textsSeen[h][t], i)
  BY CommitChunks
<1>2. PICK title \in AllTitles, x \in Texts : title = titlesSeen[h][t] /\ x = textsSeen[h][t]
  BY <1>1
<1>3. ASSUME Tokens[x] # 0 PROVE \E k \in KeysOf(t) : rows'[k] # Absent
  <2>1. Tokens[x] \in Nat /\ Indices(Tokens[x]) \subseteq Indices(MostTokens)
    BY LongestText
  <2>2. 0 \in Indices(Tokens[x])
    BY <1>3, <2>1, Windows
  <2>3. rows'[<<t, 0>>] = Chunk(title, x, 0)
    BY <1>1, <1>2, <1>3, <2>1, <2>2
  <2>4. Chunk(title, x, 0) # Absent
    BY <2>1, <2>2, ChunkPresence
  <2>5. <<t, 0>> \in KeysOf(t)
    BY <2>1, <2>2, KeysOfSource
  <2> QED BY <2>3, <2>4, <2>5
<1> QED BY <1>1, <1>2, <1>3

(* While its chunks are replaced a transcript does not lose them: they go  *)
(* only with the commit of a refresh that is at this transcript and has    *)
(* read a text of it without tokens.                                       *)
THEOREM ChunksStay == Spec => ChunksNeverVanish
<1>1. IIndex /\ [Next]_vars =>
        \A t \in Transcripts :
          (\E k \in KeysOf(t) : rows[k] # Absent) /\ (\A k \in KeysOf(t) : rows'[k] = Absent)
            => \E h \in Refreshes : /\ pc[h] = "insert" /\ pc'[h] # "insert" /\ batch[h] = {t}
                                   /\ textsSeen[h][t] # Absent /\ Tokens[textsSeen[h][t]] = 0
  <2> SUFFICES ASSUME IIndex, [Next]_vars, NEW t \in Transcripts, NEW k \in KeysOf(t),
                      rows[k] # Absent, \A l \in KeysOf(t) : rows'[l] = Absent
               PROVE  \E h \in Refreshes : /\ pc[h] = "insert" /\ pc'[h] # "insert" /\ batch[h] = {t}
                                          /\ textsSeen[h][t] # Absent /\ Tokens[textsSeen[h][t]] = 0
    OBVIOUS
  <2>0. IWork
    BY DEF IIndex
  <2>1. PICK h \in Refreshes : Commit(h)
    <3>1. ~UNCHANGED rows
      OBVIOUS
    <3>2. CASE Edit
      BY <2>0, <3>1, <3>2, EditKept
    <3>3. CASE \E h \in Refreshes : Moves(h)
      BY <2>0, <3>1, <3>3, SharedKept
    <3> QED BY <3>1, <3>2, <3>3 DEF Next, Moves, Quiet, vars
  <2>2. PICK i \in Indices(MostTokens) : k = <<t, i>>
    BY KeysOfSource
  <2>3. batch[h] = {t}
    <3>1. k \in Keys /\ k[1] = t
      BY DEF KeysOf
    <3>2. t \in batch[h]
      BY <2>0, <2>1, <3>1, CommitElsewhere
    <3>3. OfNotes(h) \/ OfChunks(h)
      BY <2>0, <2>1 DEF IWork, Works, Working, Commit
    <3>4. Present(notesSeen[h]) \cap Transcripts = {}
      BY <2>0, SeenIn, ConvergenceAssumption DEF IWork
    <3> QED BY <3>2, <3>3, <3>4 DEF OfNotes, OfChunks
  <2>4. t \in Present(textsSeen[h]) /\ Tokens[textsSeen[h][t]] = 0
    BY <2>1, <2>3, NotEmptied
  <2>5. textsSeen[h][t] # Absent
    BY <2>0, <2>4, SeenIn DEF IWork
  <2>6. pc[h] = "insert" /\ pc'[h] # "insert"
    BY <2>0, <2>1 DEF IWork, Shape, Commit, Return, Goto
  <2> QED BY <2>3, <2>4, <2>5, <2>6
<1> QED BY <1>1, IndexInvariant, PTL DEF Spec, ChunksNeverVanish

-----------------------------------------------------------------------------
(***************************************************************************)
(* A refresh that runs alone: what it has found out about the index by     *)
(* each of its labels.                                                     *)
(***************************************************************************)
NoteCurrent(n) == rows[<<n, 0>>] = DueNow[<<n, 0>>]
TextCurrent(t) == \A i \in Indices(MostTokens) : rows[<<t, i>>] = DueNow[<<t, i>>]
Stale(t) == \A sha \in Kept(t) : sha # TranscriptSha(TitleOf(t), text[t])

(* Notes and transcripts do not go, and only those there are have been     *)
(* read or embedded.                                                       *)
There ==
    /\ \A n \in Notes : /\ rows[<<n, 0>>] \in NoteRows \cup {Absent}
                        /\ rows[<<n, 0>>] # Absent => note[n] # Absent
    /\ \A t \in Transcripts, i \in Indices(MostTokens) :
          rows[<<t, i>>] # Absent => text[t] # Absent
    /\ \A h \in Refreshes :
          /\ \A n \in Notes : notesSeen[h][n] # Absent => note[n] # Absent
          /\ \A t \in Transcripts : textsSeen[h][t] # Absent => text[t] # Absent

OnNotes(h) == pc[h] \in Working /\ ForNotes(h)
OnChunks(h) == pc[h] \in Working /\ ~ForNotes(h)

Alone(h) == Active(h) /\ \A o \in Refreshes \ {h} : ~Active(o)
NotesUpToDate(h) ==
    /\ pc[h] # "read_notes" => notesSeen[h] = note
    /\ OnNotes(h) => batch[h] = NotesPending(h) /\ batch[h] # {}
    /\ pc[h] \in {"read_transcripts", "titles", "next"} \/ OnChunks(h) =>
          \A n \in Notes : NoteCurrent(n)
TextsRead(h) ==
    pc[h] \in {"titles", "next"} \/ OnChunks(h) =>
        /\ textsSeen[h] = text
        /\ \A t \in Present(text) :
              (pc[h] = "titles" /\ t \in queue[h]) \/ titlesSeen[h][t] = TitleOf(t)
TextsUpToDate(h) ==
    /\ pc[h] = "next" \/ OnChunks(h) =>
          \A t \in Present(text) :
              IF t \in queue[h] \cup batch[h] THEN Stale(t) ELSE TextCurrent(t)
    /\ OnChunks(h) =>
          \A t \in batch[h] : /\ Existing(t) = Marked(h) /\ t \notin queue[h]
                              /\ pc[h] = "embed" => Tokens[text[t]] # 0

UpToDate(h) == quiet[h] => Alone(h) /\ NotesUpToDate(h) /\ TextsRead(h) /\ TextsUpToDate(h)

IQuiet == IIndex /\ There /\ \A h \in Refreshes : UpToDate(h)

(* What is read of a note or a transcript, and of what is due.             *)
LEMMA NoteIsCurrent ==
    ASSUME IWork, There, NEW n \in Notes
    PROVE  /\ Existing(n) = {k \in {<<n, 0>>} : rows[k] # Absent}
           /\ note[n] = Absent => NoteCurrent(n)
           /\ note[n] # Absent =>
                 (NoteCurrent(n) <=> \E k \in Existing(n) : rows[k].sha = NoteSha(note[n]))
<1>0. /\ note \in [Notes -> Titles \cup {Absent}]
      /\ text \in [Transcripts -> Texts \cup {Absent}]
  BY DEF IWork, Shape
<1>1. DueNow[<<n, 0>>] = IF note[n] = Absent THEN Absent ELSE NoteRow(note[n])
  BY <1>0, DueKnown
<1>2. Existing(n) = {k \in {<<n, 0>>} : rows[k] # Absent}
  <2>1. KeysOf(n) = {<<n, 0>>}
    BY KeysOfSource
  <2> QED BY <2>1 DEF Existing
<1>3. CASE note[n] = Absent
  <2>1. rows[<<n, 0>>] = Absent
    BY <1>3 DEF There
  <2> QED BY <1>1, <1>2, <1>3, <2>1 DEF NoteCurrent
<1>4. CASE note[n] # Absent
  <2>1. note[n] \in Titles /\ NoteRow(note[n]) # Absent
    BY <1>0, <1>4, NoteRowsKnown
  <2>2. CASE rows[<<n, 0>>] = Absent
    <3>1. ~NoteCurrent(n)
      BY <1>1, <1>4, <2>1, <2>2 DEF NoteCurrent
    <3> QED BY <1>2, <1>4, <2>2, <3>1
  <2>3. CASE rows[<<n, 0>>] # Absent
    <3>1. PICK c \in Titles : rows[<<n, 0>>] = NoteRow(c)
      BY <2>3 DEF There, NoteRows
    <3>2. NoteRow(c).sha = NoteSha(note[n]) <=> c = note[n]
      BY DEF NoteRow, NoteSha
    <3>3. NoteRow(c) = NoteRow(note[n]) => NoteRow(c).sha = NoteSha(note[n])
      BY DEF NoteRow, NoteSha
    <3>4. NoteCurrent(n) <=> c = note[n]
      BY <1>1, <1>4, <3>1, <3>2, <3>3 DEF NoteCurrent
    <3> QED BY <1>2, <1>4, <2>3, <3>1, <3>2, <3>4
  <2> QED BY <2>2, <2>3
<1> QED BY <1>2, <1>3, <1>4

LEMMA TextIsCurrent ==
    ASSUME IIndex, There, NEW t \in Transcripts
    PROVE  /\ text[t] = Absent => TextCurrent(t)
           /\ text[t] # Absent =>
                 /\ \A sha \in Kept(t) : sha = TranscriptSha(TitleOf(t), text[t]) => TextCurrent(t)
                 /\ \A sha \in Kept(t) : sha # TranscriptSha(TitleOf(t), text[t]) => Stale(t)
                 /\ Stale(t) /\ Tokens[text[t]] # 0 => ~TextCurrent(t)
<1>0. /\ note \in [Notes -> Titles \cup {Absent}]
      /\ text \in [Transcripts -> Texts \cup {Absent}]
      /\ WholeOf(t)
  BY DEF IIndex, IWork, Shape
<1>1. \A i \in Indices(MostTokens) :
         DueNow[<<t, i>>] = IF text[t] = Absent THEN Absent ELSE Chunk(TitleOf(t), text[t], i)
  BY <1>0, DueKnown
<1>2. CASE text[t] = Absent
  <2>1. \A i \in Indices(MostTokens) : rows[<<t, i>>] = Absent
    BY <1>2 DEF There
  <2> QED BY <1>1, <1>2, <2>1 DEF TextCurrent
<1>3. CASE text[t] # Absent
  <2>1. PICK due \in AllTitles, now \in Texts : due = TitleOf(t) /\ now = text[t]
    BY <1>0, <1>3, TitleKnown
  <2>2. \A i \in Indices(MostTokens) : DueNow[<<t, i>>] = Chunk(due, now, i)
    BY <1>1, <1>3, <2>1
  <2>3. TranscriptSha(TitleOf(t), text[t]) = <<due, now>> /\ <<due, now>> # Absent
    <3>1. <<due, now>> \in (Titles \cup {Filename}) \X Texts
      BY DEF AllTitles
    <3> QED BY <2>1, <3>1, AbsentAssumption DEF TranscriptSha
  <2>4. Tokens[now] \in Nat /\ Indices(Tokens[now]) \subseteq Indices(MostTokens)
    BY LongestText
  <2>5. CASE Existing(t) = {}
    <3>1. Kept(t) = {Absent}
      BY <2>5 DEF Kept
    <3>2. ASSUME Tokens[now] # 0 PROVE ~TextCurrent(t)
      <4>1. 0 \in Indices(Tokens[now]) /\ 0 \in Indices(MostTokens)
        BY <2>4, <3>2, Windows
      <4>2. DueNow[<<t, 0>>] # Absent
        BY <2>2, <4>1, ChunkPresence
      <4>3. rows[<<t, 0>>] = Absent
        BY <2>5, <4>1, ExistingOf
      <4> QED BY <4>1, <4>2, <4>3 DEF TextCurrent
    <3>3. Stale(t)
      BY <2>3, <3>1 DEF Stale
    <3> QED BY <1>3, <2>1, <2>3, <3>1, <3>2, <3>3
  <2>6. CASE Existing(t) # {}
    <3>1. PICK title \in AllTitles, x \in Texts :
             \A i \in Indices(MostTokens) : rows[<<t, i>>] = Chunk(title, x, i)
      BY <1>0, <2>6 DEF WholeOf
    <3>2. ASSUME NEW k \in Existing(t) PROVE rows[k].sha = <<title, x>>
      <4>1. PICK i \in Indices(MostTokens) : k = <<t, i>>
        BY ExistingIs
      <4>2. rows[k] # Absent
        BY DEF Existing
      <4>3. rows[k] = ChunkRow(title, x, i)
        BY <3>1, <4>1, <4>2 DEF Chunk
      <4> QED BY <4>3 DEF ChunkRow, TranscriptSha
    <3>3. Kept(t) = {<<title, x>>}
      BY <2>6, <3>2 DEF Kept
    <3>4. <<title, x>> = <<due, now>> => TextCurrent(t)
      BY <2>2, <3>1 DEF TextCurrent
    <3>5. ASSUME <<title, x>> # <<due, now>> PROVE Stale(t) /\ ~TextCurrent(t)
      <4>1. Stale(t)
        BY <2>3, <3>3, <3>5 DEF Stale
      <4>2. PICK k \in Existing(t) : TRUE
        BY <2>6
      <4>3. PICK i \in Indices(MostTokens) : k = <<t, i>> /\ rows[<<t, i>>] # Absent
        BY ExistingIs DEF Existing
      <4>4. rows[<<t, i>>].sha = <<title, x>>
        BY <3>2, <4>2, <4>3
      <4>5. rows[<<t, i>>] # ChunkRow(due, now, i)
        BY <3>5, <4>4 DEF ChunkRow, TranscriptSha
      <4>6. rows[<<t, i>>] # DueNow[<<t, i>>]
        BY <2>2, <4>3, <4>5 DEF Chunk
      <4> QED BY <4>1, <4>3, <4>6 DEF TextCurrent
    <3> QED BY <1>3, <2>3, <3>3, <3>4, <3>5 DEF Stale
  <2> QED BY <2>5, <2>6
<1> QED BY <1>2, <1>3

LEMMA AllCurrent ==
    ASSUME IWork, \A n \in Notes : NoteCurrent(n), \A t \in Transcripts : TextCurrent(t)
    PROVE  rows = DueNow
<1>1. \A k \in Keys : rows[k] = DueNow[k]
  BY DEF Keys, NoteCurrent, TextCurrent
<1>2. rows = [k \in Keys |-> rows[k]] /\ DueNow = [k \in Keys |-> DueNow[k]]
  BY DEF IWork, Shape, DueNow
<1> QED BY <1>1, <1>2, Zenon

-----------------------------------------------------------------------------
(* There.                                                                  *)

LEMMA SeenKept ==
    ASSUME IWork, NEW h \in Refreshes, Moves(h)
    PROVE  /\ notesSeen'[h] \in {notesSeen[h], note, [n \in Notes |-> Absent]}
           /\ textsSeen'[h] \in {textsSeen[h], text, [t \in Transcripts |-> Absent]}
<1>1. ASSUME NEW status, Return(h, status)
      PROVE  /\ notesSeen'[h] = [n \in Notes |-> Absent]
             /\ textsSeen'[h] = [t \in Transcripts |-> Absent]
  BY <1>1 DEF Return, IWork, Shape
<1>2. CASE ReadNotes(h)
  BY <1>2 DEF ReadNotes, IWork, Shape
<1>3. CASE ReadTranscripts(h)
  <2>1. \/ Return(h, "200")
        \/ textsSeen' = [textsSeen EXCEPT ![h] = text] /\ notesSeen' = notesSeen
    BY <1>3 DEF ReadTranscripts, EndWith
  <2> QED BY <1>1, <2>1 DEF IWork, Shape
<1>4. CASE CompareTranscripts(h)
  <2>1. Return(h, "200") \/ UNCHANGED <<seen, batch, todo, deleted, inserted, answer, quiet>>
    BY <1>4 DEF CompareTranscripts, EndWith
  <2> QED BY <1>1, <2>1 DEF seen
<1>5. CASE Commit(h)
  <2>1. Return(h, "200") \/ UNCHANGED <<answer, seen, queue, quiet>>
    BY <1>5 DEF Commit
  <2> QED BY <1>1, <2>1 DEF seen
<1>6. CASE EndWith(h, "500")
  BY <1>1, <1>6 DEF EndWith
<1>7. CASE Begin(h) \/ CompareNotes(h) \/ ReadTitle(h) \/ NextTranscript(h) \/ Embedded(h)
           \/ DeleteRow(h) \/ Deleted(h) \/ InsertRow(h)
  BY <1>7 DEF Begin, CompareNotes, ReadTitle, NextTranscript, Embedded, DeleteRow, Deleted,
              InsertRow, seen
<1> QED BY <1>2, <1>3, <1>4, <1>5, <1>6, <1>7, StepKinds

LEMMA ThereStep == IWork /\ There /\ [Next]_vars => There'
<1> SUFFICES ASSUME IWork, There, [Next]_vars PROVE There'
  OBVIOUS
<1>1. ASSUME NEW h \in Refreshes, Moves(h) PROVE There'
  <2>1. UNCHANGED <<note, text>>
    BY <1>1, SharedKept DEF sources
  <2>2. ASSUME NEW o \in Refreshes
        PROVE  /\ \A n \in Notes : notesSeen'[o][n] # Absent => note[n] # Absent
               /\ \A t \in Transcripts : textsSeen'[o][t] # Absent => text[t] # Absent
    <3>1. CASE o = h
      BY <1>1, <3>1, SeenKept DEF There
    <3>2. CASE o # h
      <4>1. notesSeen'[o] = notesSeen[o] /\ textsSeen'[o] = textsSeen[o]
        BY <1>1, <3>2, OthersKept
      <4> QED BY <4>1 DEF There
    <3> QED BY <3>1, <3>2
  <2>3. ASSUME NEW k \in Keys
        PROVE  \/ rows'[k] = rows[k] \/ rows'[k] = Absent
               \/ k[1] \in Notes /\ rows'[k] \in NoteRows /\ note[k[1]] # Absent
               \/ k[1] \notin Notes /\ text[k[1]] # Absent
    <3>1. CASE ~Commit(h)
      BY <1>1, <3>1, SharedKept
    <3>2. CASE Commit(h)
      <4>0. pc[h] = "insert" /\ rows' = [l \in Keys |->
                   IF l \in inserted[h] THEN Computed(h, l)
                   ELSE IF l \in deleted[h] THEN Absent ELSE rows[l]]
        BY <3>2 DEF Commit
      <4>1. CASE k \notin inserted[h]
        BY <4>0, <4>1
      <4>2. CASE k \in inserted[h] /\ k[1] \in Notes
        <5>1. notesSeen[h][k[1]] \in Titles /\ Computed(h, k) = NoteRow(notesSeen[h][k[1]])
          BY <4>0, <4>2, ComputedKnown
        <5>2. notesSeen[h][k[1]] # Absent
          BY <5>1, ConvergenceAssumption
        <5>3. note[k[1]] # Absent
          BY <4>2, <5>2 DEF There
        <5> QED BY <4>0, <4>2, <5>1, <5>3, NoteRowsKnown
      <4>3. CASE k \in inserted[h] /\ k[1] \notin Notes
        <5>1. textsSeen[h][k[1]] \in Texts /\ k[1] \in Transcripts
          BY <4>0, <4>3, ComputedKnown, KeysOfSource
        <5>2. textsSeen[h][k[1]] # Absent
          BY <5>1, ConvergenceAssumption
        <5> QED BY <4>3, <5>1, <5>2 DEF There
      <4> QED BY <4>1, <4>2, <4>3
    <3> QED BY <3>1, <3>2
  <2>4. ASSUME NEW n \in Notes
        PROVE  rows'[<<n, 0>>] \in NoteRows \cup {Absent} /\ (rows'[<<n, 0>>] # Absent => note[n] # Absent)
    <3>1. <<n, 0>> \in Keys /\ <<n, 0>>[1] = n
      BY DEF Keys
    <3> QED BY <2>3, <3>1 DEF There
  <2>5. ASSUME NEW t \in Transcripts, NEW i \in Indices(MostTokens)
        PROVE  rows'[<<t, i>>] # Absent => text[t] # Absent
    <3>1. <<t, i>> \in Keys /\ <<t, i>>[1] = t /\ t \notin Notes
      BY ConvergenceAssumption DEF Keys
    <3> QED BY <2>3, <3>1 DEF There
  <2> QED BY <2>1, <2>2, <2>4, <2>5 DEF There
<1>2. CASE Edit
  <2>1. /\ UNCHANGED <<rows, notesSeen, textsSeen>>
        /\ \A n \in Notes : note[n] # Absent => note'[n] # Absent
        /\ \A t \in Transcripts : text[t] # Absent => text'[t] # Absent
    BY <1>2, EditKept DEF seen
  <2> QED BY <2>1 DEF There
<1>3. CASE UNCHANGED vars
  BY <1>3 DEF vars, sources, seen, There
<1> QED BY <1>1, <1>2, <1>3 DEF Next, Moves, Quiet

LEMMA ThereInit == Init => There
<1> SUFFICES ASSUME Init PROVE There
  OBVIOUS
<1>1. /\ note \in [Notes -> Titles \cup {Absent}]
      /\ text \in [Transcripts -> Texts \cup {Absent}]
  BY DEF Init
<1>2. /\ \A h \in Refreshes : \A n \in Notes : notesSeen[h][n] = Absent
      /\ \A h \in Refreshes : \A t \in Transcripts : textsSeen[h][t] = Absent
  BY DEF Init
<1>3. ASSUME NEW n \in Notes
      PROVE  rows[<<n, 0>>] \in NoteRows \cup {Absent} /\ (rows[<<n, 0>>] # Absent => note[n] # Absent)
  <2>1. CASE rows = [k \in Keys |-> Absent]
    BY <2>1 DEF Keys
  <2>2. CASE rows = DueNow
    <3>1. DueNow[<<n, 0>>] = IF note[n] = Absent THEN Absent ELSE NoteRow(note[n])
      BY <1>1, DueKnown
    <3>2. note[n] # Absent => NoteRow(note[n]) \in NoteRows
      BY <1>1, NoteRowsKnown
    <3> QED BY <2>2, <3>1, <3>2
  <2> QED BY <2>1, <2>2 DEF Init
<1>4. ASSUME NEW t \in Transcripts, NEW i \in Indices(MostTokens)
      PROVE  rows[<<t, i>>] # Absent => text[t] # Absent
  <2>1. CASE rows = [k \in Keys |-> Absent]
    BY <2>1 DEF Keys
  <2>2. CASE rows = DueNow
    <3>1. DueNow[<<t, i>>] = IF text[t] = Absent THEN Absent ELSE Chunk(TitleOf(t), text[t], i)
      BY <1>1, DueKnown
    <3> QED BY <2>2, <3>1
  <2> QED BY <2>1, <2>2 DEF Init
<1> QED BY <1>2, <1>3, <1>4 DEF There

-----------------------------------------------------------------------------
(* The steps of a refresh that runs alone.                                 *)

LEMMA QuietKept ==
    ASSUME IWork, NEW o \in Refreshes, Moves(o)
    PROVE  \/ /\ Begin(o) /\ pc'[o] = "read_notes"
              /\ \A h \in Refreshes : quiet'[h] => h = o /\ \A g \in Refreshes : ~Active(g)
           \/ /\ Active(o) /\ \A h \in Refreshes : quiet'[h] => quiet[h]
              /\ quiet'[o] => Active(o)'
<1>1. CASE Begin(o)
  BY <1>1 DEF Begin, Goto, IWork, Shape
<1>2. ASSUME NEW status, Return(o, status)
      PROVE  /\ \A h \in Refreshes : quiet'[h] => quiet[h]
             /\ ~quiet'[o]
  BY <1>2 DEF Return, IWork, Shape
<1>3. ASSUME UNCHANGED quiet, NEW label \in Label \ {"idle", "done"}, pc' = pc \/ Goto(o, label), Active(o)
      PROVE  /\ \A h \in Refreshes : quiet'[h] => quiet[h]
             /\ quiet'[o] => Active(o)'
  BY <1>3 DEF Goto, IWork, Shape, Active
<1>4. CASE ReadNotes(o)
  BY <1>4 DEF ReadNotes, Goto, IWork, Shape, Active
<1>5. CASE CompareNotes(o)
  BY <1>5 DEF CompareNotes, Goto, IWork, Shape, Active
<1>6. CASE ReadTranscripts(o)
  <2>0. Active(o)
    BY <1>6 DEF ReadTranscripts, Active
  <2>1. \/ Return(o, "200")
        \/ Goto(o, "titles") /\ UNCHANGED quiet
    BY <1>6 DEF ReadTranscripts, EndWith
  <2> QED BY <1>2, <1>3, <2>0, <2>1 DEF Label
<1>7. CASE ReadTitle(o)
  BY <1>7 DEF ReadTitle, Active
<1>8. CASE CompareTranscripts(o)
  <2>0. Active(o)
    BY <1>8 DEF CompareTranscripts, Active
  <2>1. \/ Return(o, "200")
        \/ Goto(o, "next") /\ UNCHANGED quiet
    BY <1>8 DEF CompareTranscripts, EndWith
  <2> QED BY <1>2, <1>3, <2>0, <2>1 DEF Label
<1>9. CASE NextTranscript(o)
  BY <1>9 DEF NextTranscript, StartDelete, Goto, IWork, Shape, Active
<1>10. CASE Embedded(o)
  <2>1. Active(o) /\ UNCHANGED quiet /\ (Goto(o, "delete") \/ Goto(o, "insert"))
    BY <1>10 DEF Embedded, StartDelete, Active
  <2> QED BY <1>3, <2>1 DEF Label
<1>11. CASE DeleteRow(o)
  BY <1>11 DEF DeleteRow, Active
<1>12. CASE Deleted(o)
  <2>1. Active(o) /\ UNCHANGED quiet /\ (Goto(o, "embed") \/ Goto(o, "insert"))
    BY <1>12 DEF Deleted, Active
  <2> QED BY <1>3, <2>1 DEF Label
<1>13. CASE InsertRow(o)
  BY <1>13 DEF InsertRow, Active
<1>14. CASE Commit(o)
  <2>0. Active(o)
    BY <1>14 DEF Commit, Active
  <2>1. \/ Return(o, "200")
        \/ UNCHANGED quiet /\ (Goto(o, "read_transcripts") \/ Goto(o, "next"))
    BY <1>14 DEF Commit
  <2> QED BY <1>2, <1>3, <2>0, <2>1 DEF Label
<1>15. CASE UniqueViolation(o) \/ Fail(o) \/ BreakDeadlock(o)
  <2>1. Active(o)
    <3>1. ASSUME BreakDeadlock(o) PROVE pc[o] \in {"delete", "insert"}
      BY <3>1 DEF BreakDeadlock, Waits
    <3> QED BY <1>15, <3>1 DEF UniqueViolation, Fail, Active
  <2>2. Return(o, "500")
    BY <1>15 DEF UniqueViolation, Fail, BreakDeadlock, EndWith
  <2> QED BY <1>2, <2>1, <2>2
<1> QED
  BY <1>1, <1>4, <1>5, <1>6, <1>7, <1>8, <1>9, <1>10, <1>11, <1>12, <1>13, <1>14, <1>15
     DEF Moves, Step

(* Whose refresh is quiet is the one that moves, and was quiet before or   *)
(* begins now.                                                             *)
LEMMA QuietMover ==
    ASSUME IQuiet, Next, NEW h \in Refreshes, quiet'[h]
    PROVE  \/ UNCHANGED vars
           \/ Moves(h) /\ Alone(h)' /\ ((Begin(h) /\ pc'[h] = "read_notes") \/ quiet[h])
<1>0. IWork
  BY DEF IQuiet, IIndex
<1>1. CASE Edit
  BY <1>0, <1>1, EditKept
<1>2. ASSUME NEW o \in Refreshes, Moves(o)
      PROVE  Moves(h) /\ Alone(h)' /\ ((Begin(h) /\ pc'[h] = "read_notes") \/ quiet[h])
  <2>1. \A g \in Refreshes \ {o} : Active(g)' = Active(g)
    BY <1>0, <1>2, OthersKept DEF Active
  <2>2. CASE /\ Begin(o) /\ pc'[o] = "read_notes"
             /\ \A g \in Refreshes : quiet'[g] => g = o /\ \A a \in Refreshes : ~Active(a)
    <3>1. h = o /\ \A a \in Refreshes : ~Active(a)
      BY <2>2
    <3>2. Active(h)'
      BY <2>2, <3>1 DEF Active
    <3> QED BY <1>2, <2>1, <2>2, <3>1, <3>2 DEF Alone
  <2>3. CASE /\ Active(o) /\ \A g \in Refreshes : quiet'[g] => quiet[g]
             /\ quiet'[o] => Active(o)'
    <3>1. quiet[h]
      BY <2>3
    <3>2. Alone(h)
      BY <3>1 DEF IQuiet, UpToDate
    <3>3. h = o
      BY <2>3, <3>2 DEF Alone
    <3> QED BY <1>2, <2>1, <2>3, <3>1, <3>2, <3>3 DEF Alone
  <2> QED BY <1>0, <1>2, <2>2, <2>3, QuietKept
<1> QED BY <1>1, <1>2 DEF Next, Moves, Quiet

LEMMA SameIndex ==
    ASSUME UNCHANGED <<note, text, rows>>
    PROVE  /\ \A n : NoteCurrent(n)' <=> NoteCurrent(n)
           /\ \A t : TextCurrent(t)' <=> TextCurrent(t)
           /\ \A t : Stale(t)' <=> Stale(t)
           /\ \A t : Existing(t)' = Existing(t) /\ TitleOf(t)' = TitleOf(t)
           /\ DueNow' = DueNow
<1>1. \A t : Existing(t)' = Existing(t) /\ TitleOf(t)' = TitleOf(t)
  BY DEF Existing, TitleOf
<1>2. DueNow' = DueNow
  BY <1>1 DEF DueNow
<1>3. \A t : Kept(t)' = Kept(t)
  BY <1>1 DEF Kept
<1> QED BY <1>1, <1>2, <1>3 DEF NoteCurrent, TextCurrent, Stale

LEMMA QuietNotesRead ==
    ASSUME IQuiet, NEW h \in Refreshes, ReadNotes(h)
    PROVE  (NotesUpToDate(h) /\ TextsRead(h) /\ TextsUpToDate(h))'
<1>0. IIndex /\ IWork /\ There
  BY DEF IQuiet, IIndex
<1>1. /\ pc'[h] = IF Present(note) = {} THEN "read_transcripts" ELSE "compare_notes"
      /\ notesSeen'[h] = note /\ UNCHANGED <<note, text, rows>>
  BY <1>0 DEF ReadNotes, Goto, IWork, Shape, sources
<1>2. ~OnNotes(h)' /\ ~OnChunks(h)' /\ pc'[h] \notin {"titles", "next"}
  BY <1>1 DEF OnNotes, OnChunks, Working
<1>3. ASSUME pc'[h] = "read_transcripts", NEW n \in Notes PROVE NoteCurrent(n)
  <2>1. note[n] = Absent
    <3>1. Present(note) = {}
      BY <1>1, <1>3
    <3>2. DOMAIN note = Notes
      BY <1>0 DEF IWork, Shape
    <3> QED BY <3>1, <3>2 DEF Present
  <2> QED BY <1>0, <2>1, NoteIsCurrent
<1>4. NotesUpToDate(h)'
  BY <1>1, <1>2, <1>3, SameIndex DEF NotesUpToDate
<1> QED BY <1>2, <1>4 DEF TextsRead, TextsUpToDate

LEMMA QuietNotesCompared ==
    ASSUME IQuiet, NEW h \in Refreshes, quiet[h], CompareNotes(h)
    PROVE  (NotesUpToDate(h) /\ TextsRead(h) /\ TextsUpToDate(h))'
<1>0. IIndex /\ IWork /\ There /\ NotesUpToDate(h)
  BY DEF IQuiet, IIndex, UpToDate
<1>1. /\ pc[h] = "compare_notes" /\ batch'[h] = NotesPending(h)
      /\ pc'[h] = IF NotesPending(h) = {} THEN "read_transcripts" ELSE "embed"
      /\ UNCHANGED <<note, text, rows, notesSeen>>
  BY <1>0 DEF CompareNotes, Goto, IWork, Shape, sources, seen
<1>2. notesSeen[h] = note /\ notesSeen'[h] = note
  BY <1>0, <1>1 DEF NotesUpToDate
<1>3. NotesPending(h) \subseteq Notes
  BY <1>0, SeenIn DEF NotesPending, IWork
<1>4. ForNotes(h)'
  BY <1>1, <1>3 DEF ForNotes
<1>5. ~OnChunks(h)' /\ pc'[h] \notin {"titles", "next"}
  BY <1>1, <1>4 DEF OnChunks
<1>6. NotesPending(h)' = NotesPending(h)
  <2>1. \A n : Existing(n)' = Existing(n)
    BY <1>1, SameIndex
  <2> QED BY <1>1, <1>2, <2>1 DEF NotesPending
<1>7. OnNotes(h)' => batch'[h] = NotesPending(h)' /\ batch'[h] # {}
  BY <1>1, <1>6 DEF OnNotes, Working
<1>8. ASSUME NotesPending(h) = {}, NEW n \in Notes PROVE NoteCurrent(n)
  <2>1. CASE note[n] = Absent
    BY <1>0, <2>1, NoteIsCurrent
  <2>2. CASE note[n] # Absent
    <3>1. n \in Present(notesSeen[h])
      BY <1>0, <1>2, <2>2, SeenIn DEF IWork
    <3>2. \E k \in Existing(n) : rows[k].sha = NoteSha(note[n])
      BY <1>2, <1>8, <3>1 DEF NotesPending
    <3> QED BY <1>0, <2>2, <3>2, NoteIsCurrent
  <2> QED BY <2>1, <2>2
<1>9. NotesUpToDate(h)'
  BY <1>1, <1>2, <1>5, <1>7, <1>8, SameIndex DEF NotesUpToDate
<1> QED BY <1>5, <1>9 DEF TextsRead, TextsUpToDate, OnChunks

LEMMA QuietTranscriptsRead ==
    ASSUME IQuiet, NEW h \in Refreshes, quiet[h], ReadTranscripts(h), quiet'[h]
    PROVE  (NotesUpToDate(h) /\ TextsRead(h) /\ TextsUpToDate(h))'
<1>0. IIndex /\ IWork /\ There /\ NotesUpToDate(h) /\ Idles(h)
  BY DEF IQuiet, IIndex, UpToDate, IWork
<1>1. Present(text) # {}
  BY <1>0 DEF ReadTranscripts, EndWith, Return, IWork, Shape
<1>2. /\ pc[h] = "read_transcripts" /\ pc'[h] = "titles" /\ textsSeen'[h] = text
      /\ queue'[h] = Present(text) /\ UNCHANGED <<note, text, rows, notesSeen>>
  BY <1>0, <1>1 DEF ReadTranscripts, Goto, IWork, Shape, sources
<1>3. ~OnChunks(h)' /\ ~OnNotes(h)'
  BY <1>2 DEF OnChunks, OnNotes, Working
<1>4. NotesUpToDate(h)'
  BY <1>0, <1>2, <1>3, SameIndex DEF NotesUpToDate
<1>5. TextsRead(h)'
  BY <1>2 DEF TextsRead
<1> QED BY <1>2, <1>3, <1>4, <1>5 DEF TextsUpToDate

LEMMA QuietTitleRead ==
    ASSUME IQuiet, NEW h \in Refreshes, quiet[h], ReadTitle(h)
    PROVE  (NotesUpToDate(h) /\ TextsRead(h) /\ TextsUpToDate(h))'
<1>0. IIndex /\ IWork /\ There /\ NotesUpToDate(h) /\ TextsRead(h)
  BY DEF IQuiet, IIndex, UpToDate
<1>1. PICK t \in queue[h] :
         /\ titlesSeen' = [titlesSeen EXCEPT ![h][t] = TitleOf(t)]
         /\ queue' = [queue EXCEPT ![h] = @ \ {t}]
  BY DEF ReadTitle
<1>2. /\ pc[h] = "titles"
      /\ UNCHANGED <<note, text, rows, pc, notesSeen, textsSeen, batch>>
  BY DEF ReadTitle, sources
<1>3. t \in Transcripts
  BY <1>0 DEF IWork, Shape
<1>4. /\ titlesSeen'[h][t] = TitleOf(t) /\ queue'[h] = queue[h] \ {t}
      /\ \A s \in Transcripts \ {t} : titlesSeen'[h][s] = titlesSeen[h][s]
  BY <1>0, <1>1, <1>3 DEF IWork, Shape
<1>5. ~OnChunks(h)' /\ ~OnNotes(h)'
  BY <1>2 DEF OnChunks, OnNotes, Working
<1>6. NotesUpToDate(h)'
  BY <1>0, <1>2, <1>5, SameIndex DEF NotesUpToDate
<1>7. TextsRead(h)'
  <2>1. Present(text) \subseteq Transcripts
    BY <1>0 DEF IWork, Shape, Present
  <2>2. textsSeen[h] = text
    BY <1>0, <1>2 DEF TextsRead
  <2>3. ASSUME NEW s \in Present(text)
        PROVE  (pc'[h] = "titles" /\ s \in queue'[h]) \/ titlesSeen'[h][s] = TitleOf(s)
    BY <1>0, <1>2, <1>4, <2>1, <2>3 DEF TextsRead
  <2>4. \A s : TitleOf(s)' = TitleOf(s)
    BY <1>2, SameIndex
  <2> QED BY <1>2, <2>2, <2>3, <2>4 DEF TextsRead, Present
<1> QED BY <1>2, <1>5, <1>6, <1>7 DEF TextsUpToDate

LEMMA QuietTranscriptsCompared ==
    ASSUME IQuiet, NEW h \in Refreshes, quiet[h], CompareTranscripts(h), quiet'[h]
    PROVE  (NotesUpToDate(h) /\ TextsRead(h) /\ TextsUpToDate(h))'
<1>0. IIndex /\ IWork /\ There /\ NotesUpToDate(h) /\ TextsRead(h) /\ Idles(h)
  BY DEF IQuiet, IIndex, UpToDate, IWork
<1>1. PICK pending \in SUBSET Present(textsSeen[h]) :
         /\ \A t \in Present(textsSeen[h]) : \E sha \in Kept(t) :
              (t \in pending) = (sha # TranscriptSha(titlesSeen[h][t], textsSeen[h][t]))
         /\ IF pending = {}
            THEN EndWith(h, "200")
            ELSE /\ queue' = [queue EXCEPT ![h] = pending]
                 /\ Goto(h, "next")
                 /\ UNCHANGED <<seen, batch, todo, deleted, inserted, answer, quiet>>
  BY DEF CompareTranscripts
<1>2. pending # {}
  BY <1>0, <1>1 DEF EndWith, Return, IWork, Shape
<1>3. /\ pc[h] = "titles" /\ queue[h] = {} /\ UNCHANGED <<note, text, rows>>
  BY DEF CompareTranscripts, sources
<1>4. /\ pc'[h] = "next" /\ queue'[h] = pending /\ batch'[h] = {}
      /\ UNCHANGED <<notesSeen, textsSeen, titlesSeen>>
  BY <1>0, <1>1, <1>2, <1>3 DEF Goto, IWork, Shape, seen, Idles, Working
<1>5. ~OnChunks(h)' /\ ~OnNotes(h)'
  BY <1>4 DEF OnChunks, OnNotes, Working
<1>6. NotesUpToDate(h)'
  BY <1>0, <1>3, <1>4, <1>5, SameIndex DEF NotesUpToDate
<1>7. textsSeen[h] = text /\ \A t \in Present(text) : titlesSeen[h][t] = TitleOf(t)
  BY <1>0, <1>3 DEF TextsRead
<1>8. TextsRead(h)'
  <2>1. \A s : TitleOf(s)' = TitleOf(s)
    BY <1>3, SameIndex
  <2> QED BY <1>3, <1>4, <1>7, <2>1 DEF TextsRead, Present
<1>9. ASSUME NEW t \in Present(text) PROVE IF t \in pending THEN Stale(t) ELSE TextCurrent(t)
  <2>1. t \in Transcripts /\ text[t] # Absent
    BY <1>0 DEF IWork, Shape, Present
  <2>2. PICK sha \in Kept(t) : (t \in pending) = (sha # TranscriptSha(TitleOf(t), text[t]))
    BY <1>1, <1>7
  <2> QED BY <1>0, <2>1, <2>2, TextIsCurrent
<1>10. TextsUpToDate(h)'
  <2>1. Present(text)' = Present(text)
    BY <1>3 DEF Present
  <2> QED BY <1>3, <1>4, <1>5, <1>9, <2>1, SameIndex DEF TextsUpToDate
<1> QED BY <1>6, <1>8, <1>10

LEMMA QuietTranscriptTaken ==
    ASSUME IQuiet, NEW h \in Refreshes, quiet[h], NextTranscript(h)
    PROVE  (NotesUpToDate(h) /\ TextsRead(h) /\ TextsUpToDate(h))'
<1>0. /\ IIndex /\ IWork /\ There /\ NotesUpToDate(h) /\ TextsRead(h) /\ TextsUpToDate(h)
      /\ Idles(h)
  BY DEF IQuiet, IIndex, UpToDate, IWork
<1>1. PICK t \in queue[h] :
         /\ queue' = [queue EXCEPT ![h] = @ \ {t}]
         /\ batch' = [batch EXCEPT ![h] = {t}]
         /\ StartDelete(h, {t})
  BY DEF NextTranscript
<1>2. /\ pc[h] = "next" /\ UNCHANGED <<note, text, rows, notesSeen, textsSeen, titlesSeen, deleted>>
  BY DEF NextTranscript, sources, seen
<1>3. t \in Transcripts /\ t \notin Notes
  BY <1>0, ConvergenceAssumption DEF IWork, Shape
<1>4. /\ queue'[h] = queue[h] \ {t} /\ batch'[h] = {t} /\ batch[h] = {} /\ deleted'[h] = {}
  BY <1>0, <1>1, <1>2 DEF IWork, Shape, Idles, Working
<1>5. UNION {Existing(x) : x \in {t}} = Existing(t)
  OBVIOUS
<1>6. todo' = [todo EXCEPT ![h] = Existing(t)] /\ Goto(h, "delete")
  BY <1>1, <1>5 DEF StartDelete
<1>7. pc'[h] = "delete" /\ todo'[h] = Existing(t)
  BY <1>0, <1>6 DEF Goto, IWork, Shape
<1>8. ~ForNotes(h)' /\ ~OnNotes(h)' /\ OnChunks(h)'
  BY <1>3, <1>4, <1>7 DEF ForNotes, OnNotes, OnChunks, Working
<1>9. NotesUpToDate(h)'
  BY <1>0, <1>2, <1>7, <1>8, SameIndex DEF NotesUpToDate
<1>10. Present(text)' = Present(text)
  BY <1>2 DEF Present
<1>11. TextsRead(h)'
  <2>1. \A s : TitleOf(s)' = TitleOf(s)
    BY <1>2, SameIndex
  <2> QED BY <1>0, <1>2, <1>10, <2>1 DEF TextsRead
<1>12. TextsUpToDate(h)'
  <2>1. \A s \in Present(text) : IF s \in queue'[h] \cup batch'[h] THEN Stale(s) ELSE TextCurrent(s)
    BY <1>0, <1>2, <1>4 DEF TextsUpToDate
  <2>2. Existing(t)' = Marked(h)' /\ t \notin queue'[h]
    <3>1. Existing(t)' = Existing(t)
      BY <1>2, SameIndex
    <3> QED BY <1>4, <1>7, <3>1 DEF Marked
  <2>3. \A s : (Stale(s)' <=> Stale(s)) /\ (TextCurrent(s)' <=> TextCurrent(s))
    BY <1>2, SameIndex
  <2> QED BY <1>4, <1>7, <1>10, <2>1, <2>2, <2>3 DEF TextsUpToDate
<1> QED BY <1>9, <1>11, <1>12

LEMMA QuietBatchKept ==
    ASSUME IQuiet, NEW h \in Refreshes, quiet[h], pc[h] \in Working, pc'[h] \in Working,
           UNCHANGED <<note, text, rows, notesSeen, textsSeen, titlesSeen>>,
           queue'[h] = queue[h], batch'[h] = batch[h],
           ~ForNotes(h) => Marked(h)' = Marked(h) /\ (pc'[h] = "embed" => NewKeys(h) # {})
    PROVE  (NotesUpToDate(h) /\ TextsRead(h) /\ TextsUpToDate(h))'
<1>0. /\ IIndex /\ IWork /\ There /\ NotesUpToDate(h) /\ TextsRead(h) /\ TextsUpToDate(h)
      /\ Works(h)
  BY DEF IQuiet, IIndex, UpToDate, IWork
<1>1. (OnNotes(h)' <=> OnNotes(h)) /\ (OnChunks(h)' <=> OnChunks(h))
  BY DEF OnNotes, OnChunks, ForNotes
<1>2. pc[h] \notin {"read_notes", "read_transcripts", "titles", "next"}
      /\ pc'[h] \notin {"read_notes", "read_transcripts", "titles", "next"}
  BY DEF Working
<1>3. /\ \A n : NoteCurrent(n)' <=> NoteCurrent(n)
      /\ \A t : TextCurrent(t)' <=> TextCurrent(t)
      /\ \A t : Stale(t)' <=> Stale(t)
      /\ \A t : Existing(t)' = Existing(t) /\ TitleOf(t)' = TitleOf(t)
  BY SameIndex
<1>4. NotesPending(h)' = NotesPending(h) /\ Present(text)' = Present(text)
  BY <1>3 DEF NotesPending, Present
<1>5. NotesUpToDate(h)'
  BY <1>0, <1>1, <1>2, <1>3, <1>4 DEF NotesUpToDate
<1>6. TextsRead(h)'
  BY <1>0, <1>1, <1>2, <1>3, <1>4 DEF TextsRead
<1>7. ASSUME OnChunks(h), pc'[h] = "embed", NEW t \in batch[h] PROVE Tokens[text[t]] # 0
  <2>0. ~ForNotes(h)
    BY <1>7 DEF OnChunks
  <2>1. PICK s \in Present(textsSeen[h]) : batch[h] = {s}
    <3>1. Present(notesSeen[h]) \subseteq Notes
      BY <1>0, SeenIn DEF IWork
    <3> QED BY <1>0, <2>0, <3>1 DEF Works, OfNotes, OfChunks, ForNotes
  <2>2. PICK k \in NewKeys(h) : TRUE
    BY <1>7, <2>0
  <2>3. t = s /\ k[1] = s /\ s \in Transcripts /\ textsSeen[h][s] \in Texts
    BY <1>0, <1>7, <2>1, SeenIn DEF NewKeys, IWork
  <2>4. k[2] \in Indices(Tokens[textsSeen[h][s]])
    BY <2>3 DEF NewKeys
  <2>5. Tokens[textsSeen[h][s]] # 0
    BY <2>3, <2>4, LongestText, Windows
  <2> QED BY <1>0, <1>7, <2>3, <2>5 DEF TextsRead
<1>8. TextsUpToDate(h)'
  <2>1. (OnChunks(h) => \A t \in batch[h] :
            /\ Existing(t) = Marked(h)' /\ t \notin queue'[h]
            /\ pc'[h] = "embed" => Tokens[text[t]] # 0)
    BY <1>0, <1>7 DEF TextsUpToDate, OnChunks
  <2> QED BY <1>0, <1>1, <1>2, <1>3, <1>4, <2>1 DEF TextsUpToDate
<1> QED BY <1>5, <1>6, <1>8

LEMMA QuietStatements ==
    ASSUME IQuiet, NEW h \in Refreshes, quiet[h],
           Embedded(h) \/ DeleteRow(h) \/ Deleted(h) \/ InsertRow(h)
    PROVE  (NotesUpToDate(h) /\ TextsRead(h) /\ TextsUpToDate(h))'
<1>0. IWork
  BY DEF IQuiet, IIndex
<1>1. UNCHANGED <<note, text, rows, notesSeen, textsSeen, titlesSeen, queue, batch>>
  BY DEF Embedded, DeleteRow, Deleted, InsertRow, sources, seen
<1>2. CASE Embedded(h)
  <2>1. pc[h] \in Working /\ UNCHANGED deleted
    BY <1>2 DEF Embedded, Working
  <2>2. pc'[h] \in {"delete", "insert"} /\ (~ForNotes(h) => pc'[h] = "insert")
    <3>1. CASE ForNotes(h)
      BY <1>0, <1>2, <3>1 DEF Embedded, StartDelete, Goto, IWork, Shape
    <3>2. CASE ~ForNotes(h)
      BY <1>0, <1>2, <3>2 DEF Embedded, Goto, IWork, Shape
    <3> QED BY <3>1, <3>2
  <2>3. ~ForNotes(h) => Marked(h)' = Marked(h)
    BY <1>2, <2>1, <2>2 DEF Marked, Embedded
  <2> QED BY <1>1, <2>1, <2>2, <2>3, QuietBatchKept DEF Working
<1>3. CASE DeleteRow(h)
  <2>1. PICK k \in todo[h] : /\ deleted' = [deleted EXCEPT ![h] = @ \cup {k}]
                             /\ todo' = [todo EXCEPT ![h] = @ \ {k}]
    BY <1>3 DEF DeleteRow
  <2>2. pc[h] = "delete" /\ pc' = pc
    BY <1>3 DEF DeleteRow
  <2>3. deleted'[h] = deleted[h] \cup {k} /\ todo'[h] = todo[h] \ {k}
    BY <1>0, <2>1 DEF IWork, Shape
  <2>4. Marked(h)' = Marked(h)
    BY <2>1, <2>2, <2>3 DEF Marked
  <2> QED BY <1>1, <2>2, <2>4, QuietBatchKept DEF Working
<1>4. CASE Deleted(h)
  <2>1. pc[h] = "delete" /\ todo[h] = {} /\ deleted' = deleted
    BY <1>4 DEF Deleted
  <2>2. /\ pc'[h] \in {"embed", "insert"}
        /\ ~ForNotes(h) /\ pc'[h] = "embed" => NewKeys(h) # {}
    <3>1. CASE ForNotes(h) \/ NewKeys(h) = {}
      BY <1>0, <1>4, <3>1 DEF Deleted, Goto, IWork, Shape
    <3>2. CASE ~(ForNotes(h) \/ NewKeys(h) = {})
      BY <1>0, <1>4, <3>2 DEF Deleted, Goto, IWork, Shape
    <3> QED BY <3>1, <3>2
  <2>3. Marked(h)' = Marked(h)
    BY <2>1, <2>2 DEF Marked
  <2> QED BY <1>1, <2>1, <2>2, <2>3, QuietBatchKept DEF Working
<1>5. CASE InsertRow(h)
  <2>1. pc[h] = "insert" /\ pc' = pc /\ deleted' = deleted
    BY <1>5 DEF InsertRow
  <2>2. Marked(h)' = Marked(h)
    BY <2>1 DEF Marked
  <2> QED BY <1>1, <2>1, <2>2, QuietBatchKept DEF Working
<1> QED BY <1>2, <1>3, <1>4, <1>5

(* What a refresh that runs alone commits.                                 *)
LEMMA QuietNotesCommitted ==
    ASSUME IQuiet, NEW h \in Refreshes, quiet[h], Commit(h), NEW n \in Notes
    PROVE  NoteCurrent(n)'
<1>0. IIndex /\ IWork /\ There /\ NotesUpToDate(h) /\ Works(h)
  BY DEF IQuiet, IIndex, UpToDate, IWork
<1>1. /\ pc[h] = "insert" /\ todo[h] = {} /\ UNCHANGED <<note, text>>
      /\ rows' = [k \in Keys |-> IF k \in inserted[h] THEN Computed(h, k)
                                 ELSE IF k \in deleted[h] THEN Absent ELSE rows[k]]
  BY DEF Commit, sources
<1>2. DueNow' = DueNow
  BY <1>1 DEF DueNow, TitleOf
<1>3. <<n, 0>> \in Keys /\ <<n, 0>>[1] = n /\ n \notin Transcripts
  BY ConvergenceAssumption DEF Keys
<1>4. CASE n \in batch[h]
  <2>1. <<n, 0>> \in inserted[h]
    BY <1>0, <1>1, <1>3, <1>4 DEF NewKeys, Works
  <2>2. notesSeen[h] = note
    BY <1>0, <1>1 DEF NotesUpToDate
  <2>3. rows'[<<n, 0>>] = NoteRow(note[n]) /\ note[n] \in Titles
    BY <1>0, <1>1, <1>3, <2>1, <2>2, ComputedKnown
  <2>4. DueNow[<<n, 0>>] = NoteRow(note[n])
    <3>1. DueNow[<<n, 0>>] = IF note[n] = Absent THEN Absent ELSE NoteRow(note[n])
      BY <1>0, DueKnown DEF IWork, Shape
    <3> QED BY <2>3, <3>1, ConvergenceAssumption
  <2> QED BY <1>2, <2>3, <2>4 DEF NoteCurrent
<1>5. CASE n \notin batch[h]
  <2>1. rows'[<<n, 0>>] = rows[<<n, 0>>]
    BY <1>0, <1>3, <1>5, CommitElsewhere
  <2>2. NoteCurrent(n)
    <3>1. CASE ForNotes(h) /\ note[n] # Absent
      <4>1. notesSeen[h] = note /\ batch[h] = NotesPending(h)
        BY <1>0, <1>1, <3>1 DEF NotesUpToDate, OnNotes, Working
      <4>2. n \in Present(notesSeen[h])
        BY <1>0, <3>1, <4>1, SeenIn DEF IWork
      <4>3. \E k \in Existing(n) : rows[k].sha = NoteSha(note[n])
        BY <1>5, <4>1, <4>2 DEF NotesPending
      <4> QED BY <1>0, <3>1, <4>3, NoteIsCurrent
    <3>2. CASE ~ForNotes(h)
      BY <1>0, <1>1, <3>2 DEF NotesUpToDate, OnChunks, Working
    <3>3. CASE note[n] = Absent
      BY <1>0, <3>3, NoteIsCurrent
    <3> QED BY <3>1, <3>2, <3>3
  <2> QED BY <1>2, <2>1, <2>2 DEF NoteCurrent
<1> QED BY <1>4, <1>5

LEMMA QuietChunksCommitted ==
    ASSUME IQuiet, NEW h \in Refreshes, quiet[h], Commit(h), ~ForNotes(h), NEW t \in Transcripts
    PROVE  /\ t \notin queue[h] => TextCurrent(t)'
           /\ t \in queue[h] => Stale(t)'
<1>0. /\ IIndex /\ IWork /\ There /\ TextsRead(h) /\ TextsUpToDate(h) /\ Works(h) /\ HasRead(h)
  BY DEF IQuiet, IIndex, UpToDate, IWork
<1>1. /\ pc[h] = "insert" /\ todo[h] = {} /\ UNCHANGED <<note, text>>
  BY DEF Commit, sources
<1>2. DueNow' = DueNow /\ TitleOf(t)' = TitleOf(t)
  BY <1>1 DEF DueNow, TitleOf
<1>3. OnChunks(h)
  BY <1>1 DEF OnChunks, Working
<1>4. PICK s \in Present(textsSeen[h]) : batch[h] = {s}
  <2>1. Present(notesSeen[h]) \subseteq Notes
    BY <1>0, SeenIn DEF IWork
  <2> QED BY <1>0, <1>1, <2>1 DEF Works, OfNotes, OfChunks, ForNotes, Working
<1>5. /\ s \in Transcripts /\ textsSeen[h] = text /\ text[s] \in Texts /\ text[s] # Absent
      /\ titlesSeen[h][s] = TitleOf(s) /\ s \notin queue[h] /\ Existing(s) = deleted[h]
  <2>1. textsSeen[h] = text /\ \A q \in Present(text) : titlesSeen[h][q] = TitleOf(q)
    BY <1>0, <1>1, <1>3 DEF TextsRead
  <2>2. s \in Transcripts /\ textsSeen[h][s] \in Texts
    BY <1>0, SeenIn DEF IWork
  <2>3. s \notin queue[h] /\ Existing(s) = Marked(h)
    BY <1>0, <1>3, <1>4 DEF TextsUpToDate
  <2> QED BY <1>1, <1>4, <2>1, <2>2, <2>3, ConvergenceAssumption DEF Marked
<1>6. CASE t = s
  <2>1. /\ titlesSeen[h][s] \in AllTitles /\ textsSeen[h][s] \in Texts
        /\ \/ /\ Tokens[textsSeen[h][s]] = 0 /\ deleted[h] = {}
              /\ \A i \in Indices(MostTokens) : rows'[<<s, i>>] = rows[<<s, i>>]
           \/ /\ Existing(s) = deleted[h]
              /\ \A i \in Indices(MostTokens) :
                    rows'[<<s, i>>] = Chunk(titlesSeen[h][s], textsSeen[h][s], i)
    BY <1>0, <1>4, <1>5, CommitChunks
  <2>2. \A i \in Indices(MostTokens) : rows'[<<s, i>>] = Chunk(TitleOf(s), text[s], i)
    <3>1. CASE /\ Tokens[text[s]] = 0 /\ deleted[h] = {}
               /\ \A i \in Indices(MostTokens) : rows'[<<s, i>>] = rows[<<s, i>>]
      <4> TAKE i \in Indices(MostTokens)
      <4>1. rows[<<s, i>>] = Absent
        BY <1>5, <3>1, ExistingOf
      <4>2. Chunk(titlesSeen[h][s], text[s], i) = Absent
        BY <1>5, <2>1, <3>1, ChunkPresence
      <4> QED BY <1>5, <3>1, <4>1, <4>2
    <3>2. CASE \A i \in Indices(MostTokens) :
                  rows'[<<s, i>>] = Chunk(titlesSeen[h][s], textsSeen[h][s], i)
      BY <1>5, <3>2
    <3> QED BY <1>5, <2>1, <3>1, <3>2
  <2>3. \A i \in Indices(MostTokens) : DueNow[<<s, i>>] = Chunk(TitleOf(s), text[s], i)
    <3>1. \A i \in Indices(MostTokens) :
             DueNow[<<s, i>>] = IF text[s] = Absent THEN Absent ELSE Chunk(TitleOf(s), text[s], i)
      BY <1>0, <1>5, DueKnown DEF IWork, Shape
    <3> QED BY <1>5, <3>1
  <2> QED BY <1>2, <1>5, <1>6, <2>2, <2>3 DEF TextCurrent
<1>7. CASE t # s
  <2>1. ASSUME NEW i \in Indices(MostTokens) PROVE rows'[<<t, i>>] = rows[<<t, i>>]
    <3>1. <<t, i>> \in Keys /\ <<t, i>>[1] = t
      BY DEF Keys
    <3> QED BY <1>0, <1>4, <1>7, <3>1, CommitElsewhere
  <2>2. (IF t \in queue[h] THEN Stale(t) ELSE TextCurrent(t))
    <3>1. CASE t \in Present(text)
      BY <1>0, <1>3, <1>4, <1>7, <3>1 DEF TextsUpToDate
    <3>2. CASE t \notin Present(text)
      <4>1. text[t] = Absent
        BY <1>0, <3>2 DEF Present, IWork, Shape
      <4>2. t \notin queue[h]
        BY <1>0, <1>5, <3>2 DEF HasRead
      <4> QED BY <1>0, <4>1, <4>2, TextIsCurrent
    <3> QED BY <3>1, <3>2
  <2>3. Kept(t)' = Kept(t)
    <3>1. \A k \in KeysOf(t) : rows'[k] = rows[k]
      BY <2>1, KeysOfSource
    <3>2. Existing(t)' = Existing(t) /\ \A k \in Existing(t) : rows'[k] = rows[k]
      BY <3>1 DEF Existing
    <3> QED BY <3>2 DEF Kept
  <2> QED BY <1>1, <1>2, <2>1, <2>2, <2>3 DEF Stale, TextCurrent
<1> QED BY <1>6, <1>7

LEMMA QuietCommitted ==
    ASSUME IQuiet, NEW h \in Refreshes, quiet[h], Commit(h), quiet'[h]
    PROVE  (NotesUpToDate(h) /\ TextsRead(h) /\ TextsUpToDate(h))'
<1>0. /\ IIndex /\ IWork /\ There /\ NotesUpToDate(h) /\ TextsRead(h) /\ HasRead(h)
  BY DEF IQuiet, IIndex, UpToDate, IWork
<1>1. pc[h] = "insert" /\ UNCHANGED <<note, text>>
  BY DEF Commit, sources
<1>2. ~(~ForNotes(h) /\ queue[h] = {})
  BY <1>0 DEF Commit, Return, IWork, Shape
<1>3. /\ Goto(h, IF ForNotes(h) THEN "read_transcripts" ELSE "next")
      /\ batch' = [batch EXCEPT ![h] = {}]
      /\ UNCHANGED <<seen, queue>>
  BY <1>2 DEF Commit
<1>4. /\ pc'[h] = IF ForNotes(h) THEN "read_transcripts" ELSE "next"
      /\ batch'[h] = {} /\ UNCHANGED <<notesSeen, textsSeen, titlesSeen, queue>>
  BY <1>0, <1>3 DEF Goto, IWork, Shape, seen
<1>5. ~OnNotes(h)' /\ ~OnChunks(h)'
  BY <1>4 DEF OnNotes, OnChunks, Working
<1>6. NotesUpToDate(h)'
  BY <1>0, <1>1, <1>4, <1>5, QuietNotesCommitted DEF NotesUpToDate
<1>7. CASE ForNotes(h)
  BY <1>4, <1>5, <1>6, <1>7 DEF TextsRead, TextsUpToDate
<1>8. CASE ~ForNotes(h)
  <2>1. \A t : TitleOf(t)' = TitleOf(t)
    BY <1>1 DEF TitleOf
  <2>2. Present(text)' = Present(text) /\ Present(text) \subseteq Transcripts
    BY <1>0, <1>1 DEF Present, IWork, Shape
  <2>3. TextsRead(h)'
    BY <1>0, <1>1, <1>4, <1>8, <2>1, <2>2 DEF TextsRead, OnChunks, Working
  <2>4. TextsUpToDate(h)'
    BY <1>4, <1>5, <1>8, <2>2, QuietChunksCommitted DEF TextsUpToDate
  <2> QED BY <1>6, <2>3, <2>4
<1> QED BY <1>7, <1>8

LEMMA QuietStep == IQuiet /\ [Next]_vars => IQuiet'
<1> SUFFICES ASSUME IQuiet, [Next]_vars PROVE IQuiet'
  OBVIOUS
<1>0. IIndex /\ IWork /\ There
  BY DEF IQuiet, IIndex
<1>1. IIndex' /\ There'
  BY <1>0, IndexStep, ThereStep
<1>2. CASE UNCHANGED vars
  <2>1. UNCHANGED <<note, text, rows, pc, notesSeen, textsSeen, titlesSeen, queue, batch, todo,
                    deleted, quiet>>
    BY <1>2 DEF vars, sources, seen, work
  <2>2. ASSUME NEW h \in Refreshes PROVE UpToDate(h)'
    <3>1. UpToDate(h)
      BY DEF IQuiet
    <3>2. /\ (OnNotes(h)' <=> OnNotes(h)) /\ (OnChunks(h)' <=> OnChunks(h))
          /\ Marked(h)' = Marked(h) /\ Present(text)' = Present(text)
      BY <2>1 DEF OnNotes, OnChunks, ForNotes, Marked, Present
    <3>3. /\ \A n : NoteCurrent(n)' <=> NoteCurrent(n)
          /\ \A t : TextCurrent(t)' <=> TextCurrent(t)
          /\ \A t : Stale(t)' <=> Stale(t)
          /\ \A t : Existing(t)' = Existing(t) /\ TitleOf(t)' = TitleOf(t)
      BY <2>1, SameIndex
    <3>4. NotesPending(h)' = NotesPending(h)
      BY <2>1, <3>3 DEF NotesPending
    <3>5. Alone(h)' <=> Alone(h)
      BY <2>1 DEF Alone, Active
    <3>6. NotesUpToDate(h)' <=> NotesUpToDate(h)
      BY <2>1, <3>2, <3>3, <3>4 DEF NotesUpToDate
    <3>7. TextsRead(h)' <=> TextsRead(h)
      BY <2>1, <3>2, <3>3 DEF TextsRead
    <3>8. TextsUpToDate(h)' <=> TextsUpToDate(h)
      BY <2>1, <3>2, <3>3 DEF TextsUpToDate
    <3> QED BY <2>1, <3>1, <3>5, <3>6, <3>7, <3>8 DEF UpToDate
  <2> QED BY <1>1, <2>2 DEF IQuiet
<1>3. CASE Next /\ ~UNCHANGED vars
  <2>1. ASSUME NEW h \in Refreshes, quiet'[h]
        PROVE  (Alone(h) /\ NotesUpToDate(h) /\ TextsRead(h) /\ TextsUpToDate(h))'
    <3>1. Moves(h) /\ Alone(h)' /\ ((Begin(h) /\ pc'[h] = "read_notes") \/ quiet[h])
      BY <1>3, <2>1, QuietMover
    <3>2. CASE Begin(h) /\ pc'[h] = "read_notes"
      BY <3>1, <3>2 DEF NotesUpToDate, TextsRead, TextsUpToDate, OnNotes, OnChunks, Working
    <3>3. CASE quiet[h]
      <4>1. ~EndWith(h, "500")
        BY <1>0, <2>1 DEF EndWith, Return, IWork, Shape
      <4>2. CASE Begin(h)
        <5>1. pc'[h] = "read_notes"
          BY <1>0, <4>2 DEF Begin, Goto, IWork, Shape
        <5> QED BY <3>1, <5>1 DEF NotesUpToDate, TextsRead, TextsUpToDate, OnNotes, OnChunks, Working
      <4> QED BY <1>0, <2>1, <3>1, <3>3, <4>1, <4>2, StepKinds, QuietNotesRead,
                 QuietNotesCompared, QuietTranscriptsRead, QuietTitleRead,
                 QuietTranscriptsCompared, QuietTranscriptTaken, QuietStatements, QuietCommitted
    <3> QED BY <3>1, <3>2, <3>3
  <2> QED BY <1>1, <2>1 DEF IQuiet, UpToDate
<1> QED BY <1>2, <1>3

LEMMA QuietInvariant == Spec => []IQuiet
<1>1. Init => IQuiet
  <2> SUFFICES ASSUME Init PROVE IQuiet
    OBVIOUS
  <2>1. \A h \in Refreshes : UpToDate(h)
    BY DEF Init, UpToDate
  <2> QED BY <2>1, IndexInit, ThereInit DEF IQuiet
<1> QED BY <1>1, QuietStep, PTL DEF Spec

(* While a refresh embeds, something is out of date.                       *)
LEMMA EmbedsOnlyStale ==
    ASSUME IQuiet, NEW h \in Refreshes, quiet[h], pc[h] = "embed"
    PROVE  rows # DueNow
<1>0. /\ IIndex /\ IWork /\ There /\ NotesUpToDate(h) /\ TextsRead(h) /\ TextsUpToDate(h)
      /\ Works(h)
  BY DEF IQuiet, IIndex, UpToDate, IWork
<1>1. CASE ForNotes(h)
  <2>1. notesSeen[h] = note /\ batch[h] = NotesPending(h) /\ batch[h] # {}
    BY <1>0, <1>1 DEF NotesUpToDate, OnNotes, Working
  <2>2. PICK n \in Present(notesSeen[h]) :
           \A k \in Existing(n) : rows[k].sha # NoteSha(notesSeen[h][n])
    BY <2>1 DEF NotesPending
  <2>3. n \in Notes /\ note[n] # Absent
    BY <1>0, <2>1, SeenIn DEF IWork
  <2>4. ~NoteCurrent(n)
    BY <1>0, <2>1, <2>2, <2>3, NoteIsCurrent
  <2> QED BY <2>4 DEF NoteCurrent
<1>2. CASE ~ForNotes(h)
  <2>1. OnChunks(h)
    BY <1>2 DEF OnChunks, Working
  <2>2. PICK t \in Present(textsSeen[h]) : batch[h] = {t}
    <3>1. Present(notesSeen[h]) \subseteq Notes
      BY <1>0, SeenIn DEF IWork
    <3> QED BY <1>0, <1>2, <3>1 DEF Works, OfNotes, OfChunks, ForNotes, Working
  <2>3. t \in Transcripts /\ textsSeen[h] = text /\ text[t] # Absent /\ t \in Present(text)
    BY <1>0, <2>1, SeenIn DEF TextsRead, IWork
  <2>4. Stale(t) /\ Tokens[text[t]] # 0
    BY <1>0, <2>1, <2>2, <2>3 DEF TextsUpToDate
  <2>5. ~TextCurrent(t)
    BY <1>0, <2>3, <2>4, TextIsCurrent
  <2> QED BY <2>5 DEF TextCurrent
<1> QED BY <1>1, <1>2

(* When it is answered 200, nothing is.                                    *)
LEMMA AnswersCurrent ==
    ASSUME IQuiet, NEW h \in Refreshes, quiet[h], Moves(h),
           answer'[h] = "200", answer[h] # "200"
    PROVE  rows' = DueNow
<1>0. /\ IIndex /\ IWork /\ There /\ NotesUpToDate(h) /\ TextsRead(h) /\ TextsUpToDate(h)
  BY DEF IQuiet, IIndex, UpToDate, IWork
<1>1. CASE ReadTranscripts(h)
  <2>1. Present(text) = {}
    BY <1>1 DEF ReadTranscripts
  <2>2. \A t \in Transcripts : text[t] = Absent
    BY <1>0, <2>1 DEF Present, IWork, Shape
  <2>3. \A t \in Transcripts : TextCurrent(t)
    BY <1>0, <2>2, TextIsCurrent
  <2>4. \A n \in Notes : NoteCurrent(n)
    BY <1>0, <1>1 DEF ReadTranscripts, NotesUpToDate
  <2>5. rows = DueNow
    BY <1>0, <2>3, <2>4, AllCurrent
  <2> QED BY <1>1, <2>5 DEF ReadTranscripts
<1>2. CASE CompareTranscripts(h)
  <2>1. PICK pending \in SUBSET Present(textsSeen[h]) :
           /\ \A t \in Present(textsSeen[h]) : \E sha \in Kept(t) :
                (t \in pending) = (sha # TranscriptSha(titlesSeen[h][t], textsSeen[h][t]))
           /\ pending = {}
    BY <1>2 DEF CompareTranscripts
  <2>2. pc[h] = "titles" /\ queue[h] = {} /\ UNCHANGED rows
    BY <1>2 DEF CompareTranscripts
  <2>3. textsSeen[h] = text /\ \A t \in Present(text) : titlesSeen[h][t] = TitleOf(t)
    BY <1>0, <2>2 DEF TextsRead
  <2>4. ASSUME NEW t \in Transcripts PROVE TextCurrent(t)
    <3>1. CASE text[t] = Absent
      BY <1>0, <3>1, TextIsCurrent
    <3>2. CASE text[t] # Absent
      <4>1. t \in Present(text)
        BY <1>0, <3>2 DEF Present, IWork, Shape
      <4>2. \E sha \in Kept(t) : sha = TranscriptSha(TitleOf(t), text[t])
        BY <2>1, <2>3, <4>1
      <4> QED BY <1>0, <3>2, <4>2, TextIsCurrent
    <3> QED BY <3>1, <3>2
  <2>5. \A n \in Notes : NoteCurrent(n)
    BY <1>0, <2>2 DEF NotesUpToDate
  <2>6. rows = DueNow
    BY <1>0, <2>4, <2>5, AllCurrent
  <2> QED BY <2>2, <2>6
<1>3. CASE Commit(h)
  <2>1. ~ForNotes(h) /\ queue[h] = {}
    BY <1>3 DEF Commit
  <2>2. /\ \A n \in Notes : NoteCurrent(n)'
        /\ \A t \in Transcripts : TextCurrent(t)'
    BY <1>3, <2>1, QuietNotesCommitted, QuietChunksCommitted
  <2>3. DueNow' = DueNow
    BY <1>3 DEF Commit, sources, DueNow, TitleOf
  <2>4. \A k \in Keys : rows'[k] = DueNow[k]
    BY <2>2, <2>3 DEF Keys, NoteCurrent, TextCurrent
  <2>5. rows' = [k \in Keys |-> rows'[k]] /\ DueNow = [k \in Keys |-> DueNow[k]]
    BY <1>3 DEF Commit, DueNow
  <2> QED BY <2>4, <2>5, Zenon
<1>4. CASE EndWith(h, "500")
  BY <1>0, <1>4 DEF EndWith, Return, IWork, Shape
<1> QED
  BY <1>0, <1>1, <1>2, <1>3, <1>4, StepKinds
     DEF Begin, ReadNotes, CompareNotes, ReadTitle, NextTranscript, Embedded, DeleteRow, Deleted,
         InsertRow

(* A refresh that runs alone embeds only while something is out of date    *)
(* and leaves nothing so when it answers 200: what its first reads have    *)
(* told it of the index is still true when it acts on it, and the one hash *)
(* it compares of a transcript stands for all chunks.                      *)
THEOREM QuietRefreshes == Spec => QuietRefreshConverges
<1>1. IQuiet /\ [Next]_vars =>
        \A h \in Refreshes : quiet[h] =>
          /\ pc[h] = "embed" => rows # DueNow
          /\ answer'[h] = "200" /\ answer[h] # "200" => rows' = DueNow
  <2> SUFFICES ASSUME IQuiet, [Next]_vars, NEW h \in Refreshes, quiet[h]
               PROVE  /\ pc[h] = "embed" => rows # DueNow
                      /\ answer'[h] = "200" /\ answer[h] # "200" => rows' = DueNow
    OBVIOUS
  <2>0. IWork
    BY DEF IQuiet, IIndex
  <2>1. ASSUME answer'[h] # answer[h] PROVE Moves(h)
    <3>1. ~UNCHANGED vars
      BY <2>1 DEF vars
    <3>2. ~Edit
      BY <2>0, <2>1, EditKept
    <3>3. PICK o \in Refreshes : Moves(o)
      BY <3>1, <3>2 DEF Next, Moves, Quiet
    <3>4. o = h
      BY <2>0, <2>1, <3>3, OthersKept
    <3> QED BY <3>3, <3>4
  <2>2. answer'[h] = "200" /\ answer[h] # "200" => rows' = DueNow
    BY <2>1, AnswersCurrent
  <2> QED BY <2>2, EmbedsOnlyStale
<1> QED BY <1>1, QuietInvariant, PTL DEF Spec, QuietRefreshConverges
===============================================================================
