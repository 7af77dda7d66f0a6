------------------------- MODULE WcsPipelineProofs -------------------------
(* Theorems about WcsPipeline, for any number of requests, sources, names  *)
(* and canonical tables, and any interleaving, failures and crashes.       *)
EXTENDS WcsPipeline, FiniteSetTheorems, TLAPS

InputPost == CorrectionPost \cup AdditionPost \cup RelationPost

(* compose_source is running, and has read the active extraction.          *)
Composing == {"read_inputs", "delete", "delete_wait", "resolve", "create_entity",
              "apply_additions"}

(***************************************************************************)
(* Which requests reach which statements, and what their local variables   *)
(* hold there.  TypeOK alone is not inductive: the type of what a statement*)
(* writes depends on the statements before it.                             *)
(***************************************************************************)
RequestAt(h) ==
    /\ req[h] \in IF pc[h] = "idle" THEN {NoOne} ELSE Request
    /\ pc[h] \in {"find_transcript", "insert_transcript"} => req[h] \in TranscriptPost
    /\ pc[h] \in {"get_transcript", "find_source", "save_source", "insert_extraction"}
          => req[h] \in IngestPost
    /\ pc[h] \in {"demote", "demote_wait"} => req[h] \in TranscriptPost \cup IngestPost
    /\ pc[h] = "get_source" => req[h] \in RecomposePost
    /\ pc[h] = "store_input" => req[h] \in InputPost
    /\ txn[h].promoted => req[h] \in IngestPost
    /\ txn[h].stored => req[h] \in InputPost
    /\ \/ txn[h].promoted
       \/ pc[h] \in {"save_source", "insert_extraction"}
       \/ pc[h] \in {"demote", "demote_wait"} /\ req[h].kind # "transcript"
       => work[h].target \in Handlers

ComposedAt(h) ==
    /\ pc[h] \in Composing \cup {"read_extraction"} => work[h].queue # <<>>
    /\ pc[h] \in Composing => work[h].ext \in Handlers /\ req[work[h].ext] \in IngestPost
    /\ pc[h] = "create_entity" => work[h].name \in Names
    /\ work[h].at # 0
    /\ \A i \in work[h].seen : req[i] \in InputPost

(* Stored rows were inserted by requests of their kind, now answered.      *)
RowsOfRequests ==
    /\ \A e \in Handlers : e \in active \/ extraction[e] # NoOne =>
          req[e] \in IngestPost /\ pc[e] = "done" /\ extraction[e] \in Handlers
    /\ \A i \in inputs : req[i] \in InputPost

IType == /\ TypeOK
         /\ RowsOfRequests
         /\ \A h \in Handlers : RequestAt(h) /\ ComposedAt(h)

Moves(h) == Begin(h) \/ Step(h) \/ BreakDeadlock(h) \/ Crash(h)

-----------------------------------------------------------------------------
(* A handler changes its own request, counter, transaction and variables.  *)
LEMMA OthersUntouched ==
    ASSUME TypeOK, NEW h \in Handlers, Moves(h)
    PROVE  \A q \in Handlers \ {h} :
              /\ req'[q] = req[q] /\ pc'[q] = pc[q]
              /\ txn'[q] = txn[q] /\ work'[q] = work[q]
<1> USE DEF TypeOK, Goto, EndWith, db
<1>1. CASE Begin(h) \/ BreakDeadlock(h) \/ Crash(h)
  BY <1>1 DEF Begin, BreakDeadlock, Crash
<1>2. CASE FindTranscript(h) \/ InsertTranscript(h) \/ GetTranscript(h) \/ CreateSource(h)
           \/ ReuseSource(h) \/ SaveSource(h)
  BY <1>2 DEF FindTranscript, InsertTranscript, GetTranscript, CreateSource, ReuseSource,
              SaveSource
<1>3. CASE Demote(h) \/ DemoteWait(h)
  BY <1>3 DEF Demote, DemoteWait
<1>6. CASE InsertExtraction(h) \/ GetSource(h)
  <2>1. CASE InsertExtraction(h)
    BY <2>1 DEF InsertExtraction
  <2>2. CASE GetSource(h)
    BY <2>2 DEF GetSource
  <2> QED BY <1>6, <2>1, <2>2
<1>7. CASE StoreInput(h)
  BY <1>7 DEF StoreInput
<1>4. CASE ReadExtraction(h) \/ ReadInputs(h) \/ Delete(h) \/ DeleteWait(h)
  BY <1>4 DEF ReadExtraction, NextSource, ReadInputs, Delete, DeleteWait, Deleted
<1>5. CASE Resolve(h)
  BY <1>5 DEF Resolve
<1>8. CASE CreateEntity(h) \/ ApplyAdditions(h)
  BY <1>8 DEF CreateEntity, ApplyAdditions, NextSource
<1>9. CASE Commit(h)
  BY <1>9 DEF Commit
<1> QED BY <1>1, <1>2, <1>3, <1>4, <1>5, <1>6, <1>7, <1>8, <1>9 DEF Moves, Step

(* A request, once it has arrived, stays what it is.                       *)
LEMMA RequestsStay ==
    ASSUME IType, NEW h \in Handlers, Moves(h)
    PROVE  \A q \in Handlers : req[q] \in Request => req'[q] = req[q]
<1> SUFFICES ASSUME req[h] \in Request PROVE req'[h] = req[h]
  BY OthersUntouched DEF IType
<1>1. pc[h] # "idle"
  BY ConstantsAssumption DEF IType, RequestAt
<1> USE DEF Goto, EndWith
<1>2. ~Begin(h)
  BY <1>1 DEF Begin
<1>3. CASE FindTranscript(h) \/ InsertTranscript(h) \/ GetTranscript(h) \/ CreateSource(h)
           \/ ReuseSource(h) \/ SaveSource(h) \/ BreakDeadlock(h) \/ Crash(h)
  BY <1>3 DEF FindTranscript, InsertTranscript, GetTranscript, CreateSource, ReuseSource,
              SaveSource, BreakDeadlock, Crash
<1>4. CASE Demote(h) \/ DemoteWait(h) \/ InsertExtraction(h) \/ GetSource(h) \/ StoreInput(h)
  BY <1>4 DEF Demote, DemoteWait, InsertExtraction, GetSource, StoreInput
<1>5. CASE ReadExtraction(h) \/ ReadInputs(h) \/ Delete(h) \/ DeleteWait(h)
           \/ Resolve(h) \/ CreateEntity(h) \/ ApplyAdditions(h) \/ Commit(h)
  BY <1>5 DEF ReadExtraction, ReadInputs, Delete, DeleteWait, Resolve, CreateEntity,
              ApplyAdditions, Commit
<1> QED BY <1>2, <1>3, <1>4, <1>5 DEF Moves, Step

-----------------------------------------------------------------------------
(* Types.                                                                  *)

LEMMA NoTxnType == NoTxn \in Txn
BY DEF NoTxn, Txn

LEMMA NoWorkType == NoWork \in Work
BY DEF NoWork, Work

(* Assigning a field keeps a record a record of its kind.                  *)
LEMMA TxnUpdates ==
    ASSUME NEW t \in Txn
    PROVE  /\ [t EXCEPT !.created = TRUE] \in Txn
           /\ [t EXCEPT !.promoted = TRUE] \in Txn
           /\ [t EXCEPT !.stored = TRUE] \in Txn
           /\ \A s \in Handlers \cup {NoOne} : [t EXCEPT !.saved = s] \in Txn
           /\ \A S \in SUBSET Handlers : [t EXCEPT !.demoted = S] \in Txn
           /\ \A R \in SUBSET CanonicalRow :
                 [t EXCEPT !.deleted = R] \in Txn /\ [t EXCEPT !.added = R] \in Txn
           /\ \A N \in SUBSET Names : [t EXCEPT !.names = N] \in Txn
BY DEF Txn

LEMMA WorkUpdates ==
    ASSUME NEW t \in Work
    PROVE  /\ \A s \in Handlers \cup {NoOne} : [t EXCEPT !.target = s] \in Work
           /\ \A d \in BOOLEAN : [t EXCEPT !.dirty = d] \in Work
           /\ \A q \in Seq(Handlers) : [t EXCEPT !.queue = q] \in Work
           /\ \A e \in Handlers : [t EXCEPT !.ext = e] \in Work
           /\ \A I \in SUBSET Handlers : [t EXCEPT !.seen = I] \in Work
           /\ \A V \in SUBSET (Handlers \cup CanonicalRow) : [t EXCEPT !.victims = V] \in Work
           /\ \A n \in Names : [t EXCEPT !.name = n] \in Work
           /\ \A k \in Nat : [t EXCEPT !.at = k] \in Work
           /\ \A k \in Nat : [t EXCEPT !.table = k, !.victims = {}] \in Work
           /\ \A k \in Nat : [t EXCEPT !.name = NoOne, !.at = k] \in Work
BY DEF Work

LEMMA EndType ==
    ASSUME TypeOK, NEW h \in Handlers,
           NEW code \in {"none", "200", "201", "403", "404", "500", "lost"}, EndWith(h, code)
    PROVE  TypeOK'
BY NoTxnType, NoWorkType DEF TypeOK, EndWith, Goto, Label, db

(* The orders of a finite set of sources are sequences of sources.         *)
LEMMA OrdersType ==
    ASSUME NEW S \in SUBSET Handlers, NEW q \in Orders(S)
    PROVE  q \in Seq(Handlers)
<1>1. Cardinality(S) \in Nat
  BY ConstantsAssumption, FS_Subset, FS_CardinalityType
<1>2. q \in [1..Cardinality(S) -> Handlers]
  BY DEF Orders
<1> QED BY <1>1, <1>2

(* The requests of a kind, of which the module reads the fields.           *)
LEMMA InputFields ==
    ASSUME NEW r \in InputPost
    PROVE  /\ r.kind \in {"correction", "addition", "relation"}
           /\ r.kind = "correction" => r.to \in Names
           /\ r.kind \in {"addition", "relation"} => r.table \in 1..Tables
           /\ HasSource(r) => r.source \in Handlers
BY DEF InputPost, CorrectionPost, AdditionPost, RelationPost, HasSource

(* The rows of a composition are canonical rows.                           *)
LEMMA BatchType ==
    ASSUME NEW s \in Handlers, NEW h \in Handlers, NEW e \in Handlers, req[e] \in IngestPost,
           NEW I \in SUBSET Handlers, \A i \in I : req[i] \in InputPost
    PROVE  Batch(s, h, e, I) \subseteq CanonicalRow
<1>1. TablesOf(e, I) \subseteq 1..Tables
  <2>1. Writes[req[e].payload] \subseteq 1..Tables
    BY ConstantsAssumption DEF IngestPost
  <2>2. \A i \in I : IsAddition(i) => req[i].table \in 1..Tables
    BY InputFields DEF IsAddition
  <2> QED BY <2>1, <2>2 DEF TablesOf
<1> QED BY <1>1 DEF Batch, CanonicalRow

(* A mention is corrected to a name.                                       *)
LEMMA CorrectedType ==
    ASSUME NEW e \in Handlers, req[e] \in IngestPost,
           NEW k \in 1..Len(Mentions[req[e].payload]),
           NEW I \in SUBSET Handlers, \A i \in I : req[i] \in InputPost
    PROVE  CorrectedNames(Mentions[req[e].payload][k], I) \subseteq Names
<1>1. Mentions[req[e].payload][k] \in Mention
  BY ConstantsAssumption DEF IngestPost
<1>2. \A c \in I : req[c].kind = "correction" => req[c].to \in Names
  BY InputFields
<1> QED BY <1>1, <1>2 DEF CorrectedNames, Mention

LEMMA BeginType ==
    ASSUME IType, NEW h \in Handlers, Begin(h)
    PROVE  TypeOK'
<1>1. PICK r \in PlanOf[plan].requests[h] : req' = [req EXCEPT ![h] = r] /\ Goto(h, EntryOf(r))
  BY DEF Begin
<1>2. r \in Request
  BY <1>1, ConstantsAssumption DEF IType, TypeOK, Plan
<1>3. EntryOf(r) \in Label
  BY DEF EntryOf, Label
<1>4. req' \in [Handlers -> Request \cup {NoOne}] /\ pc' \in [Handlers -> Label]
  BY <1>1, <1>2, <1>3 DEF IType, TypeOK, Goto
<1> QED BY <1>4 DEF Begin, IType, TypeOK, db

LEMMA TranscriptType ==
    ASSUME IType, NEW h \in Handlers,
           FindTranscript(h) \/ InsertTranscript(h) \/ GetTranscript(h)
    PROVE  TypeOK'
<1>0. TypeOK /\ RequestAt(h)
  BY DEF IType
<1>1. CASE FindTranscript(h)
  <2>1. work' \in [Handlers -> Work]
    BY <1>0, <1>1, WorkUpdates DEF FindTranscript, TypeOK
  <2> QED BY <1>0, <1>1, <2>1 DEF FindTranscript, TypeOK, Goto, Label, db
<1>2. CASE InsertTranscript(h)
  <2>1. CASE transcript[req[h].transcript] = NoText
    <3>1. req[h].text \in Texts
      BY <1>0, <1>2 DEF InsertTranscript, RequestAt, TranscriptPost
    <3> QED
      BY <1>0, <1>2, <2>1, <3>1, NoWorkType DEF InsertTranscript, TypeOK, Goto, Label
  <2>2. CASE transcript[req[h].transcript] # NoText
    BY <1>0, <1>2, <2>2, EndType DEF InsertTranscript
  <2> QED BY <2>1, <2>2
<1>3. CASE GetTranscript(h)
  <2>1. CASE EndWith(h, "404") \/ EndWith(h, "403")
    BY <1>0, <2>1, EndType
  <2>2. CASE Goto(h, "find_source") /\ UNCHANGED <<db, req, answer, txn, work>>
    BY <1>0, <2>2 DEF TypeOK, Goto, Label, db
  <2> QED BY <1>3, <2>1, <2>2 DEF GetTranscript
<1> QED BY <1>1, <1>2, <1>3

LEMMA SourceType ==
    ASSUME IType, NEW h \in Handlers,
           CreateSource(h) \/ ReuseSource(h) \/ SaveSource(h) \/ Demote(h) \/ DemoteWait(h)
    PROVE  TypeOK'
<1>0. TypeOK
  BY DEF IType
<1>1. CASE CreateSource(h)
  <2>1. txn' \in [Handlers -> Txn] /\ work' \in [Handlers -> Work]
    BY <1>0, <1>1, TxnUpdates, WorkUpdates DEF CreateSource, TypeOK
  <2> QED BY <1>0, <1>1, <2>1 DEF CreateSource, TypeOK, Goto, Label, db
<1>2. CASE ReuseSource(h)
  <2>1. PICK s \in SourcesOf(req[h].transcript), dirty \in BOOLEAN :
           IF req[s].caller # req[h].caller
           THEN EndWith(h, "403")
           ELSE /\ work' = [work EXCEPT ![h].target = s]
                /\ Goto(h, IF dirty THEN "save_source" ELSE "demote")
                /\ UNCHANGED <<db, req, answer, txn>>
    BY <1>2 DEF ReuseSource
  <2>2. s \in Handlers
    BY <1>0 DEF TypeOK, SourcesOf
  <2>3. CASE req[s].caller # req[h].caller
    BY <1>0, <2>1, <2>3, EndType
  <2>4. CASE req[s].caller = req[h].caller
    <3>0. work' = [work EXCEPT ![h].target = s]
      BY <2>1, <2>4
    <3>1. work' \in [Handlers -> Work]
      BY <1>0, <2>2, <3>0, WorkUpdates DEF TypeOK
    <3> QED BY <1>0, <2>1, <2>4, <3>1 DEF TypeOK, Goto, Label, db
  <2> QED BY <2>3, <2>4
<1>3. CASE SaveSource(h)
  <2>1. txn' \in [Handlers -> Txn]
    BY <1>0, <1>3, TxnUpdates DEF SaveSource, TypeOK, Work
  <2> QED BY <1>0, <1>3, <2>1 DEF SaveSource, TypeOK, Goto, Label, db
<1>4. CASE Demote(h)
  <2> DEFINE victims == UNION {ActiveOf(s) : s \in DemotionScope(h)}
  <2>1. victims \subseteq Handlers
    BY <1>0 DEF ActiveOf, TypeOK
  <2> HIDE DEF victims
  <2>2. CASE /\ txn' = [txn EXCEPT ![h].demoted = victims]
             /\ Goto(h, AfterDemote(h)) /\ UNCHANGED <<work, db, req, answer>>
    <3>1. txn' \in [Handlers -> Txn]
      BY <1>0, <2>1, <2>2, TxnUpdates DEF TypeOK
    <3> QED BY <1>0, <2>2, <3>1 DEF TypeOK, Goto, AfterDemote, Label, db
  <2>3. CASE /\ work' = [work EXCEPT ![h].victims = victims]
             /\ Goto(h, "demote_wait") /\ UNCHANGED <<txn, db, req, answer>>
    <3>1. work' \in [Handlers -> Work]
      BY <1>0, <2>1, <2>3, WorkUpdates DEF TypeOK
    <3> QED BY <1>0, <2>3, <3>1 DEF TypeOK, Goto, Label, db
  <2> QED BY <1>4, <2>2, <2>3 DEF Demote, victims
<1>5. CASE DemoteWait(h)
  <2>1. txn' \in [Handlers -> Txn] /\ work' \in [Handlers -> Work]
    BY <1>0, <1>5, TxnUpdates, WorkUpdates DEF DemoteWait, TypeOK
  <2> QED BY <1>0, <1>5, <2>1 DEF DemoteWait, TypeOK, Goto, AfterDemote, Label, db
<1> QED BY <1>1, <1>2, <1>3, <1>4, <1>5

LEMMA QueueType ==
    ASSUME IType, NEW h \in Handlers, InsertExtraction(h) \/ GetSource(h) \/ StoreInput(h)
    PROVE  TypeOK'
<1>0. TypeOK /\ RowsOfRequests /\ RequestAt(h)
  BY DEF IType
<1>1. CASE InsertExtraction(h)
  <2>1. CASE ~(ActiveOf(work[h].target) \subseteq txn[h].demoted)
    BY <1>0, <1>1, <2>1, EndType DEF InsertExtraction
  <2>2. CASE ActiveOf(work[h].target) \subseteq txn[h].demoted
    <3>0. /\ txn' = [txn EXCEPT ![h].promoted = TRUE]
          /\ work' = [work EXCEPT ![h].queue = <<work[h].target>>]
      BY <1>1, <2>2 DEF InsertExtraction
    <3>1. txn' \in [Handlers -> Txn]
      BY <1>0, <3>0, TxnUpdates DEF TypeOK
    <3>2. work' \in [Handlers -> Work]
      <4>1. <<work[h].target>> \in Seq(Handlers)
        BY <1>0, <1>1 DEF InsertExtraction, RequestAt
      <4> QED BY <1>0, <3>0, <4>1, WorkUpdates DEF TypeOK
    <3> QED BY <1>0, <1>1, <2>2, <3>1, <3>2 DEF InsertExtraction, TypeOK, Goto, Label, db
  <2> QED BY <2>1, <2>2
<1>2. CASE GetSource(h)
  <2>1. CASE req[h].source \notin sources
    BY <1>0, <1>2, <2>1, EndType DEF GetSource
  <2>2. CASE req[h].source \in sources
    <3>1. req[h].source \in Handlers
      BY <1>0, <1>2 DEF GetSource, RequestAt, RecomposePost
    <3>2. work' \in [Handlers -> Work]
      <4>1. work' = [work EXCEPT ![h].queue = <<req[h].source>>]
        BY <1>2, <2>2 DEF GetSource
      <4>2. <<req[h].source>> \in Seq(Handlers)
        BY <3>1
      <4> QED BY <1>0, <4>1, <4>2, WorkUpdates DEF TypeOK
    <3> QED BY <1>0, <1>2, <2>2, <3>2 DEF GetSource, TypeOK, Goto, Label, db
  <2> QED BY <2>1, <2>2
<1>3. CASE StoreInput(h)
  <2>1. CASE HasSource(req[h]) /\ req[h].source \notin sources
    BY <1>0, <1>3, <2>1, EndType DEF StoreInput
  <2>2. CASE ~(HasSource(req[h]) /\ req[h].source \notin sources)
    <3> DEFINE queued == CASE HasSource(req[h]) -> {req[h].source}
                           [] req[h].kind = "relation" -> {extraction[e] : e \in active}
                           [] OTHER -> {}
    <3>1. queued \subseteq Handlers
      <4>1. {extraction[e] : e \in active} \subseteq Handlers
        BY <1>0 DEF TypeOK, RowsOfRequests
      <4>2. HasSource(req[h]) => req[h].source \in Handlers
        BY <1>0, <1>3, InputFields DEF StoreInput, RequestAt
      <4> QED BY <4>1, <4>2
    <3>2. PICK q \in Orders(queued) :
             /\ work' = [work EXCEPT ![h].queue = q]
             /\ Goto(h, IF q = <<>> THEN "commit" ELSE "read_extraction")
      BY <1>3, <2>2 DEF StoreInput
    <3>3. q \in Seq(Handlers)
      BY <3>1, <3>2, OrdersType
    <3>4. txn' = [txn EXCEPT ![h].stored = TRUE] /\ UNCHANGED <<db, req, answer>>
      BY <1>3, <2>2 DEF StoreInput
    <3> HIDE DEF queued
    <3>5. txn' \in [Handlers -> Txn] /\ work' \in [Handlers -> Work]
      BY <1>0, <3>2, <3>3, <3>4, TxnUpdates, WorkUpdates DEF TypeOK
    <3> QED BY <1>0, <3>2, <3>4, <3>5 DEF TypeOK, Goto, Label, db
  <2> QED BY <2>1, <2>2
<1> QED BY <1>1, <1>2, <1>3

(* What composition has to do next, when it is done with a source.         *)
LEMMA NextType ==
    ASSUME TypeOK, NEW h \in Handlers, work[h].queue # <<>>, NextSource(h)
    PROVE  work' \in [Handlers -> Work] /\ pc' \in [Handlers -> Label]
<1> DEFINE w == [NoWork EXCEPT !.target = work[h].target, !.queue = Tail(work[h].queue)]
<1>1. work[h] \in Work
  BY DEF TypeOK
<1>2. work[h].target \in Handlers \cup {NoOne} /\ Tail(work[h].queue) \in Seq(Handlers)
  BY <1>1 DEF Work
<1>3. w \in Work
  BY <1>2 DEF NoWork, Work
<1>4. work' = [work EXCEPT ![h] = w]
  BY DEF NextSource
<1> HIDE DEF w
<1>5. work' \in [Handlers -> Work]
  BY <1>3, <1>4 DEF TypeOK
<1> QED BY <1>5 DEF NextSource, Goto, TypeOK, Label

LEMMA ReadType ==
    ASSUME IType, NEW h \in Handlers, ReadExtraction(h) \/ ReadInputs(h)
    PROVE  TypeOK'
<1>0. TypeOK /\ ComposedAt(h)
  BY DEF IType
<1>1. CASE ReadExtraction(h)
  <2>1. CASE NextSource(h)
    <3>1. work[h].queue # <<>>
      BY <1>0, <1>1 DEF ReadExtraction, ComposedAt
    <3>2. work' \in [Handlers -> Work] /\ pc' \in [Handlers -> Label]
      BY <1>0, <2>1, <3>1, NextType
    <3> QED BY <1>0, <1>1, <3>2 DEF ReadExtraction, TypeOK, db
  <2>2. CASE VisibleActive(h, Head(work[h].queue)) # {}
    <3>1. PICK e \in VisibleActive(h, Head(work[h].queue)) :
             work' = [work EXCEPT ![h].ext = e]
      BY <1>1, <2>2 DEF ReadExtraction
    <3>2. e \in Handlers
      BY <1>0 DEF VisibleActive, ActiveOf, TypeOK
    <3>3. work' \in [Handlers -> Work]
      BY <1>0, <3>1, <3>2, WorkUpdates DEF TypeOK
    <3> QED BY <1>0, <1>1, <2>2, <3>3 DEF ReadExtraction, TypeOK, Goto, Label, db
  <2> QED BY <1>1, <2>1, <2>2 DEF ReadExtraction
<1>2. CASE ReadInputs(h)
  <2> DEFINE I == {i \in VisibleInputs(h) : AppliesTo(i, Head(work[h].queue))}
  <2>1. I \subseteq Handlers
    BY <1>0 DEF TypeOK, VisibleInputs
  <2>2. work' = [work EXCEPT ![h].seen = I]
    BY <1>2 DEF ReadInputs
  <2> HIDE DEF I
  <2>3. work' \in [Handlers -> Work]
    BY <1>0, <2>1, <2>2, WorkUpdates DEF TypeOK
  <2> QED BY <1>0, <1>2, <2>3 DEF ReadInputs, TypeOK, Goto, Label, db
<1> QED BY <1>1, <1>2

LEMMA DeletedType ==
    ASSUME TypeOK, NEW h \in Handlers, NEW rows \in SUBSET CanonicalRow, Deleted(h, rows),
           UNCHANGED <<db, req, answer>>
    PROVE  TypeOK'
<1>1. txn[h] \in Txn /\ work[h] \in Work
  BY DEF TypeOK
<1>2. txn[h].deleted \cup rows \subseteq CanonicalRow /\ work[h].table + 1 \in Nat
  BY <1>1 DEF Txn, Work
<1>3. /\ txn' = [txn EXCEPT ![h].deleted = txn[h].deleted \cup rows]
      /\ work' = [work EXCEPT ![h].table = work[h].table + 1, ![h].victims = {}]
  BY DEF Deleted, TypeOK
<1>4. txn' \in [Handlers -> Txn]
  BY <1>1, <1>2, <1>3, TxnUpdates DEF TypeOK
<1>5. work' \in [Handlers -> Work]
  BY <1>1, <1>2, <1>3, WorkUpdates DEF TypeOK
<1> QED BY <1>4, <1>5 DEF Deleted, TypeOK, Goto, Label, db

LEMMA DeleteType ==
    ASSUME IType, NEW h \in Handlers, Delete(h) \/ DeleteWait(h)
    PROVE  TypeOK'
<1>0. TypeOK /\ canonical \subseteq CanonicalRow
  BY DEF IType, TypeOK
<1>1. CASE Delete(h)
  <2> DEFINE victims == {r \in canonical : /\ r.source = Head(work[h].queue)
                                           /\ r.table = work[h].table}
  <2>1. victims \subseteq CanonicalRow
    BY <1>0
  <2> HIDE DEF victims
  <2>2. CASE Deleted(h, victims)
    BY <1>0, <1>1, <2>1, <2>2, DeletedType DEF Delete
  <2>3. CASE /\ work' = [work EXCEPT ![h].victims = victims]
             /\ Goto(h, "delete_wait")
             /\ UNCHANGED txn
    <3>1. work' \in [Handlers -> Work]
      BY <1>0, <2>1, <2>3, WorkUpdates DEF TypeOK
    <3> QED BY <1>0, <1>1, <2>3, <3>1 DEF Delete, TypeOK, Goto, Label, db
  <2> QED BY <1>1, <2>2, <2>3 DEF Delete, victims
<1>2. CASE DeleteWait(h)
  <2>1. work[h].victims \cap canonical \subseteq CanonicalRow
    BY <1>0
  <2> QED BY <1>0, <1>2, <2>1, DeletedType DEF DeleteWait
<1> QED BY <1>1, <1>2

(* What Resolve does: it goes on to the additions, or finds the entity of  *)
(* the name at hand, or has a name to create.                              *)
LEMMA ResolveCases ==
    ASSUME IType, NEW h \in Handlers, Resolve(h)
    PROVE  /\ UNCHANGED <<db, req, answer, txn>>
           /\ \/ pc' = [pc EXCEPT ![h] = "apply_additions"] /\ work' = work
              \/ /\ pc' = pc
                 /\ work' = [work EXCEPT ![h] = [work[h] EXCEPT !.at = work[h].at + 1]]
              \/ \E n \in Names :
                    /\ work' = [work EXCEPT ![h] = [work[h] EXCEPT !.name = n]]
                    /\ pc' = [pc EXCEPT ![h] = "create_entity"]
<1> DEFINE mentions == Mentions[req[work[h].ext].payload]
<1>0. /\ TypeOK /\ work[h] \in Work
      /\ work[h].ext \in Handlers /\ req[work[h].ext] \in IngestPost
      /\ work[h].at # 0
      /\ \A i \in work[h].seen : req[i] \in InputPost
  BY DEF IType, TypeOK, ComposedAt, Composing, Resolve
<1>1. CASE work[h].at > Len(mentions)
  BY <1>0, <1>1 DEF Resolve, Goto
<1>2. CASE ~(work[h].at > Len(mentions))
  <2>1. PICK n \in CorrectedNames(mentions[work[h].at], work[h].seen) :
           IF {n, Singular[n]} \cap VisibleNames(h) # {}
           THEN work' = [work EXCEPT ![h].at = @ + 1] /\ UNCHANGED pc
           ELSE work' = [work EXCEPT ![h].name = n] /\ Goto(h, "create_entity")
    BY <1>2 DEF Resolve
  <2>2. work[h].at \in 1..Len(mentions)
    BY <1>0, <1>2, ConstantsAssumption DEF Work, IngestPost
  <2>3. n \in Names
    BY <1>0, <2>1, <2>2, CorrectedType DEF Work
  <2>4. [work EXCEPT ![h].at = @ + 1] =
           [work EXCEPT ![h] = [work[h] EXCEPT !.at = work[h].at + 1]]
    BY <1>0 DEF TypeOK
  <2>5. UNCHANGED <<db, req, answer, txn>>
    BY DEF Resolve
  <2> QED BY <2>1, <2>3, <2>4, <2>5 DEF Goto
<1> QED BY <1>1, <1>2

LEMMA ResolveType ==
    ASSUME IType, NEW h \in Handlers, Resolve(h)
    PROVE  TypeOK'
<1>0. TypeOK /\ work[h] \in Work
  BY DEF IType, TypeOK
<1>1. UNCHANGED <<db, req, answer, txn>>
  BY ResolveCases
<1>2. work[h].at + 1 \in Nat
  BY <1>0 DEF Work
<1>3. ASSUME NEW w, work' = [work EXCEPT ![h] = w], w \in Work
      PROVE  work' \in [Handlers -> Work]
  BY <1>0, <1>3 DEF TypeOK
<1>4. [work[h] EXCEPT !.at = work[h].at + 1] \in Work
  BY <1>0, <1>2, WorkUpdates
<1>5. \A n \in Names : [work[h] EXCEPT !.name = n] \in Work
  BY <1>0, WorkUpdates
<1>6. work' \in [Handlers -> Work]
  BY <1>0, <1>3, <1>4, <1>5, ResolveCases DEF TypeOK
<1>7. pc' \in [Handlers -> Label]
  BY <1>0, ResolveCases DEF TypeOK, Label
<1> QED BY <1>0, <1>1, <1>6, <1>7 DEF TypeOK, db

LEMMA CreateType ==
    ASSUME IType, NEW h \in Handlers, CreateEntity(h)
    PROVE  TypeOK'
<1>0. TypeOK /\ txn[h] \in Txn /\ work[h] \in Work /\ work[h].name \in Names
  BY DEF IType, TypeOK, ComposedAt, CreateEntity
<1>1. CASE work[h].name \in entities
  BY <1>0, <1>1, EndType DEF CreateEntity
<1>2. CASE work[h].name \notin entities
  <2>1. txn[h].names \cup {work[h].name} \subseteq Names /\ work[h].at + 1 \in Nat
    BY <1>0 DEF Txn, Work
  <2>2. /\ txn' = [txn EXCEPT ![h].names = txn[h].names \cup {work[h].name}]
        /\ work' = [work EXCEPT ![h].name = NoOne, ![h].at = work[h].at + 1]
        /\ Goto(h, "resolve") /\ UNCHANGED <<db, req, answer>>
    BY <1>0, <1>2 DEF CreateEntity, TypeOK
  <2>3. txn' \in [Handlers -> Txn]
    BY <1>0, <2>1, <2>2, TxnUpdates DEF TypeOK
  <2>4. work' \in [Handlers -> Work]
    BY <1>0, <2>1, <2>2, WorkUpdates DEF TypeOK
  <2> QED BY <1>0, <2>2, <2>3, <2>4 DEF TypeOK, Goto, Label, db
<1> QED BY <1>1, <1>2

LEMMA AdditionsType ==
    ASSUME IType, NEW h \in Handlers, ApplyAdditions(h)
    PROVE  TypeOK'
<1> DEFINE rows == Batch(Head(work[h].queue), h, work[h].ext, work[h].seen)
<1>0. /\ TypeOK /\ txn[h] \in Txn /\ work[h] \in Work
      /\ work[h].queue # <<>>
      /\ work[h].ext \in Handlers /\ req[work[h].ext] \in IngestPost
      /\ \A i \in work[h].seen : req[i] \in InputPost
  BY DEF IType, TypeOK, ComposedAt, Composing, ApplyAdditions
<1>1. CASE EndWith(h, "500")
  BY <1>0, <1>1, EndType
<1>2. CASE /\ txn' = [txn EXCEPT ![h].added = @ \cup rows]
           /\ NextSource(h)
           /\ UNCHANGED <<db, req, answer>>
  <2>1. Head(work[h].queue) \in Handlers /\ work[h].seen \subseteq Handlers
    BY <1>0 DEF Work
  <2>2. rows \subseteq CanonicalRow
    BY <1>0, <2>1, BatchType
  <2> HIDE DEF rows
  <2>3. /\ txn[h].added \cup rows \subseteq CanonicalRow
        /\ txn' = [txn EXCEPT ![h].added = txn[h].added \cup rows]
    BY <1>0, <1>2, <2>2 DEF TypeOK, Txn
  <2>4. txn' \in [Handlers -> Txn]
    BY <1>0, <2>3, TxnUpdates DEF TypeOK
  <2>5. work' \in [Handlers -> Work] /\ pc' \in [Handlers -> Label]
    BY <1>0, <1>2, NextType
  <2> QED BY <1>0, <1>2, <2>4, <2>5 DEF TypeOK, db
<1> QED BY <1>1, <1>2 DEF ApplyAdditions

LEMMA CommitType ==
    ASSUME IType, NEW h \in Handlers, Commit(h)
    PROVE  TypeOK'
<1>0. TypeOK /\ RequestAt(h) /\ txn[h] \in Txn /\ work[h] \in Work
  BY DEF IType, TypeOK
<1>1. transcript' \in [Transcripts -> Texts \cup {NoText}]
  <2>1. req[h] \in Request
    BY <1>0 DEF RequestAt, Commit
  <2>2. req[h].kind = "transcript" => req[h].text \in Texts
    BY <2>1 DEF Request, TranscriptPost, IngestPost, RecomposePost, CorrectionPost,
                AdditionPost, RelationPost
  <2> QED BY <1>0, <2>2 DEF Commit, TypeOK
<1>2. sources' \in SUBSET Handlers /\ active' \in SUBSET Handlers /\ inputs' \in SUBSET Handlers
  BY <1>0 DEF Commit, TypeOK
<1>3. extraction' \in [Handlers -> Handlers \cup {NoOne}]
  BY <1>0 DEF Commit, StoredExtraction, TypeOK, Work
<1>4. entities' \in SUBSET Names /\ canonical' \in SUBSET CanonicalRow
  BY <1>0 DEF Commit, TypeOK, Txn
<1>5. txn' \in [Handlers -> Txn] /\ work' \in [Handlers -> Work]
  BY <1>0, NoTxnType, NoWorkType DEF Commit, TypeOK
<1>6. /\ pc' \in [Handlers -> Label] /\ req' = req /\ plan' = plan
      /\ answer' \in [Handlers -> {"none", "200", "201", "403", "404", "500", "lost"}]
  BY <1>0 DEF Commit, TypeOK, Goto, Label
<1> QED BY <1>0, <1>1, <1>2, <1>3, <1>4, <1>5, <1>6 DEF TypeOK

LEMMA TypeStep ==
    ASSUME IType, NEW h \in Handlers, Moves(h)
    PROVE  TypeOK'
<1>1. CASE BreakDeadlock(h) \/ Crash(h)
  BY <1>1, EndType DEF IType, BreakDeadlock, Crash
<1> QED
  BY <1>1, BeginType, TranscriptType, SourceType, QueueType, ReadType, DeleteType, ResolveType,
     CreateType, AdditionsType, CommitType DEF Moves, Step

-----------------------------------------------------------------------------
(* Which request is where.                                                 *)

LEMMA KindsOfRequests ==
    ASSUME NEW r \in Request
    PROVE  /\ r.kind = "transcript" <=> r \in TranscriptPost
           /\ r.kind = "ingest" <=> r \in IngestPost
           /\ r.kind = "recompose" <=> r \in RecomposePost
           /\ r.kind \notin {"transcript", "ingest", "recompose"} <=> r \in InputPost
BY DEF Request, TranscriptPost, IngestPost, RecomposePost, CorrectionPost, AdditionPost,
       RelationPost, InputPost

LEMMA StepRuns ==
    ASSUME NEW h, Step(h) \/ BreakDeadlock(h) \/ Crash(h)
    PROVE  pc[h] \notin {"idle", "done"}
<1>1. CASE BreakDeadlock(h) \/ Crash(h)
  BY <1>1 DEF BreakDeadlock, Crash, Deadlocked, BlockedBy, InFlight
<1>2. CASE Step(h)
  BY <1>2 DEF Step, FindTranscript, InsertTranscript, GetTranscript, CreateSource, ReuseSource,
         SaveSource, Demote, DemoteWait, InsertExtraction, GetSource, StoreInput, ReadExtraction,
         ReadInputs, Delete, DeleteWait, Resolve, CreateEntity, ApplyAdditions, Commit
<1> QED BY <1>1, <1>2

LEMMA EndAt ==
    ASSUME IType, NEW h \in Handlers, pc[h] # "idle", NEW code, EndWith(h, code)
    PROVE  RequestAt(h)' /\ ComposedAt(h)'
<1>1. /\ pc'[h] = "done" /\ txn'[h] = NoTxn /\ work'[h] = NoWork /\ req'[h] = req[h]
      /\ req[h] \in Request
  BY DEF EndWith, Goto, IType, TypeOK, RequestAt
<1> QED BY <1>1 DEF RequestAt, ComposedAt, Composing, NoTxn, NoWork

LEMMA MoverRequest ==
    ASSUME IType, NEW h \in Handlers, Moves(h)
    PROVE  RequestAt(h)'
<1>0. TypeOK /\ RequestAt(h) /\ txn[h] \in Txn /\ work[h] \in Work
  BY DEF IType, TypeOK
<1>1. CASE Begin(h)
  <2>1. PICK r \in PlanOf[plan].requests[h] : req' = [req EXCEPT ![h] = r] /\ Goto(h, EntryOf(r))
    BY <1>1 DEF Begin
  <2>2. r \in Request
    BY <1>0, <2>1, ConstantsAssumption DEF TypeOK, Plan
  <2>3. /\ req'[h] = r /\ pc'[h] = EntryOf(r) /\ txn'[h] = txn[h] /\ work'[h] = work[h]
        /\ req[h] = NoOne
    BY <1>0, <1>1, <2>1 DEF Begin, TypeOK, Goto, RequestAt
  <2>4. ~txn[h].promoted /\ ~txn[h].stored
    BY <1>0, <2>3, ConstantsAssumption
       DEF RequestAt, Request, IngestPost, InputPost
  <2> QED BY <2>2, <2>3, <2>4, KindsOfRequests DEF RequestAt, EntryOf
<1>2. ASSUME NEW code, EndWith(h, code), pc[h] # "idle" PROVE RequestAt(h)'
  BY <1>2, EndAt
<1>3. CASE FindTranscript(h) \/ GetTranscript(h) \/ InsertTranscript(h)
  <2>1. CASE FindTranscript(h)
    <3>1. /\ req'[h] = req[h] /\ txn'[h] = txn[h] /\ req[h] \in TranscriptPost
          /\ pc'[h] \in {"insert_transcript", "demote"} /\ pc[h] = "find_transcript"
      BY <1>0, <2>1 DEF FindTranscript, TypeOK, Goto, RequestAt
    <3> QED BY <1>0, <3>1, KindsOfRequests DEF RequestAt
  <2>2. CASE GetTranscript(h) /\ ~\E code : EndWith(h, code)
    <3>1. req'[h] = req[h] /\ txn'[h] = txn[h] /\ work'[h] = work[h] /\ pc'[h] = "find_source"
          /\ pc[h] = "get_transcript"
      BY <1>0, <2>2 DEF GetTranscript, TypeOK, Goto
    <3> QED BY <1>0, <3>1 DEF RequestAt
  <2>3. CASE InsertTranscript(h) /\ ~\E code : EndWith(h, code)
    <3>1. /\ req'[h] = req[h] /\ txn'[h] = txn[h] /\ pc'[h] = "done"
          /\ pc[h] = "insert_transcript"
      BY <1>0, <2>3 DEF InsertTranscript, TypeOK, Goto
    <3> QED BY <1>0, <3>1, KindsOfRequests DEF RequestAt
  <2> QED BY <1>2, <1>3, <2>1, <2>2, <2>3 DEF FindTranscript, GetTranscript, InsertTranscript
<1>4. CASE CreateSource(h) \/ ReuseSource(h) \/ SaveSource(h)
  <2>1. CASE CreateSource(h)
    <3>1. /\ req'[h] = req[h] /\ pc'[h] = "demote" /\ pc[h] = "find_source"
          /\ txn'[h] = [txn[h] EXCEPT !.created = TRUE]
          /\ work'[h] = [work[h] EXCEPT !.target = h]
      BY <1>0, <2>1 DEF CreateSource, TypeOK, Goto
    <3> QED BY <1>0, <3>1 DEF RequestAt, Txn, Work
  <2>2. CASE ReuseSource(h) /\ ~\E code : EndWith(h, code)
    <3>1. PICK s \in Handlers :
             /\ req'[h] = req[h] /\ txn'[h] = txn[h]
             /\ pc'[h] \in {"save_source", "demote"} /\ pc[h] = "find_source"
             /\ work'[h] = [work[h] EXCEPT !.target = s]
      <4>1. PICK s \in SourcesOf(req[h].transcript), dirty \in BOOLEAN :
               /\ work' = [work EXCEPT ![h].target = s]
               /\ Goto(h, IF dirty THEN "save_source" ELSE "demote")
               /\ UNCHANGED <<db, req, answer, txn>>
        BY <2>2 DEF ReuseSource
      <4>2. s \in Handlers
        BY <1>0 DEF SourcesOf, TypeOK
      <4>3. work'[h] = [work[h] EXCEPT !.target = s]
        BY <1>0, <4>1 DEF TypeOK
      <4> QED BY <1>0, <2>2, <4>1, <4>2, <4>3 DEF ReuseSource, TypeOK, Goto
    <3> QED BY <1>0, <3>1 DEF RequestAt, Work
  <2>3. CASE SaveSource(h)
    <3>1. /\ req'[h] = req[h] /\ pc'[h] = "demote" /\ pc[h] = "save_source"
          /\ txn'[h] = [txn[h] EXCEPT !.saved = work[h].target] /\ work'[h] = work[h]
      BY <1>0, <2>3 DEF SaveSource, TypeOK, Goto
    <3> QED BY <1>0, <3>1 DEF RequestAt, Txn
  <2> QED BY <1>2, <1>4, <2>1, <2>2, <2>3 DEF CreateSource, ReuseSource, SaveSource
<1>5. CASE Demote(h) \/ DemoteWait(h)
  <2>1. /\ req'[h] = req[h] /\ pc[h] \in {"demote", "demote_wait"}
        /\ pc'[h] \in {"demote_wait", AfterDemote(h)}
        /\ \E S : txn'[h] = [txn[h] EXCEPT !.demoted = S] \/ txn'[h] = txn[h]
        /\ \E V : work'[h] = [work[h] EXCEPT !.victims = V] \/ work'[h] = work[h]
    <3>1. CASE Demote(h)
      <4>1. req' = req /\ pc[h] = "demote"
        BY <3>1 DEF Demote
      <4>2. CASE \E S : /\ txn' = [txn EXCEPT ![h].demoted = S] /\ work' = work
                        /\ Goto(h, AfterDemote(h))
        BY <1>0, <4>1, <4>2 DEF TypeOK, Goto
      <4>3. CASE \E V : /\ work' = [work EXCEPT ![h].victims = V] /\ txn' = txn
                        /\ Goto(h, "demote_wait")
        BY <1>0, <4>1, <4>3 DEF TypeOK, Goto
      <4> QED BY <3>1, <4>2, <4>3 DEF Demote
    <3>2. CASE DemoteWait(h)
      <4>1. /\ req' = req /\ pc[h] = "demote_wait" /\ Goto(h, AfterDemote(h))
            /\ txn' = [txn EXCEPT ![h].demoted = work[h].victims \cap active]
            /\ work' = [work EXCEPT ![h].victims = {}]
        BY <3>2 DEF DemoteWait
      <4> QED BY <1>0, <4>1 DEF TypeOK, Goto
    <3> QED BY <1>5, <3>1, <3>2
  <2>2. /\ txn'[h].promoted = txn[h].promoted /\ txn'[h].stored = txn[h].stored
        /\ work'[h].target = work[h].target
    BY <1>0, <2>1 DEF Txn, Work
  <2> QED BY <1>0, <2>1, <2>2, KindsOfRequests DEF RequestAt, AfterDemote
<1>6. CASE InsertExtraction(h) /\ ~\E code : EndWith(h, code)
  <2>1. /\ req'[h] = req[h] /\ pc[h] = "insert_extraction" /\ pc'[h] = "read_extraction"
        /\ txn'[h] = [txn[h] EXCEPT !.promoted = TRUE]
        /\ work'[h] = [work[h] EXCEPT !.queue = <<work[h].target>>]
    BY <1>0, <1>6 DEF InsertExtraction, TypeOK, Goto
  <2>2. req[h] \in IngestPost /\ work[h].target \in Handlers /\ ~txn'[h].stored
    <3>1. txn'[h].stored = txn[h].stored
      BY <1>0, <2>1 DEF Txn
    <3> QED BY <1>0, <2>1, <3>1, KindsOfRequests DEF RequestAt
  <2>3. work'[h].target = work[h].target
    BY <1>0, <2>1 DEF Work
  <2> QED BY <1>0, <2>1, <2>2, <2>3 DEF RequestAt
<1>7. CASE (GetSource(h) \/ StoreInput(h)) /\ ~\E code : EndWith(h, code)
  <2>1. /\ req'[h] = req[h] /\ pc'[h] \in {"read_extraction", "commit"}
        /\ \E q : work'[h] = [work[h] EXCEPT !.queue = q]
    <3>1. CASE GetSource(h)
      <4>1. /\ work' = [work EXCEPT ![h].queue = <<req[h].source>>]
            /\ Goto(h, "read_extraction") /\ req' = req
        BY <1>7, <3>1 DEF GetSource
      <4> QED BY <1>0, <4>1 DEF TypeOK, Goto
    <3>2. CASE StoreInput(h)
      <4>1. PICK q : /\ work' = [work EXCEPT ![h].queue = q]
                     /\ Goto(h, IF q = <<>> THEN "commit" ELSE "read_extraction")
        BY <1>7, <3>2 DEF StoreInput
      <4>2. req' = req
        BY <1>7, <3>2 DEF StoreInput
      <4> QED BY <1>0, <4>1, <4>2 DEF TypeOK, Goto
    <3> QED BY <1>7, <3>1, <3>2
  <2>2. work'[h].target = work[h].target
    BY <1>0, <2>1 DEF Work
  <2>3. \/ txn'[h] = txn[h] /\ pc[h] = "get_source"
        \/ txn'[h] = [txn[h] EXCEPT !.stored = TRUE] /\ pc[h] = "store_input"
    BY <1>0, <1>7 DEF GetSource, StoreInput, TypeOK
  <2>4. /\ txn'[h].promoted = txn[h].promoted
        /\ txn'[h].stored => txn[h].stored \/ req[h] \in InputPost
    BY <1>0, <2>3 DEF Txn, RequestAt
  <2> QED BY <1>0, <2>1, <2>2, <2>3, <2>4 DEF RequestAt
<1>8. ASSUME ReadExtraction(h) \/ ReadInputs(h) \/ Delete(h) \/ DeleteWait(h) \/ Resolve(h)
             \/ CreateEntity(h) \/ ApplyAdditions(h),
             ~\E code : EndWith(h, code)
      PROVE  RequestAt(h)'
  <2>1. req' = req /\ pc[h] \in Composing \cup {"read_extraction"}
    BY <1>8 DEF ReadExtraction, ReadInputs, Delete, DeleteWait, Resolve, CreateEntity,
                ApplyAdditions, Composing
  <2>2. pc'[h] \in Composing \cup {"read_extraction", "commit"}
    BY <1>0, <1>8 DEF ReadExtraction, NextSource, ReadInputs, Delete, DeleteWait, Deleted,
                      Resolve, CreateEntity, ApplyAdditions, Composing, TypeOK, Goto
  <2>3. txn'[h].promoted = txn[h].promoted /\ txn'[h].stored = txn[h].stored
    <3>1. CASE ReadExtraction(h) \/ ReadInputs(h) \/ Resolve(h)
      BY <1>0, <3>1 DEF ReadExtraction, ReadInputs, Resolve
    <3>2. CASE Delete(h) \/ DeleteWait(h)
      BY <1>0, <3>2 DEF Delete, DeleteWait, Deleted, TypeOK, Txn
    <3>3. CASE CreateEntity(h)
      BY <1>0, <1>8, <3>3 DEF CreateEntity, TypeOK, Txn
    <3>4. CASE ApplyAdditions(h)
      <4>1. PICK R : txn' = [txn EXCEPT ![h].added = R]
        BY <1>8, <3>4 DEF ApplyAdditions
      <4> QED BY <1>0, <4>1 DEF TypeOK, Txn
    <3> QED BY <1>8, <3>1, <3>2, <3>3, <3>4
  <2>4. work'[h].target = work[h].target
    <3>1. CASE NextSource(h)
      BY <1>0, <3>1 DEF NextSource, TypeOK, NoWork
    <3>2. CASE ~NextSource(h) /\ (ReadExtraction(h) \/ ReadInputs(h))
      BY <1>0, <3>2 DEF ReadExtraction, ReadInputs, TypeOK, Work
    <3>3. CASE Delete(h) \/ DeleteWait(h)
      BY <1>0, <3>3 DEF Delete, DeleteWait, Deleted, TypeOK, Work
    <3>4. CASE Resolve(h)
      BY <1>0, <3>4 DEF Resolve, TypeOK, Work
    <3>5. CASE CreateEntity(h)
      BY <1>0, <1>8, <3>5 DEF CreateEntity, TypeOK, Work
    <3>6. CASE ApplyAdditions(h)
      BY <1>8, <3>1, <3>6 DEF ApplyAdditions
    <3> QED BY <1>8, <3>1, <3>2, <3>3, <3>4, <3>5, <3>6
  <2> QED BY <1>0, <2>1, <2>2, <2>3, <2>4 DEF RequestAt, Composing
<1>9. CASE Commit(h)
  <2>1. /\ req'[h] = req[h] /\ pc'[h] = "done" /\ pc[h] = "commit" /\ txn'[h] = NoTxn
    BY <1>0, <1>9 DEF Commit, TypeOK, Goto
  <2> QED BY <1>0, <2>1 DEF RequestAt, NoTxn
<1>10. CASE BreakDeadlock(h) \/ Crash(h)
  <2>1. pc[h] # "idle"
    BY <1>10, StepRuns
  <2> QED BY <1>2, <1>10, <2>1 DEF BreakDeadlock, Crash
<1>11. Step(h) => pc[h] # "idle"
  BY StepRuns
<1> QED
  BY <1>1, <1>2, <1>3, <1>4, <1>5, <1>6, <1>7, <1>8, <1>9, <1>10, <1>11 DEF Moves, Step

LEMMA MoverComposed ==
    ASSUME IType, NEW h \in Handlers, Moves(h)
    PROVE  ComposedAt(h)'
<1>0. TypeOK /\ RequestAt(h) /\ ComposedAt(h) /\ txn[h] \in Txn /\ work[h] \in Work
  BY DEF IType, TypeOK
<1>1. /\ \A q \in Handlers : req[q] \in IngestPost => req'[q] \in IngestPost
      /\ \A q \in Handlers : req[q] \in InputPost => req'[q] \in InputPost
  <2>1. IngestPost \subseteq Request /\ InputPost \subseteq Request
    BY DEF Request, InputPost
  <2> QED BY <2>1, RequestsStay
<1>2. ASSUME NEW code, EndWith(h, code), pc[h] # "idle" PROVE ComposedAt(h)'
  BY <1>2, EndAt
<1>3. ASSUME pc'[h] \notin Composing \cup {"read_extraction"},
             work'[h].seen \subseteq work[h].seen, work'[h].at # 0
      PROVE  ComposedAt(h)'
  <2>1. \A i \in work'[h].seen : req'[i] \in InputPost
    BY <1>0, <1>1, <1>3 DEF ComposedAt, Work
  <2> QED BY <1>3, <2>1 DEF ComposedAt, Composing
<1>4. CASE Begin(h) \/ FindTranscript(h) \/ InsertTranscript(h) \/ GetTranscript(h)
  <2>1. CASE Begin(h)
    <3>1. pc'[h] \notin Composing \cup {"read_extraction"}
      BY <1>0, <2>1 DEF Begin, EntryOf, Goto, Composing, TypeOK
    <3>2. work'[h] = work[h]
      BY <2>1 DEF Begin
    <3> QED BY <1>0, <1>3, <3>1, <3>2 DEF ComposedAt
  <2>2. CASE FindTranscript(h)
    <3>1. pc'[h] \notin Composing \cup {"read_extraction"}
      BY <1>0, <2>2 DEF FindTranscript, Goto, Composing, TypeOK
    <3>2. work'[h].seen = work[h].seen /\ work'[h].at = work[h].at
      BY <1>0, <2>2 DEF FindTranscript, TypeOK, Work
    <3> QED BY <1>0, <1>3, <3>1, <3>2 DEF ComposedAt
  <2>3. CASE GetTranscript(h) /\ ~\E code : EndWith(h, code)
    <3>1. pc'[h] = "find_source" /\ work'[h] = work[h]
      BY <1>0, <2>3 DEF GetTranscript, Goto, TypeOK
    <3> QED BY <1>0, <1>3, <3>1 DEF ComposedAt, Composing
  <2>4. CASE InsertTranscript(h) /\ ~\E code : EndWith(h, code)
    <3>1. pc'[h] = "done" /\ work'[h] = NoWork
      BY <1>0, <2>4 DEF InsertTranscript, Goto, TypeOK
    <3> QED BY <1>0, <1>3, <3>1 DEF ComposedAt, Composing, NoWork
  <2> QED BY <1>2, <1>4, <2>1, <2>2, <2>3, <2>4, StepRuns DEF Step
<1>5. CASE CreateSource(h) \/ SaveSource(h) \/ Demote(h) \/ DemoteWait(h)
  <2>1. CASE CreateSource(h)
    <3>1. /\ pc'[h] = "demote" /\ work'[h].seen = work[h].seen /\ work'[h].at = work[h].at
      BY <1>0, <2>1 DEF CreateSource, Goto, TypeOK, Work
    <3> QED BY <1>0, <1>3, <3>1 DEF ComposedAt, Composing
  <2>2. CASE SaveSource(h)
    <3>1. /\ pc'[h] = "demote" /\ work'[h] = work[h]
      BY <1>0, <2>2 DEF SaveSource, Goto, TypeOK
    <3> QED BY <1>0, <1>3, <3>1 DEF ComposedAt, Composing
  <2>3. CASE Demote(h)
    <3>1. pc'[h] \in {"demote_wait", "commit", "insert_extraction"}
      BY <1>0, <2>3 DEF Demote, AfterDemote, Goto, TypeOK
    <3>2. work'[h].seen = work[h].seen /\ work'[h].at = work[h].at
      BY <1>0, <2>3 DEF Demote, TypeOK, Work
    <3> QED BY <1>0, <1>3, <3>1, <3>2 DEF ComposedAt, Composing
  <2>4. CASE DemoteWait(h)
    <3>1. pc'[h] \in {"commit", "insert_extraction"}
      BY <1>0, <2>4 DEF DemoteWait, AfterDemote, Goto, TypeOK
    <3>2. work'[h].seen = work[h].seen /\ work'[h].at = work[h].at
      BY <1>0, <2>4 DEF DemoteWait, TypeOK, Work
    <3> QED BY <1>0, <1>3, <3>1, <3>2 DEF ComposedAt, Composing
  <2> QED BY <1>5, <2>1, <2>2, <2>3, <2>4
<1>6. CASE ReuseSource(h) /\ ~\E code : EndWith(h, code)
  <2>1. PICK s : \E dirty \in BOOLEAN :
           /\ work' = [work EXCEPT ![h].target = s]
           /\ Goto(h, IF dirty THEN "save_source" ELSE "demote")
    BY <1>6 DEF ReuseSource
  <2>2. work'[h].seen = work[h].seen /\ work'[h].at = work[h].at
    BY <1>0, <2>1 DEF TypeOK, Work
  <2>3. pc'[h] \in {"save_source", "demote"}
    BY <1>0, <2>1 DEF TypeOK, Goto
  <2> QED BY <1>0, <1>3, <2>2, <2>3 DEF ComposedAt, Composing
<1>7. CASE (InsertExtraction(h) \/ GetSource(h) \/ StoreInput(h)) /\ ~\E code : EndWith(h, code)
  <2>1. PICK q : /\ work' = [work EXCEPT ![h].queue = q]
                 /\ Goto(h, IF q = <<>> THEN "commit" ELSE "read_extraction")
    <3>1. CASE InsertExtraction(h)
      <4>1. <<work[h].target>> # <<>>
        OBVIOUS
      <4> QED BY <1>7, <3>1, <4>1 DEF InsertExtraction
    <3>2. CASE GetSource(h)
      <4>1. <<req[h].source>> # <<>>
        OBVIOUS
      <4> QED BY <1>7, <3>2, <4>1 DEF GetSource
    <3>3. CASE StoreInput(h)
      BY <1>7, <3>3 DEF StoreInput
    <3> QED BY <1>7, <3>1, <3>2, <3>3
  <2>2. /\ work'[h].seen = work[h].seen /\ work'[h].at = work[h].at
        /\ work'[h].queue = q
    BY <1>0, <2>1 DEF TypeOK, Work
  <2>3. /\ pc'[h] \in {"commit", "read_extraction"}
        /\ pc'[h] = "read_extraction" => q # <<>>
    BY <1>0, <2>1 DEF TypeOK, Goto
  <2>4. \A i \in work'[h].seen : req'[i] \in InputPost
    BY <1>0, <1>1, <2>2 DEF ComposedAt, Work
  <2> QED BY <1>0, <2>2, <2>3, <2>4 DEF ComposedAt, Composing
<1>8. CASE NextSource(h)
  <2>1. /\ pc'[h] = IF Tail(work[h].queue) = <<>> THEN "commit" ELSE "read_extraction"
        /\ work'[h] = [NoWork EXCEPT !.target = work[h].target, !.queue = Tail(work[h].queue)]
    BY <1>0, <1>8 DEF NextSource, TypeOK, Goto
  <2>2. /\ work'[h].queue = Tail(work[h].queue) /\ work'[h].at = 1 /\ work'[h].seen = {}
    BY <2>1 DEF NoWork
  <2>3. pc'[h] \notin Composing /\ pc'[h] # "create_entity"
    BY <2>1 DEF Composing
  <2>4. pc'[h] = "read_extraction" => work'[h].queue # <<>>
    BY <2>1, <2>2
  <2>5. work'[h].at # 0 /\ \A i \in work'[h].seen : req'[i] \in InputPost
    BY <2>2
  <2> QED BY <2>3, <2>4, <2>5 DEF ComposedAt
<1>9. CASE ReadExtraction(h) /\ ~NextSource(h)
  <2>1. PICK e \in VisibleActive(h, Head(work[h].queue)) : work' = [work EXCEPT ![h].ext = e]
    BY <1>9 DEF ReadExtraction
  <2>2. e \in Handlers /\ req[e] \in IngestPost
    BY <1>0, <2>1 DEF VisibleActive, ActiveOf, IType, RowsOfRequests, RequestAt, TypeOK
  <2>3. /\ pc'[h] = "read_inputs" /\ pc[h] = "read_extraction" /\ req' = req
        /\ work'[h] = [work[h] EXCEPT !.ext = e]
    BY <1>0, <1>9, <2>1 DEF ReadExtraction, TypeOK, Goto
  <2> QED BY <1>0, <2>2, <2>3 DEF ComposedAt, Composing, Work
<1>10. CASE ReadInputs(h)
  <2> DEFINE I == {i \in VisibleInputs(h) : AppliesTo(i, Head(work[h].queue))}
  <2>1. \A i \in I : req[i] \in InputPost
    BY <1>0 DEF VisibleInputs, IType, RowsOfRequests, RequestAt
  <2>2. work' = [work EXCEPT ![h].seen = I]
    BY <1>10 DEF ReadInputs
  <2> HIDE DEF I
  <2>3. /\ pc'[h] = "delete" /\ pc[h] = "read_inputs" /\ req' = req
        /\ work'[h] = [work[h] EXCEPT !.seen = I]
    BY <1>0, <1>10, <2>2 DEF ReadInputs, TypeOK, Goto
  <2> QED BY <1>0, <2>1, <2>3 DEF ComposedAt, Composing, Work
<1>11. CASE Delete(h) \/ DeleteWait(h)
  <2>1. /\ req' = req /\ pc[h] \in {"delete", "delete_wait"}
        /\ pc'[h] \in {"delete", "delete_wait", "resolve"}
    BY <1>0, <1>11 DEF Delete, DeleteWait, Deleted, TypeOK, Goto
  <2>2. /\ work'[h].queue = work[h].queue /\ work'[h].ext = work[h].ext
        /\ work'[h].seen = work[h].seen /\ work'[h].at = work[h].at
    BY <1>0, <1>11 DEF Delete, DeleteWait, Deleted, TypeOK, Work
  <2> QED BY <1>0, <2>1, <2>2 DEF ComposedAt, Composing
<1>12. CASE CreateEntity(h) /\ ~\E code : EndWith(h, code)
  <2>1. /\ req' = req /\ pc[h] = "create_entity" /\ pc'[h] = "resolve"
        /\ work'[h] = [work[h] EXCEPT !.name = NoOne, !.at = work[h].at + 1]
    BY <1>0, <1>12 DEF CreateEntity, TypeOK, Goto
  <2> QED BY <1>0, <2>1 DEF ComposedAt, Composing, Work
<1>13. CASE Resolve(h)
  <2>1. req' = req /\ pc[h] = "resolve"
    BY <1>13, ResolveCases DEF Resolve
  <2>2. CASE pc' = [pc EXCEPT ![h] = "apply_additions"] /\ work' = work
    <3>1. pc'[h] = "apply_additions" /\ work'[h] = work[h]
      BY <1>0, <2>2 DEF TypeOK
    <3> QED BY <1>0, <2>1, <3>1 DEF ComposedAt, Composing
  <2>3. CASE /\ pc' = pc
             /\ work' = [work EXCEPT ![h] = [work[h] EXCEPT !.at = work[h].at + 1]]
    <3>1. pc'[h] = "resolve" /\ work'[h] = [work[h] EXCEPT !.at = work[h].at + 1]
      BY <1>0, <2>1, <2>3 DEF TypeOK
    <3> QED BY <1>0, <2>1, <3>1 DEF ComposedAt, Composing, Work
  <2>4. ASSUME NEW n \in Names, work' = [work EXCEPT ![h] = [work[h] EXCEPT !.name = n]],
               pc' = [pc EXCEPT ![h] = "create_entity"]
        PROVE  ComposedAt(h)'
    <3>1. pc'[h] = "create_entity" /\ work'[h] = [work[h] EXCEPT !.name = n]
      BY <1>0, <2>4 DEF TypeOK
    <3> QED BY <1>0, <2>1, <3>1 DEF ComposedAt, Composing, Work
  <2> QED BY <1>13, <2>2, <2>3, <2>4, ResolveCases
<1>14. CASE Commit(h)
  <2>1. pc'[h] = "done" /\ work'[h] = NoWork
    BY <1>0, <1>14 DEF Commit, TypeOK, Goto
  <2> QED BY <2>1 DEF ComposedAt, Composing, NoWork
<1>15. CASE BreakDeadlock(h) \/ Crash(h)
  BY <1>2, <1>15, StepRuns DEF BreakDeadlock, Crash
<1>16. CASE ApplyAdditions(h)
  BY <1>2, <1>8, <1>16, StepRuns DEF ApplyAdditions, Step
<1>17. ASSUME NEW code, EndWith(h, code), Step(h) PROVE ComposedAt(h)'
  BY <1>2, <1>17, StepRuns
<1> QED
  BY <1>4, <1>5, <1>6, <1>7, <1>8, <1>9, <1>10, <1>11, <1>12, <1>13, <1>14, <1>15, <1>16, <1>17
     DEF Moves, Step

(* Rows of extractions, corrections and additions are written by commits.  *)
LEMMA RowsWritten ==
    ASSUME NEW h \in Handlers, Moves(h), ~Commit(h)
    PROVE  UNCHANGED <<sources, extraction, active, inputs, entities, canonical>>
<1> USE DEF db
<1>1. CASE Begin(h) \/ BreakDeadlock(h) \/ Crash(h)
  BY <1>1 DEF Begin, BreakDeadlock, Crash, EndWith
<1>2. CASE FindTranscript(h) \/ InsertTranscript(h) \/ GetTranscript(h) \/ CreateSource(h)
           \/ ReuseSource(h) \/ SaveSource(h)
  BY <1>2 DEF FindTranscript, InsertTranscript, GetTranscript, CreateSource, ReuseSource,
              SaveSource, EndWith
<1>3. CASE Demote(h) \/ DemoteWait(h) \/ InsertExtraction(h) \/ GetSource(h) \/ StoreInput(h)
  BY <1>3 DEF Demote, DemoteWait, InsertExtraction, GetSource, StoreInput, EndWith
<1>4. CASE ReadExtraction(h) \/ ReadInputs(h) \/ Delete(h) \/ DeleteWait(h)
           \/ Resolve(h) \/ CreateEntity(h) \/ ApplyAdditions(h)
  BY <1>4 DEF ReadExtraction, ReadInputs, Delete, DeleteWait, Resolve, CreateEntity,
              ApplyAdditions, EndWith
<1> QED BY <1>1, <1>2, <1>3, <1>4 DEF Moves, Step

LEMMA RowsStep ==
    ASSUME IType, NEW h \in Handlers, Moves(h)
    PROVE  RowsOfRequests'
<1>0. TypeOK /\ RequestAt(h) /\ RowsOfRequests
  BY DEF IType
<1>1. /\ \A q \in Handlers : req[q] \in IngestPost => req'[q] \in IngestPost
      /\ \A q \in Handlers : req[q] \in InputPost => req'[q] \in InputPost
  <2>1. IngestPost \subseteq Request /\ InputPost \subseteq Request
    BY DEF Request, InputPost
  <2> QED BY <2>1, RequestsStay
<1>2. \A q \in Handlers : pc[q] = "done" => pc'[q] = "done"
  <2>1. pc[h] # "done"
    BY StepRuns DEF Moves, Begin
  <2> QED BY <1>0, <2>1, OthersUntouched
<1>3. CASE Commit(h)
  <2>1. pc'[h] = "done"
    BY <1>0, <1>3 DEF Commit, Goto, TypeOK
  <2>2. ASSUME NEW e \in Handlers, e \in active' \/ extraction'[e] # NoOne
        PROVE  req'[e] \in IngestPost /\ pc'[e] = "done" /\ extraction'[e] \in Handlers
    <3>1. CASE e = h /\ txn[h].promoted
      <4>1. extraction'[e] = work[h].target
        BY <1>0, <1>3, <3>1 DEF Commit, StoredExtraction, TypeOK
      <4> QED BY <1>0, <1>1, <2>1, <3>1, <4>1 DEF RequestAt
    <3>2. CASE ~(e = h /\ txn[h].promoted)
      <4>1. extraction'[e] = extraction[e] /\ (e \in active' => e \in active)
        BY <1>0, <1>3, <3>2 DEF Commit, StoredExtraction, TypeOK
      <4> QED BY <1>0, <1>1, <1>2, <2>2, <4>1 DEF RowsOfRequests
    <3> QED BY <3>1, <3>2
  <2>3. \A i \in inputs' : req'[i] \in InputPost
    BY <1>0, <1>1, <1>3 DEF Commit, RowsOfRequests, RequestAt, TypeOK
  <2> QED BY <2>2, <2>3 DEF RowsOfRequests
<1>4. CASE ~Commit(h)
  BY <1>0, <1>1, <1>2, <1>4, RowsWritten DEF RowsOfRequests, TypeOK
<1> QED BY <1>3, <1>4

LEMMA ITypeStep == IType /\ [Next]_vars => IType'
<1> SUFFICES ASSUME IType, [Next]_vars PROVE IType'
  OBVIOUS
<1>1. ASSUME NEW h \in Handlers, Moves(h) PROVE IType'
  <2>1. RequestAt(h)' /\ ComposedAt(h)'
    BY <1>1, MoverRequest, MoverComposed
  <2>2. ASSUME NEW q \in Handlers \ {h} PROVE RequestAt(q)' /\ ComposedAt(q)'
    <3>1. /\ req'[q] = req[q] /\ pc'[q] = pc[q] /\ txn'[q] = txn[q] /\ work'[q] = work[q]
          /\ TypeOK /\ RequestAt(q) /\ ComposedAt(q) /\ work[q] \in Work
      BY <1>1, OthersUntouched DEF IType, TypeOK
    <3>2. /\ \A g \in Handlers : req[g] \in IngestPost => req'[g] \in IngestPost
          /\ \A g \in Handlers : req[g] \in InputPost => req'[g] \in InputPost
      <4>1. IngestPost \subseteq Request /\ InputPost \subseteq Request
        BY DEF Request, InputPost
      <4> QED BY <1>1, <4>1, RequestsStay
    <3>3. RequestAt(q)'
      BY <3>1 DEF RequestAt
    <3>4. ComposedAt(q)'
      BY <3>1, <3>2 DEF ComposedAt, Work
    <3> QED BY <3>3, <3>4
  <2> QED BY <1>1, <2>1, <2>2, TypeStep, RowsStep DEF IType
<1>2. CASE UNCHANGED vars
  BY <1>2 DEF vars, db, IType, TypeOK, RowsOfRequests, RequestAt, ComposedAt
<1> QED BY <1>1, <1>2 DEF Next, Quiet, Moves

LEMMA ITypeInit == Init => IType
<1> SUFFICES ASSUME Init PROVE IType
  OBVIOUS
<1>1. TypeOK
  <2>1. Init => transcript \in [Transcripts -> Texts \cup {NoText}]
    BY ConstantsAssumption DEF Init, Plan
  <2> QED BY <2>1, NoTxnType, NoWorkType, ConstantsAssumption DEF Init, TypeOK, Label
<1>2. \A h \in Handlers : RequestAt(h) /\ ComposedAt(h)
  BY DEF Init, RequestAt, ComposedAt, Composing, NoTxn, NoWork
<1>3. RowsOfRequests
  BY DEF Init, RowsOfRequests
<1> QED BY <1>1, <1>2, <1>3 DEF IType

(* Type correctness, in every interleaving of any set of requests.         *)
THEOREM TypeCorrect == Spec => []TypeOK
<1>1. IType => TypeOK
  BY DEF IType
<1> QED BY <1>1, ITypeInit, ITypeStep, PTL DEF Spec

-----------------------------------------------------------------------------
(***************************************************************************)
(* One active extraction per source.  The partial unique index makes the   *)
(* transactions that have inserted an active extraction exclusive per      *)
(* source, and each of them has already demoted every extraction that is   *)
(* active: nothing can become active beside it before it commits.          *)
(***************************************************************************)
PromotedLate ==
    \A h \in Handlers :
        txn[h].promoted => pc[h] \in Composing \cup {"read_extraction", "commit"}

OnePromotion ==
    \A g, h \in Handlers :
        txn[g].promoted /\ txn[h].promoted /\ work[g].target = work[h].target => g = h

PromotedDemotesAll ==
    \A h \in Handlers : txn[h].promoted => ActiveOf(work[h].target) \subseteq txn[h].demoted

IOne == IType /\ PromotedLate /\ OnePromotion /\ PromotedDemotesAll /\ OneActiveExtraction

(* A transaction that holds a promotion keeps it, its target and what it   *)
(* demoted; only InsertExtraction makes one.                               *)
LEMMA PromotionKept ==
    ASSUME IType, PromotedLate, NEW h \in Handlers, Moves(h), txn'[h].promoted
    PROVE  /\ pc'[h] \in Composing \cup {"read_extraction", "commit"}
           /\ work'[h].target = work[h].target /\ txn'[h].demoted = txn[h].demoted
           /\ \/ txn[h].promoted
              \/ /\ InsertExtraction(h) /\ BlockedBy(h) = {}
                 /\ ActiveOf(work[h].target) \subseteq txn[h].demoted
<1>0. TypeOK /\ txn[h] \in Txn /\ work[h] \in Work
  BY DEF IType, TypeOK
<1>1. ASSUME NEW code, EndWith(h, code) PROVE FALSE
  BY <1>0, <1>1 DEF EndWith, TypeOK, NoTxn
<1>2. CASE Begin(h) \/ FindTranscript(h) \/ InsertTranscript(h) \/ GetTranscript(h)
           \/ ReuseSource(h) \/ GetSource(h)
  <2>1. /\ txn'[h] = txn[h]
        /\ pc[h] \notin Composing \cup {"read_extraction", "commit"}
    BY <1>1, <1>2 DEF Begin, FindTranscript, InsertTranscript, GetTranscript,
                      ReuseSource, GetSource, Composing
  <2> QED BY <2>1 DEF PromotedLate
<1>3. CASE CreateSource(h) \/ SaveSource(h) \/ Demote(h) \/ DemoteWait(h) \/ StoreInput(h)
  <2>1. txn'[h].promoted = txn[h].promoted
    <3>1. CASE CreateSource(h) \/ SaveSource(h)
      <4>1. \/ txn'[h] = [txn[h] EXCEPT !.created = TRUE]
            \/ txn'[h] = [txn[h] EXCEPT !.saved = work[h].target]
        BY <1>0, <3>1 DEF CreateSource, SaveSource, TypeOK
      <4> QED BY <1>0, <4>1 DEF Txn
    <3>2. CASE Demote(h) \/ DemoteWait(h)
      <4>1. PICK S : txn'[h] = [txn[h] EXCEPT !.demoted = S] \/ txn'[h] = txn[h]
        <5>1. CASE Demote(h)
          <6>1. PICK D : txn' = [txn EXCEPT ![h].demoted = D] \/ txn' = txn
            BY <5>1 DEF Demote
          <6> QED BY <1>0, <6>1 DEF TypeOK
        <5>2. CASE DemoteWait(h)
          <6>1. txn' = [txn EXCEPT ![h].demoted = work[h].victims \cap active]
            BY <5>2 DEF DemoteWait
          <6> QED BY <1>0, <6>1 DEF TypeOK
        <5> QED BY <3>2, <5>1, <5>2
      <4>2. ASSUME NEW D, txn'[h] = [txn[h] EXCEPT !.demoted = D]
            PROVE  txn'[h].promoted = txn[h].promoted
        BY <1>0, <4>2 DEF Txn
      <4> QED BY <4>1, <4>2
    <3>3. CASE StoreInput(h)
      <4>1. txn' = [txn EXCEPT ![h].stored = TRUE]
        BY <1>1, <3>3 DEF StoreInput
      <4> QED BY <1>0, <4>1 DEF TypeOK, Txn
    <3> QED BY <1>3, <3>1, <3>2, <3>3
  <2>2. pc[h] \notin Composing \cup {"read_extraction", "commit"}
    BY <1>3 DEF CreateSource, SaveSource, Demote, DemoteWait, StoreInput, Composing
  <2> QED BY <2>1, <2>2 DEF PromotedLate
<1>4. CASE InsertExtraction(h)
  <2>1. /\ ActiveOf(work[h].target) \subseteq txn[h].demoted
        /\ txn' = [txn EXCEPT ![h].promoted = TRUE]
        /\ work' = [work EXCEPT ![h].queue = <<work[h].target>>]
        /\ Goto(h, "read_extraction")
    BY <1>1, <1>4 DEF InsertExtraction
  <2>2. /\ pc'[h] = "read_extraction" /\ txn'[h].demoted = txn[h].demoted
        /\ work'[h].target = work[h].target
    BY <1>0, <2>1 DEF TypeOK, Txn, Work, Goto
  <2> QED BY <1>4, <2>1, <2>2 DEF InsertExtraction
<1>5. CASE NextSource(h) /\ (ReadExtraction(h) \/ ApplyAdditions(h))
  <2>1. pc'[h] \in {"commit", "read_extraction"} /\ work'[h].target = work[h].target
    BY <1>0, <1>5 DEF NextSource, TypeOK, Goto, NoWork
  <2>2. txn'[h].demoted = txn[h].demoted /\ txn'[h].promoted = txn[h].promoted
    <3>1. CASE ReadExtraction(h)
      BY <1>0, <3>1 DEF ReadExtraction
    <3>2. CASE ApplyAdditions(h)
      <4>1. PICK R : txn' = [txn EXCEPT ![h].added = R]
        BY <1>1, <3>2 DEF ApplyAdditions
      <4> QED BY <1>0, <4>1 DEF TypeOK, Txn
    <3> QED BY <1>5, <3>1, <3>2
  <2> QED BY <2>1, <2>2
<1>6. CASE (ReadExtraction(h) /\ ~NextSource(h)) \/ ReadInputs(h)
  <2>1. txn'[h] = txn[h] /\ pc'[h] \in Composing
    BY <1>0, <1>6 DEF ReadExtraction, ReadInputs, TypeOK, Goto, Composing
  <2>2. work'[h].target = work[h].target
    BY <1>0, <1>6 DEF ReadExtraction, ReadInputs, TypeOK, Work
  <2> QED BY <2>1, <2>2
<1>7. CASE Delete(h) \/ DeleteWait(h)
  <2>1. pc'[h] \in Composing
    BY <1>0, <1>7 DEF Delete, DeleteWait, Deleted, TypeOK, Goto, Composing
  <2>2. /\ work'[h].target = work[h].target
        /\ txn'[h].demoted = txn[h].demoted /\ txn'[h].promoted = txn[h].promoted
    <3>1. ASSUME NEW rows, Deleted(h, rows)
          PROVE  /\ txn'[h] = [txn[h] EXCEPT !.deleted = txn[h].deleted \cup rows]
                 /\ work'[h] = [work[h] EXCEPT !.table = work[h].table + 1, !.victims = {}]
      BY <1>0, <3>1 DEF Deleted, TypeOK
    <3>2. ASSUME NEW rows, Deleted(h, rows)
          PROVE  /\ work'[h].target = work[h].target
                 /\ txn'[h].demoted = txn[h].demoted /\ txn'[h].promoted = txn[h].promoted
      BY <1>0, <3>1, <3>2 DEF Txn, Work
    <3>3. CASE Delete(h) /\ ~\E rows : Deleted(h, rows)
      <4>1. PICK V : work' = [work EXCEPT ![h].victims = V] /\ UNCHANGED txn
        BY <3>3 DEF Delete
      <4> QED BY <1>0, <4>1 DEF TypeOK, Work
    <3> QED BY <1>7, <3>2, <3>3 DEF DeleteWait
  <2> QED BY <2>1, <2>2
<1>8. CASE Resolve(h)
  <2>1. txn'[h] = txn[h] /\ pc'[h] \in Composing
    <3>1. txn' = txn /\ pc[h] = "resolve"
      BY <1>8 DEF Resolve
    <3>2. pc' = pc \/ \E l \in Composing : pc' = [pc EXCEPT ![h] = l]
      BY <1>8, ResolveCases DEF Composing
    <3> QED BY <1>0, <3>1, <3>2 DEF TypeOK, Composing
  <2>2. work'[h].target = work[h].target
    BY <1>0, <1>8 DEF Resolve, TypeOK, Work
  <2> QED BY <2>1, <2>2
<1>9. CASE CreateEntity(h)
  <2>1. /\ Goto(h, "resolve")
        /\ txn' = [txn EXCEPT ![h].names = @ \cup {work[h].name}]
        /\ work' = [work EXCEPT ![h].name = NoOne, ![h].at = @ + 1]
    BY <1>1, <1>9 DEF CreateEntity
  <2>2. /\ pc'[h] = "resolve" /\ work'[h].target = work[h].target
        /\ txn'[h].demoted = txn[h].demoted /\ txn'[h].promoted = txn[h].promoted
    BY <1>0, <2>1 DEF TypeOK, Goto, Work, Txn
  <2> QED BY <2>2 DEF Composing
<1>10. ~Commit(h)
  BY <1>0 DEF Commit, TypeOK, NoTxn
<1> QED
  BY <1>1, <1>2, <1>3, <1>4, <1>5, <1>6, <1>7, <1>8, <1>9, <1>10
     DEF Moves, Step, BreakDeadlock, Crash, ApplyAdditions

(* What a commit does to the extractions.                                  *)
LEMMA CommitRows ==
    ASSUME IType, NEW h \in Handlers, Commit(h)
    PROVE  /\ h \notin active /\ extraction[h] = NoOne
           /\ \A e \in Handlers \ {h} : extraction'[e] = extraction[e]
           /\ txn[h].promoted => extraction'[h] = work[h].target
           /\ ~txn[h].promoted => extraction'[h] = NoOne
           /\ active' = (active \ txn[h].demoted) \cup (IF txn[h].promoted THEN {h} ELSE {})
           /\ txn'[h] = NoTxn
<1>1. pc[h] # "done"
  BY DEF Commit
<1>2. h \notin active /\ extraction[h] = NoOne
  BY <1>1 DEF IType, RowsOfRequests
<1> QED BY <1>2 DEF IType, TypeOK, Commit, StoredExtraction

LEMMA OneStep == IOne /\ [Next]_vars => IOne'
<1> SUFFICES ASSUME IOne, [Next]_vars PROVE IOne'
  OBVIOUS
<1>0. TypeOK /\ IType /\ IType'
  BY ITypeStep DEF IOne, IType
<1>1. ASSUME NEW h \in Handlers, Moves(h)
      PROVE  PromotedLate' /\ OnePromotion' /\ PromotedDemotesAll' /\ OneActiveExtraction'
  <2>0. \A q \in Handlers \ {h} : pc'[q] = pc[q] /\ txn'[q] = txn[q] /\ work'[q] = work[q]
    BY <1>0, <1>1, OthersUntouched
  <2>1. PromotedLate'
    BY <1>0, <1>1, <2>0, PromotionKept DEF IOne, PromotedLate
  <2>2. OnePromotion'
    <3>1. ASSUME NEW g \in Handlers, g # h, txn[g].promoted, txn'[h].promoted,
                 work[g].target = work'[h].target
          PROVE  FALSE
      <4>1. work[g].target = work[h].target /\ ~txn[h].promoted
        BY <1>0, <1>1, <3>1, PromotionKept DEF IOne, OnePromotion
      <4>2. InsertExtraction(h) /\ BlockedBy(h) = {} /\ pc[h] = "insert_extraction"
        BY <1>0, <1>1, <3>1, <4>1, PromotionKept DEF IOne, InsertExtraction
      <4>3. g \in BlockedBy(h)
        BY <3>1, <4>1, <4>2 DEF BlockedBy, Others
      <4> QED BY <4>2, <4>3
    <3> QED BY <2>0, <3>1 DEF IOne, OnePromotion
  <2>3. CASE Commit(h)
    <3>1. \A e \in Handlers \ {h} : extraction'[e] = extraction[e] /\ (e \in active' => e \in active)
      BY <1>0, <2>3, CommitRows
    <3>2. h \in active' => txn[h].promoted /\ extraction'[h] = work[h].target
      BY <1>0, <2>3, CommitRows
    <3>3. active \subseteq Handlers /\ active' \subseteq Handlers
      BY <1>0 DEF TypeOK, IType
    <3>4. PromotedDemotesAll'
      <4>1. ASSUME NEW g \in Handlers, txn'[g].promoted, NEW e \in active',
                   extraction'[e] = work'[g].target
            PROVE  e \in txn'[g].demoted
        <5>1. g # h
          BY <1>0, <2>3, <4>1, CommitRows DEF NoTxn
        <5>2. e # h
          BY <2>0, <3>2, <4>1, <5>1 DEF IOne, OnePromotion
        <5> QED BY <2>0, <3>1, <3>3, <4>1, <5>1, <5>2 DEF IOne, PromotedDemotesAll, ActiveOf
      <4> QED BY <4>1 DEF PromotedDemotesAll, ActiveOf
    <3>5. OneActiveExtraction'
      <4>1. ASSUME NEW e \in active', e # h, h \in active', extraction'[e] = extraction'[h]
            PROVE  FALSE
        <5>1. e \in ActiveOf(work[h].target)
          BY <3>1, <3>2, <3>3, <4>1 DEF ActiveOf
        <5>2. e \in txn[h].demoted
          BY <3>2, <4>1, <5>1 DEF IOne, PromotedDemotesAll
        <5> QED BY <1>0, <2>3, <4>1, <5>2, CommitRows
      <4> QED BY <3>1, <3>3, <4>1 DEF IOne, OneActiveExtraction
    <3> QED BY <2>1, <2>2, <3>4, <3>5
  <2>4. CASE ~Commit(h)
    <3>1. active' = active /\ extraction' = extraction
      BY <1>1, <2>4, RowsWritten
    <3>2. PromotedDemotesAll'
      <4>1. ASSUME txn'[h].promoted
            PROVE  ActiveOf(work'[h].target) \subseteq txn'[h].demoted
        BY <1>0, <1>1, <4>1, PromotionKept DEF IOne, PromotedDemotesAll
      <4> QED BY <2>0, <3>1, <4>1 DEF IOne, PromotedDemotesAll, ActiveOf
    <3> QED BY <2>1, <2>2, <3>1, <3>2 DEF IOne, OneActiveExtraction
  <2> QED BY <2>3, <2>4
<1>2. CASE UNCHANGED vars
  BY <1>0, <1>2 DEF vars, db, IOne, PromotedLate, OnePromotion, PromotedDemotesAll, ActiveOf,
              OneActiveExtraction
<1> QED BY <1>0, <1>1, <1>2 DEF IOne, Next, Quiet, Moves

LEMMA OneInvariant == Spec => []IOne
<1>1. Init => IOne
  BY ITypeInit DEF Init, IOne, PromotedLate, OnePromotion, PromotedDemotesAll,
                   OneActiveExtraction, NoTxn
<1> QED BY <1>1, OneStep, PTL DEF Spec

(* However ingests, transcript re-posts and crashes interleave, no source  *)
(* has two active extractions.                                             *)
THEOREM OneActive == Spec => []OneActiveExtraction
<1>1. IOne => OneActiveExtraction
  BY DEF IOne
<1> QED BY <1>1, OneInvariant, PTL

(* A stored extraction stays, keeps its source, and is not active again    *)
(* once it was demoted: a handler stores only its own extraction, once.    *)
THEOREM HistoryIsKept == Spec => ExtractionHistoryKept
<1>1. IType /\ [Next]_vars => [HistoryKept]_vars
  <2> SUFFICES ASSUME IType, [Next]_vars PROVE HistoryKept \/ UNCHANGED vars
    OBVIOUS
  <2>1. ASSUME NEW h \in Handlers, Commit(h) PROVE HistoryKept
    BY <2>1, CommitRows DEF HistoryKept
  <2>2. ASSUME NEW h \in Handlers, Moves(h), ~Commit(h) PROVE HistoryKept
    BY <2>2, RowsWritten DEF HistoryKept
  <2> QED BY <2>1, <2>2 DEF Next, Quiet, Moves
<1> QED BY <1>1, ITypeInit, ITypeStep, PTL DEF Spec, ExtractionHistoryKept

-----------------------------------------------------------------------------
(***************************************************************************)
(* What a handler that composes has in hand.  Of every source it has       *)
(* touched and is done with, its transaction holds a complete composition: *)
(* of an extraction that is stored or that it is about to store, with      *)
(* inputs it has read.  Sources it has still to compose are in its queue.  *)
(***************************************************************************)
Queued(h) == {work[h].queue[i] : i \in DOMAIN work[h].queue}

ExtractionOf(h, e, s) ==
    extraction[e] = s \/ (e = h /\ txn[h].promoted /\ work[h].target = s)

Applicable(h, s) == {i \in VisibleInputs(h) : AppliesTo(i, s)}
Admitted(h, s) ==
    {i \in Applicable(h, s) : IsAddition(i) => req[i].refs \subseteq VisibleNames(h)}

Untouched(h, s) ==
    /\ \A r \in txn[h].deleted \cup txn[h].added : r.source # s
    /\ ~(txn[h].promoted /\ work[h].target = s)

Finished(h, s) ==
    \E e \in Handlers, I \in SUBSET Admitted(h, s) :
        ExtractionOf(h, e, s) /\ {r \in txn[h].added : r.source = s} = Batch(s, h, e, I)

(* The queue names each source once, and is empty unless h composes.       *)
QueueKept(h) ==
    /\ \A i, j \in DOMAIN work[h].queue : work[h].queue[i] = work[h].queue[j] => i = j
    /\ pc[h] \notin Composing \cup {"read_extraction"} => work[h].queue = <<>>

(* What the composition of the first source has read and deleted.          *)
HeadKept(h) ==
    /\ pc[h] \notin Composing => work[h].seen = {}
    /\ pc[h] \in Composing => ExtractionOf(h, work[h].ext, Head(work[h].queue))
    /\ work[h].seen # {} => work[h].seen \subseteq Applicable(h, Head(work[h].queue))
    /\ \A s \in Queued(h) : \A r \in txn[h].deleted :
          r.source = s => pc[h] \in Composing /\ s = Head(work[h].queue)

SourcesKept(h) ==
    /\ \A s \in Queued(h) : \A r \in txn[h].added : r.source # s
    /\ \A s \in Handlers \ Queued(h) : Untouched(h, s) \/ Finished(h, s)

(* Before it composes, a handler has written no canonical row.             *)
NothingWritten(h) ==
    pc[h] \notin Composing \cup {"read_extraction", "commit"} =>
        txn[h].deleted = {} /\ txn[h].added = {}

(* The rows a DELETE waits for are rows of the source it composes.         *)
VictimsKept(h) ==
    pc[h] = "delete_wait" => \A r \in work[h].victims : r.source = Head(work[h].queue)

Built(h) ==
    QueueKept(h) /\ HeadKept(h) /\ SourcesKept(h) /\ NothingWritten(h) /\ VictimsKept(h)
IBuilt == \A h \in Handlers : Built(h)

-----------------------------------------------------------------------------
(* Taking the first source off the queue.                                  *)
LEMMA QueueTail ==
    ASSUME NEW q \in Seq(Handlers), q # <<>>,
           \A i, j \in DOMAIN q : q[i] = q[j] => i = j
    PROVE  LET rest == Tail(q)
           IN  /\ \A i, j \in DOMAIN rest : rest[i] = rest[j] => i = j
               /\ {rest[i] : i \in DOMAIN rest} = {q[i] : i \in DOMAIN q} \ {Head(q)}
               /\ Head(q) \in {q[i] : i \in DOMAIN q}
<1> DEFINE rest == Tail(q)
<1>1. /\ Len(q) \in Nat \ {0} /\ DOMAIN q = 1..Len(q) /\ Head(q) = q[1]
      /\ DOMAIN rest = 1..Len(q) - 1
      /\ \A i \in DOMAIN rest : rest[i] = q[i + 1] /\ i + 1 \in DOMAIN q
  OBVIOUS
<1> HIDE DEF rest
<1>2. \A i, j \in DOMAIN rest : rest[i] = rest[j] => i = j
  <2> SUFFICES ASSUME NEW i \in DOMAIN rest, NEW j \in DOMAIN rest, rest[i] = rest[j]
               PROVE  i = j
    OBVIOUS
  <2>1. i + 1 = j + 1
    BY <1>1
  <2> QED BY <1>1, <2>1
<1>3. \A i \in DOMAIN rest : rest[i] \in {q[k] : k \in DOMAIN q} \ {Head(q)}
  <2> SUFFICES ASSUME NEW i \in DOMAIN rest
               PROVE  rest[i] \in {q[k] : k \in DOMAIN q} /\ rest[i] # Head(q)
    OBVIOUS
  <2>1. i + 1 # 1 /\ 1 \in DOMAIN q
    BY <1>1
  <2> QED BY <1>1, <2>1
<1>4. \A k \in DOMAIN q : q[k] # Head(q) => q[k] \in {rest[i] : i \in DOMAIN rest}
  <2> SUFFICES ASSUME NEW k \in DOMAIN q, q[k] # Head(q)
               PROVE  \E i \in DOMAIN rest : q[k] = rest[i]
    OBVIOUS
  <2>1. k # 1
    BY <1>1
  <2>2. k - 1 \in DOMAIN rest /\ (k - 1) + 1 = k
    BY <1>1, <2>1
  <2> QED BY <1>1, <2>2
<1>5. Head(q) \in {q[i] : i \in DOMAIN q}
  BY <1>1
<1>6. {rest[i] : i \in DOMAIN rest} = {q[i] : i \in DOMAIN q} \ {Head(q)}
  BY <1>3, <1>4
<1> QED BY <1>2, <1>5, <1>6 DEF rest

LEMMA EmptyQueue == ASSUME NEW h, work[h].queue = <<>> PROVE Queued(h) = {}
BY DEF Queued

(* A handler that has not begun to compose, or has ended, is well built.   *)
LEMMA BuiltEarly ==
    ASSUME NEW h \in Handlers, pc'[h] \notin Composing,
           \A i, j \in DOMAIN work'[h].queue :
              work'[h].queue[i] = work'[h].queue[j] => i = j,
           pc'[h] # "read_extraction" => work'[h].queue = <<>>,
           work'[h].seen = {}, txn'[h].deleted = {}, txn'[h].added = {},
           txn'[h].promoted => work'[h].target \in Queued(h)'
    PROVE  Built(h)'
BY DEF Built, QueueKept, HeadKept, SourcesKept, NothingWritten, VictimsKept, Untouched, Composing

(* The rows of a composition depend on requests that are being served.     *)
LEMMA BatchKept ==
    ASSUME IType, NEW m \in Handlers, Moves(m), NEW h \in Handlers, NEW s \in Handlers,
           NEW e \in Handlers, ExtractionOf(h, e, s), NEW I \in SUBSET VisibleInputs(h)
    PROVE  /\ req'[e] = req[e] /\ \A i \in I : i \in Handlers /\ req'[i] = req[i]
           /\ Batch(s, h, e, I)' = Batch(s, h, e, I)
<1>1. req[e] \in Request
  <2>1. req[e] \in IngestPost
    BY ConstantsAssumption DEF IType, RowsOfRequests, ExtractionOf, RequestAt, TypeOK
  <2> QED BY <2>1 DEF Request
<1>2. \A i \in I : i \in Handlers /\ req[i] \in Request
  <2>1. \A i \in I : i \in Handlers /\ req[i] \in InputPost
    BY DEF VisibleInputs, IType, RowsOfRequests, RequestAt, TypeOK
  <2> QED BY <2>1 DEF Request, InputPost
<1>3. req'[e] = req[e] /\ \A i \in I : req'[i] = req[i]
  BY <1>1, <1>2, RequestsStay
<1> QED BY <1>2, <1>3 DEF Batch, TablesOf, IsAddition

(* Inputs that a handler has admitted stay admitted while it goes on.      *)
LEMMA AdmittedKept ==
    ASSUME IType, NEW m \in Handlers, Moves(m), NEW h \in Handlers, NEW s \in Handlers,
           txn[h].stored => txn'[h].stored, txn[h].names \subseteq txn'[h].names,
           inputs \subseteq inputs', entities \subseteq entities'
    PROVE  /\ Applicable(h, s) \subseteq Applicable(h, s)'
           /\ Admitted(h, s) \subseteq Admitted(h, s)'
<1>1. VisibleInputs(h) \subseteq VisibleInputs(h)' /\ VisibleNames(h) \subseteq VisibleNames(h)'
  BY DEF VisibleInputs, VisibleNames
<1>2. \A i \in VisibleInputs(h) : req'[i] = req[i]
  <2>1. \A i \in VisibleInputs(h) : i \in Handlers /\ req[i] \in InputPost
    BY DEF VisibleInputs, IType, RowsOfRequests, RequestAt, TypeOK
  <2>2. \A i \in VisibleInputs(h) : i \in Handlers /\ req[i] \in Request
    BY <2>1 DEF Request, InputPost
  <2> QED BY <2>2, RequestsStay
<1> QED BY <1>1, <1>2 DEF Applicable, Admitted, AppliesTo, IsAddition

(* Nothing that is stored is taken away.                                   *)
LEMMA StoredStays ==
    ASSUME IType, NEW m \in Handlers, Moves(m)
    PROVE  /\ inputs \subseteq inputs' /\ entities \subseteq entities'
           /\ \A e \in Handlers : extraction[e] # NoOne => extraction'[e] = extraction[e]
<1>1. CASE Commit(m)
  BY <1>1, CommitRows DEF Commit
<1>2. CASE ~Commit(m)
  BY <1>2, RowsWritten
<1> QED BY <1>1, <1>2

(* What a handler is done with stays so while its transaction goes on.     *)
LEMMA FinishedKept ==
    ASSUME IType, NEW m \in Handlers, Moves(m), NEW h \in Handlers, NEW s \in Handlers,
           Finished(h, s),
           txn[h].promoted => txn'[h].promoted /\ work'[h].target = work[h].target,
           txn[h].stored => txn'[h].stored, txn[h].names \subseteq txn'[h].names,
           {r \in txn'[h].added : r.source = s} = {r \in txn[h].added : r.source = s}
    PROVE  Finished(h, s)'
<1>1. PICK e \in Handlers, I \in SUBSET Admitted(h, s) :
         ExtractionOf(h, e, s) /\ {r \in txn[h].added : r.source = s} = Batch(s, h, e, I)
  BY DEF Finished
<1>2. I \subseteq Admitted(h, s)'
  BY <1>1, StoredStays, AdmittedKept
<1>3. ExtractionOf(h, e, s)'
  BY <1>1, StoredStays, ConstantsAssumption DEF ExtractionOf
<1>4. Batch(s, h, e, I)' = Batch(s, h, e, I)
  BY <1>1, BatchKept DEF Admitted, Applicable
<1>5. {r \in txn'[h].added : r.source = s} = Batch(s, h, e, I)'
  BY <1>1, <1>4
<1> QED BY <1>2, <1>3, <1>5 DEF Finished

(* A handler whose transaction nobody else touches stays well built.       *)
LEMMA BuiltOthers ==
    ASSUME IType, NEW m \in Handlers, Moves(m), NEW h \in Handlers \ {m}, Built(h)
    PROVE  Built(h)'
<1>1. pc'[h] = pc[h] /\ txn'[h] = txn[h] /\ work'[h] = work[h]
  BY OthersUntouched DEF IType
<1>2. QueueKept(h)' /\ NothingWritten(h)' /\ VictimsKept(h)'
  BY <1>1 DEF Built, QueueKept, NothingWritten, VictimsKept
<1>3. Queued(h)' = Queued(h)
  BY <1>1 DEF Queued
<1>4. \A s \in Handlers : Applicable(h, s) \subseteq Applicable(h, s)'
  BY <1>1, StoredStays, AdmittedKept
<1>5. \A e \in Handlers, s \in Handlers : ExtractionOf(h, e, s) => ExtractionOf(h, e, s)'
  BY <1>1, StoredStays, ConstantsAssumption DEF ExtractionOf
<1>6. HeadKept(h)'
  <2>1. CASE pc[h] \notin Composing
    BY <1>1, <1>3, <2>1 DEF Built, HeadKept
  <2>2. CASE pc[h] \in Composing
    <3>1. PICK s \in Handlers, e \in Handlers : s = Head(work[h].queue) /\ e = work[h].ext
      <4>1. ComposedAt(h) /\ work[h] \in Work
        BY DEF IType, TypeOK
      <4> QED BY <2>2, <4>1 DEF ComposedAt, Work
    <3>2. ExtractionOf(h, e, s)' /\ work'[h].seen \subseteq Applicable(h, s)'
      BY <1>1, <1>4, <1>5, <2>2, <3>1 DEF Built, HeadKept
    <3>3. s = Head(work'[h].queue) /\ e = work'[h].ext
      BY <1>1, <3>1
    <3>4. \A q \in Queued(h)' : \A r \in txn'[h].deleted :
             r.source = q => pc'[h] \in Composing /\ q = Head(work'[h].queue)
      BY <1>1, <1>3 DEF Built, HeadKept
    <3> QED BY <1>1, <2>2, <3>2, <3>3, <3>4 DEF HeadKept
  <2> QED BY <2>1, <2>2
<1>7. SourcesKept(h)'
  <2>1. ASSUME NEW s \in Handlers \ Queued(h) PROVE Untouched(h, s)' \/ Finished(h, s)'
    <3>1. CASE Untouched(h, s)
      BY <1>1, <3>1 DEF Untouched
    <3>2. CASE Finished(h, s)
      BY <1>1, <3>2, FinishedKept
    <3> QED BY <3>1, <3>2 DEF Built, SourcesKept
  <2> QED BY <1>1, <1>3, <2>1 DEF Built, SourcesKept
<1> QED BY <1>2, <1>6, <1>7 DEF Built

(***************************************************************************)
(* A statement of a composition: it stays at the first source, reads and   *)
(* deletes only what belongs to it, and inserts nothing.                   *)
(***************************************************************************)
LEMMA BuiltAtHead ==
    ASSUME IType, NEW h \in Handlers, Moves(h), Built(h), ~Commit(h),
           pc[h] \in Composing \cup {"read_extraction"}, pc'[h] \in Composing,
           req' = req,
           work'[h].queue = work[h].queue,
           work'[h].target = work[h].target,
           txn'[h].promoted = txn[h].promoted,
           txn'[h].stored = txn[h].stored,
           txn[h].names \subseteq txn'[h].names,
           txn'[h].added = txn[h].added,
           \A r \in txn'[h].deleted \ txn[h].deleted : r.source = Head(work[h].queue),
           ExtractionOf(h, work'[h].ext, Head(work[h].queue)),
           work'[h].seen \subseteq Applicable(h, Head(work[h].queue)),
           txn[h].deleted \subseteq txn'[h].deleted,
           VictimsKept(h)'
    PROVE  Built(h)'
<1>0. work[h] \in Work /\ ComposedAt(h)
  BY DEF IType, TypeOK
<1>1. PICK s0 \in Handlers : s0 = Head(work[h].queue) /\ s0 \in Queued(h)
  <2>1. work[h].queue \in Seq(Handlers) /\ work[h].queue # <<>>
    BY <1>0 DEF ComposedAt, Work
  <2>2. Head(work[h].queue) \in Queued(h)
    BY <2>1, QueueTail DEF Built, QueueKept, Queued
  <2> QED BY <2>1, <2>2
<1>2. Queued(h)' = Queued(h)
  BY DEF Queued
<1>3. UNCHANGED <<extraction, inputs, entities>>
  BY RowsWritten
<1>4. QueueKept(h)' /\ NothingWritten(h)'
  BY DEF Built, QueueKept, NothingWritten
<1>5. PICK e0 : e0 = work'[h].ext
  OBVIOUS
<1>6. ExtractionOf(h, e0, s0)'
  BY <1>1, <1>3, <1>5 DEF ExtractionOf
<1>7. work'[h].seen \subseteq Applicable(h, s0)'
  BY <1>1, <1>3 DEF Applicable, AppliesTo, VisibleInputs
<1>8. HeadKept(h)'
  <2>1. Head(work'[h].queue) = s0
    BY <1>1
  <2>2. \A s \in Queued(h) : \A r \in txn'[h].deleted : r.source = s => s = s0
    BY <1>1 DEF Built, HeadKept
  <2> QED BY <1>2, <1>5, <1>6, <1>7, <2>1, <2>2 DEF HeadKept
<1>9. SourcesKept(h)'
  <2>1. ASSUME NEW s \in Handlers \ Queued(h) PROVE Untouched(h, s)' \/ Finished(h, s)'
    <3>1. s # s0
      BY <1>1
    <3>2. CASE Untouched(h, s)
      BY <1>1, <3>1, <3>2 DEF Untouched
    <3>3. CASE Finished(h, s)
      BY <3>3, FinishedKept
    <3> QED BY <3>2, <3>3 DEF Built, SourcesKept
  <2> QED BY <1>2, <2>1 DEF Built, SourcesKept
<1> QED BY <1>4, <1>8, <1>9 DEF Built

(* A composition is over: its source is no longer in the queue.            *)
LEMMA NextQueue ==
    ASSUME TypeOK, NEW h \in Handlers, QueueKept(h), work[h].queue # <<>>, NextSource(h)
    PROVE  /\ QueueKept(h)'
           /\ Queued(h)' = Queued(h) \ {Head(work[h].queue)}
           /\ pc'[h] \in {"read_extraction", "commit"}
           /\ work'[h].seen = {} /\ work'[h].target = work[h].target
<1>1. PICK q \in Seq(Handlers) : q = work[h].queue
  BY DEF TypeOK, Work
<1>2. /\ work'[h] = [NoWork EXCEPT !.target = work[h].target, !.queue = Tail(work[h].queue)]
      /\ pc'[h] = IF Tail(work[h].queue) = <<>> THEN "commit" ELSE "read_extraction"
  BY DEF NextSource, Goto, TypeOK
<1>3. /\ work'[h].queue = Tail(work[h].queue) /\ work'[h].seen = {}
      /\ work'[h].target = work[h].target
  BY <1>2 DEF NoWork
<1>4. /\ \A i, j \in DOMAIN Tail(q) : Tail(q)[i] = Tail(q)[j] => i = j
      /\ {Tail(q)[i] : i \in DOMAIN Tail(q)} = {q[i] : i \in DOMAIN q} \ {Head(q)}
  <2>1. \A i, j \in DOMAIN q : q[i] = q[j] => i = j
    BY <1>1 DEF QueueKept
  <2>2. q # <<>>
    BY <1>1
  <2> QED BY <2>1, <2>2, QueueTail
<1>5. work'[h].queue = Tail(q)
  BY <1>1, <1>3
<1>6. Queued(h)' = Queued(h) \ {Head(work[h].queue)}
  <2>1. Queued(h)' = {Tail(q)[i] : i \in DOMAIN Tail(q)}
    BY <1>5 DEF Queued
  <2>2. Queued(h) = {q[i] : i \in DOMAIN q}
    BY <1>1 DEF Queued
  <2> QED BY <1>1, <1>4, <2>1, <2>2
<1>7. \A i, j \in DOMAIN work'[h].queue : work'[h].queue[i] = work'[h].queue[j] => i = j
  BY <1>4, <1>5
<1> QED BY <1>1, <1>2, <1>3, <1>5, <1>6, <1>7 DEF QueueKept

LEMMA BuiltNext ==
    ASSUME IType, NEW h \in Handlers, Moves(h), Built(h), ~Commit(h), NextSource(h),
           pc[h] \in Composing \cup {"read_extraction"}, req' = req,
           txn'[h].promoted = txn[h].promoted, txn'[h].stored = txn[h].stored,
           txn'[h].names = txn[h].names, txn'[h].deleted = txn[h].deleted,
           NEW s0 \in Handlers, s0 = Head(work[h].queue),
           Untouched(h, s0)' \/ Finished(h, s0)',
           \A s \in Handlers \ {s0} :
              {r \in txn'[h].added : r.source = s} = {r \in txn[h].added : r.source = s}
    PROVE  Built(h)'
<1>1. TypeOK /\ QueueKept(h) /\ work[h].queue # <<>>
  BY DEF IType, Built, ComposedAt
<1>2. /\ QueueKept(h)' /\ Queued(h)' = Queued(h) \ {s0}
      /\ pc'[h] \in {"read_extraction", "commit"}
      /\ work'[h].seen = {} /\ work'[h].target = work[h].target
  BY <1>1, NextQueue
<1>3. Queued(h) \subseteq Handlers
  <2>1. work[h].queue \in Seq(Handlers)
    BY <1>1 DEF TypeOK, Work
  <2> QED BY <2>1 DEF Queued
<1>4. NothingWritten(h)' /\ VictimsKept(h)'
  BY <1>2 DEF NothingWritten, VictimsKept
<1>5. HeadKept(h)'
  BY <1>2 DEF Built, HeadKept, Composing
<1>6. SourcesKept(h)'
  <2>1. \A s \in Queued(h)' : \A r \in txn'[h].added : r.source # s
    BY <1>2, <1>3 DEF Built, SourcesKept
  <2>2. ASSUME NEW s \in Handlers \ Queued(h)' PROVE Untouched(h, s)' \/ Finished(h, s)'
    <3>1. CASE s = s0
      BY <3>1
    <3>2. CASE s # s0 /\ Untouched(h, s)
      BY <1>2, <3>2 DEF Untouched
    <3>3. CASE s # s0 /\ Finished(h, s)
      BY <1>2, <3>3, FinishedKept
    <3> QED BY <1>2, <3>1, <3>2, <3>3 DEF Built, SourcesKept
  <2> QED BY <2>1, <2>2 DEF SourcesKept
<1> QED BY <1>2, <1>4, <1>5, <1>6 DEF Built

(* A handler that has ended has nothing in hand.                           *)
LEMMA BuiltEnd ==
    ASSUME NEW h \in Handlers, pc'[h] = "done", work'[h] = NoWork,
           txn'[h] = NoTxn \/ (txn'[h].deleted = {} /\ txn'[h].added = {} /\ ~txn'[h].promoted)
    PROVE  Built(h)'
<1>1. /\ work'[h].queue = <<>> /\ work'[h].seen = {}
      /\ txn'[h].deleted = {} /\ txn'[h].added = {} /\ ~txn'[h].promoted
  BY DEF NoWork, NoTxn
<1> QED BY <1>1, BuiltEarly DEF Composing

(* The statements before composition write no row and read no input.       *)
LEMMA EarlyKept ==
    ASSUME IType, PromotedLate, NEW h \in Handlers, Moves(h), Built(h),
           pc[h] \notin Composing \cup {"read_extraction", "commit"}
    PROVE  \/ pc'[h] = "done" /\ work'[h] = NoWork /\ (txn'[h] = NoTxn \/ txn'[h] = txn[h])
           \/ /\ pc'[h] \notin Composing
              /\ work'[h].seen = work[h].seen
              /\ txn'[h].deleted = txn[h].deleted /\ txn'[h].added = txn[h].added
              /\ \/ /\ pc'[h] # "read_extraction" /\ work'[h].queue = work[h].queue
                    /\ txn'[h].promoted = txn[h].promoted
                 \/ /\ pc'[h] = "read_extraction" /\ work'[h].queue = <<work'[h].target>>
                    /\ txn'[h].promoted /\ work'[h].target \in Handlers
                 \/ /\ pc'[h] = "read_extraction" /\ txn'[h].promoted = txn[h].promoted
                    /\ \E s \in Handlers : work'[h].queue = <<s>>
                 \/ /\ pc'[h] \in {"read_extraction", "commit"}
                    /\ txn'[h].promoted = txn[h].promoted
                    /\ pc'[h] = "commit" => work'[h].queue = <<>>
                    /\ \E S \in SUBSET Handlers : work'[h].queue \in Orders(S)
<1>0. TypeOK /\ RequestAt(h) /\ txn[h] \in Txn /\ work[h] \in Work
  BY DEF IType, TypeOK
<1>1. ASSUME NEW code, EndWith(h, code)
      PROVE  pc'[h] = "done" /\ work'[h] = NoWork /\ txn'[h] = NoTxn
  BY <1>0, <1>1 DEF EndWith, TypeOK, Goto
<1>2. CASE Begin(h)
  BY <1>0, <1>2 DEF Begin, TypeOK, Goto, EntryOf, Composing
<1>3. CASE FindTranscript(h)
  BY <1>0, <1>3 DEF FindTranscript, TypeOK, Goto, Composing, Work
<1>4. CASE InsertTranscript(h)
  BY <1>0, <1>1, <1>4 DEF InsertTranscript, TypeOK, Goto
<1>5. CASE GetTranscript(h)
  BY <1>0, <1>1, <1>5 DEF GetTranscript, TypeOK, Goto, Composing
<1>6. CASE CreateSource(h)
  BY <1>0, <1>6 DEF CreateSource, TypeOK, Goto, Composing, Work, Txn
<1>7. CASE ReuseSource(h)
  BY <1>0, <1>1, <1>7 DEF ReuseSource, TypeOK, Goto, Composing, Work
<1>8. CASE SaveSource(h)
  BY <1>0, <1>8 DEF SaveSource, TypeOK, Goto, Composing, Txn
<1>9. CASE Demote(h)
  <2>1. pc'[h] \in {"commit", "insert_extraction", "demote_wait"}
    BY <1>0, <1>9 DEF Demote, TypeOK, Goto, AfterDemote
  <2>2. PICK V : \/ work' = [work EXCEPT ![h].victims = V] /\ txn' = txn
                 \/ work' = work /\ txn' = [txn EXCEPT ![h].demoted = V]
    BY <1>9 DEF Demote
  <2>3. /\ work'[h].queue = work[h].queue /\ work'[h].seen = work[h].seen
        /\ txn'[h].deleted = txn[h].deleted /\ txn'[h].added = txn[h].added
        /\ txn'[h].promoted = txn[h].promoted
    BY <1>0, <2>2 DEF TypeOK, Work, Txn
  <2> QED BY <2>1, <2>3 DEF Composing
<1>10. CASE DemoteWait(h)
  <2>1. pc'[h] \in {"commit", "insert_extraction"}
    BY <1>0, <1>10 DEF DemoteWait, TypeOK, Goto, AfterDemote
  <2>2. PICK V : /\ txn' = [txn EXCEPT ![h].demoted = V]
                 /\ work' = [work EXCEPT ![h].victims = {}]
    BY <1>10 DEF DemoteWait
  <2>3. /\ work'[h].queue = work[h].queue /\ work'[h].seen = work[h].seen
        /\ txn'[h].deleted = txn[h].deleted /\ txn'[h].added = txn[h].added
        /\ txn'[h].promoted = txn[h].promoted
    BY <1>0, <2>2 DEF TypeOK, Work, Txn
  <2> QED BY <2>1, <2>3 DEF Composing
<1>11. CASE InsertExtraction(h)
  <2>1. CASE EndWith(h, "500")
    BY <1>1, <2>1
  <2>2. CASE ~EndWith(h, "500")
    <3>1. /\ txn' = [txn EXCEPT ![h].promoted = TRUE]
          /\ work' = [work EXCEPT ![h].queue = <<work[h].target>>]
          /\ Goto(h, "read_extraction") /\ work[h].target \in Handlers
      BY <1>0, <1>11, <2>2 DEF InsertExtraction, RequestAt
    <3>2. /\ work'[h].queue = <<work[h].target>> /\ work'[h].target = work[h].target
          /\ work'[h].seen = work[h].seen
      BY <1>0, <3>1 DEF TypeOK, Work
    <3>3. /\ txn'[h].promoted /\ pc'[h] = "read_extraction"
          /\ txn'[h].deleted = txn[h].deleted /\ txn'[h].added = txn[h].added
      BY <1>0, <3>1 DEF TypeOK, Txn, Goto
    <3> QED BY <3>1, <3>2, <3>3 DEF Composing
  <2> QED BY <2>1, <2>2
<1>12. CASE GetSource(h)
  <2>1. CASE req[h].source \in sources
    <3>1. PICK s \in Handlers : s = req[h].source
      BY <1>0, <2>1 DEF TypeOK
    <3>2. /\ work'[h].queue = <<s>> /\ work'[h].seen = work[h].seen
          /\ txn'[h] = txn[h] /\ pc'[h] = "read_extraction"
      BY <1>0, <1>12, <2>1, <3>1 DEF GetSource, TypeOK, Work, Goto
    <3> QED BY <3>1, <3>2 DEF Composing
  <2> QED BY <1>1, <1>12, <2>1 DEF GetSource
<1>13. CASE StoreInput(h)
  <2>1. CASE EndWith(h, "500")
    BY <1>1, <2>1
  <2>2. CASE ~EndWith(h, "500")
    <3>1. PICK S : \E q \in Orders(S) :
             /\ S = CASE HasSource(req[h]) -> {req[h].source}
                      [] req[h].kind = "relation" -> {extraction[e] : e \in active}
                      [] OTHER -> {}
             /\ HasSource(req[h]) => req[h].source \in sources
             /\ txn' = [txn EXCEPT ![h].stored = TRUE]
             /\ work' = [work EXCEPT ![h].queue = q]
             /\ Goto(h, IF q = <<>> THEN "commit" ELSE "read_extraction")
      BY <1>13, <2>2 DEF StoreInput
    <3>2. PICK q \in Orders(S) :
             /\ txn' = [txn EXCEPT ![h].stored = TRUE]
             /\ work' = [work EXCEPT ![h].queue = q]
             /\ Goto(h, IF q = <<>> THEN "commit" ELSE "read_extraction")
      BY <3>1
    <3>3. S \in SUBSET Handlers
      BY <1>0, <3>1 DEF IType, RowsOfRequests, TypeOK
    <3>4. /\ work'[h].queue = q /\ work'[h].seen = work[h].seen
          /\ txn'[h].deleted = txn[h].deleted /\ txn'[h].added = txn[h].added
          /\ txn'[h].promoted = txn[h].promoted
      BY <1>0, <3>2 DEF TypeOK, Work, Txn
    <3>5. /\ pc'[h] \in {"read_extraction", "commit"}
          /\ pc'[h] = "commit" => q = <<>>
      BY <1>0, <3>2 DEF TypeOK, Goto
    <3> QED BY <3>3, <3>4, <3>5 DEF Composing
  <2> QED BY <2>1, <2>2
<1>14. CASE BreakDeadlock(h) \/ Crash(h)
  BY <1>1, <1>14 DEF BreakDeadlock, Crash
<1> QED
  BY <1>2, <1>3, <1>4, <1>5, <1>6, <1>7, <1>8, <1>9, <1>10, <1>11, <1>12, <1>13, <1>14
     DEF Moves, Step, Composing, ReadExtraction, ReadInputs, Delete, DeleteWait, Resolve,
         CreateEntity, ApplyAdditions, Commit

LEMMA BuiltBefore ==
    ASSUME IType, PromotedLate, NEW h \in Handlers, Moves(h), Built(h),
           pc[h] \notin Composing \cup {"read_extraction", "commit"}
    PROVE  Built(h)'
<1>1. /\ work[h].seen = {} /\ work[h].queue = <<>> /\ ~txn[h].promoted
      /\ txn[h].deleted = {} /\ txn[h].added = {}
  BY DEF Built, HeadKept, QueueKept, NothingWritten, PromotedLate
<1>2. CASE pc'[h] = "done" /\ work'[h] = NoWork /\ (txn'[h] = NoTxn \/ txn'[h] = txn[h])
  BY <1>1, <1>2, BuiltEnd
<1>3. CASE /\ pc'[h] \notin Composing /\ work'[h].seen = work[h].seen
           /\ txn'[h].deleted = txn[h].deleted /\ txn'[h].added = txn[h].added
  <2>1. CASE /\ pc'[h] # "read_extraction" /\ work'[h].queue = work[h].queue
             /\ txn'[h].promoted = txn[h].promoted
    BY <1>1, <1>3, <2>1, BuiltEarly
  <2>2. CASE /\ pc'[h] = "read_extraction" /\ work'[h].queue = <<work'[h].target>>
             /\ txn'[h].promoted /\ work'[h].target \in Handlers
    BY <1>1, <1>3, <2>2, BuiltEarly DEF Queued
  <2>3. CASE /\ pc'[h] = "read_extraction" /\ txn'[h].promoted = txn[h].promoted
             /\ \E s \in Handlers : work'[h].queue = <<s>>
    BY <1>1, <1>3, <2>3, BuiltEarly
  <2>4. CASE /\ pc'[h] \in {"read_extraction", "commit"}
             /\ txn'[h].promoted = txn[h].promoted
             /\ pc'[h] = "commit" => work'[h].queue = <<>>
             /\ \E S \in SUBSET Handlers : work'[h].queue \in Orders(S)
    <3>1. \A i, j \in DOMAIN work'[h].queue : work'[h].queue[i] = work'[h].queue[j] => i = j
      BY <2>4 DEF Orders
    <3> QED BY <1>1, <1>3, <2>4, <3>1, BuiltEarly
  <2> QED BY <1>2, <1>3, <2>1, <2>2, <2>3, <2>4, EarlyKept
<1> QED BY <1>2, <1>3, EarlyKept

(* Reading the active extraction, or finding that there is none.           *)
LEMMA BuiltReadExtraction ==
    ASSUME IType, NEW h \in Handlers, Built(h), ReadExtraction(h)
    PROVE  Built(h)'
<1>0. /\ TypeOK /\ txn[h] \in Txn /\ work[h] \in Work /\ Moves(h) /\ pc[h] = "read_extraction"
      /\ work[h].queue # <<>> /\ UNCHANGED <<db, req, answer, txn>>
  BY DEF IType, TypeOK, Moves, Step, ReadExtraction, ComposedAt
<1>1. PICK s0 \in Handlers : s0 = Head(work[h].queue) /\ s0 \in Queued(h)
  <2>1. work[h].queue \in Seq(Handlers)
    BY <1>0 DEF Work
  <2>2. Head(work[h].queue) \in Queued(h)
    BY <1>0, <2>1, QueueTail DEF Built, QueueKept, Queued
  <2> QED BY <1>0, <2>1, <2>2
<1>2. ~Commit(h)
  BY <1>0 DEF Commit
<1>3. CASE VisibleActive(h, s0) = {}
  <2>1. NextSource(h)
    BY <1>1, <1>3 DEF ReadExtraction
  <2>2. Untouched(h, s0)
    <3>1. ~(txn[h].promoted /\ work[h].target = s0)
      BY <1>3 DEF VisibleActive
    <3>2. \A r \in txn[h].deleted : r.source # s0
      BY <1>0, <1>1 DEF Built, HeadKept, Composing
    <3>3. \A r \in txn[h].added : r.source # s0
      BY <1>1 DEF Built, SourcesKept
    <3> QED BY <3>1, <3>2, <3>3 DEF Untouched
  <2>3. work'[h].target = work[h].target
    BY <1>0, <2>1, NextQueue DEF Built
  <2>4. Untouched(h, s0)'
    BY <1>0, <2>2, <2>3 DEF Untouched
  <2>5. req' = req
    BY <1>0
  <2> QED BY <1>0, <1>1, <1>2, <2>1, <2>4, <2>5, BuiltNext
<1>4. CASE VisibleActive(h, s0) # {}
  <2>1. PICK e \in VisibleActive(h, s0) :
           work' = [work EXCEPT ![h].ext = e] /\ Goto(h, "read_inputs")
    BY <1>1, <1>4 DEF ReadExtraction
  <2>2. ExtractionOf(h, e, s0)
    BY DEF VisibleActive, ActiveOf, ExtractionOf
  <2>3. /\ work'[h].ext = e /\ work'[h].queue = work[h].queue
        /\ work'[h].target = work[h].target /\ work'[h].seen = {}
        /\ pc'[h] = "read_inputs"
    BY <1>0, <2>1 DEF TypeOK, Work, Goto, Built, HeadKept, Composing
  <2>4. VictimsKept(h)'
    BY <2>3 DEF VictimsKept
  <2>5. ExtractionOf(h, work'[h].ext, Head(work[h].queue))
    BY <1>1, <2>2, <2>3
  <2> QED BY <1>0, <1>2, <2>3, <2>4, <2>5, BuiltAtHead DEF Composing
<1> QED BY <1>3, <1>4

(* Where a composition stands, and that its statements keep it there.      *)
LEMMA AtHead ==
    ASSUME IType, NEW h \in Handlers, Built(h), pc[h] \in Composing
    PROVE  /\ TypeOK /\ txn[h] \in Txn /\ work[h] \in Work
           /\ ExtractionOf(h, work[h].ext, Head(work[h].queue))
           /\ work[h].seen \subseteq Applicable(h, Head(work[h].queue))
           /\ work[h].queue # <<>> /\ Head(work[h].queue) \in Handlers
           /\ Head(work[h].queue) \in Queued(h)
<1>1. work[h].queue # <<>> /\ work[h].queue \in Seq(Handlers)
  BY DEF IType, TypeOK, ComposedAt, Work
<1>2. Head(work[h].queue) \in Queued(h)
  BY <1>1, QueueTail DEF Built, QueueKept, Queued
<1>3. Head(work[h].queue) \in Handlers
  BY <1>1
<1> QED BY <1>1, <1>2, <1>3 DEF IType, TypeOK, Built, HeadKept

LEMMA BuiltReadInputs ==
    ASSUME IType, NEW h \in Handlers, Built(h), ReadInputs(h)
    PROVE  Built(h)'
<1>0. pc[h] \in Composing /\ Moves(h) /\ ~Commit(h) /\ UNCHANGED <<db, req, answer, txn>>
  BY DEF ReadInputs, Composing, Moves, Step, Commit
<1>1. /\ TypeOK /\ txn[h] \in Txn /\ work[h] \in Work
      /\ ExtractionOf(h, work[h].ext, Head(work[h].queue))
  BY <1>0, AtHead
<1>2. /\ work'[h].seen = Applicable(h, Head(work[h].queue)) /\ work'[h].queue = work[h].queue
      /\ work'[h].target = work[h].target /\ work'[h].ext = work[h].ext
      /\ pc'[h] = "delete"
  BY <1>1 DEF ReadInputs, TypeOK, Work, Goto, Applicable
<1>3. VictimsKept(h)' /\ pc'[h] \in Composing
  BY <1>2 DEF VictimsKept, Composing
<1> QED BY <1>0, <1>1, <1>2, <1>3, BuiltAtHead

LEMMA BuiltDelete ==
    ASSUME IType, NEW h \in Handlers, Built(h), Delete(h) \/ DeleteWait(h)
    PROVE  Built(h)'
<1>0. /\ pc[h] \in Composing /\ Moves(h) /\ ~Commit(h) /\ UNCHANGED <<db, req, answer>>
  BY DEF Delete, DeleteWait, Composing, Moves, Step, Commit
<1>1. /\ TypeOK /\ txn[h] \in Txn /\ work[h] \in Work
      /\ ExtractionOf(h, work[h].ext, Head(work[h].queue))
      /\ work[h].seen \subseteq Applicable(h, Head(work[h].queue))
  BY <1>0, AtHead
<1>2. ASSUME NEW rows, Deleted(h, rows), \A r \in rows : r.source = Head(work[h].queue)
      PROVE  Built(h)'
  <2>1. /\ txn'[h] = [txn[h] EXCEPT !.deleted = txn[h].deleted \cup rows]
        /\ work'[h] = [work[h] EXCEPT !.table = work[h].table + 1, !.victims = {}]
        /\ pc'[h] \in {"resolve", "delete"}
    BY <1>1, <1>2 DEF Deleted, TypeOK, Goto
  <2>2. /\ txn'[h].deleted = txn[h].deleted \cup rows /\ txn'[h].added = txn[h].added
        /\ txn'[h].promoted = txn[h].promoted /\ txn'[h].stored = txn[h].stored
        /\ txn'[h].names = txn[h].names
    BY <1>1, <2>1 DEF Txn
  <2>3. /\ work'[h].queue = work[h].queue /\ work'[h].target = work[h].target
        /\ work'[h].ext = work[h].ext /\ work'[h].seen = work[h].seen
    BY <1>1, <2>1 DEF Work
  <2>4. VictimsKept(h)' /\ pc'[h] \in Composing
    BY <2>1 DEF VictimsKept, Composing
  <2> QED BY <1>0, <1>1, <1>2, <2>2, <2>3, <2>4, BuiltAtHead
<1>3. CASE Delete(h)
  <2>1. PICK victims : /\ \A r \in victims : r.source = Head(work[h].queue)
                       /\ \/ Deleted(h, victims)
                          \/ /\ work' = [work EXCEPT ![h].victims = victims]
                             /\ Goto(h, "delete_wait") /\ UNCHANGED txn
    BY <1>3 DEF Delete
  <2>2. CASE /\ work' = [work EXCEPT ![h].victims = victims]
             /\ Goto(h, "delete_wait") /\ UNCHANGED txn
    <3>1. /\ work'[h].queue = work[h].queue /\ work'[h].target = work[h].target
          /\ work'[h].ext = work[h].ext /\ work'[h].seen = work[h].seen
          /\ work'[h].victims = victims /\ pc'[h] = "delete_wait"
      BY <1>1, <2>2 DEF TypeOK, Work, Goto
    <3>2. VictimsKept(h)' /\ pc'[h] \in Composing
      BY <2>1, <3>1 DEF VictimsKept, Composing
    <3> QED BY <1>0, <1>1, <2>2, <3>1, <3>2, BuiltAtHead
  <2> QED BY <1>2, <2>1, <2>2
<1>4. CASE DeleteWait(h)
  <2>1. \A r \in work[h].victims \cap canonical : r.source = Head(work[h].queue)
    BY <1>4 DEF DeleteWait, Built, VictimsKept
  <2> QED BY <1>2, <1>4, <2>1 DEF DeleteWait
<1> QED BY <1>3, <1>4

LEMMA BuiltResolve ==
    ASSUME IType, NEW h \in Handlers, Built(h), Resolve(h)
    PROVE  Built(h)'
<1>0. /\ pc[h] \in Composing /\ pc[h] = "resolve" /\ Moves(h) /\ ~Commit(h)
  BY DEF Resolve, Composing, Moves, Step, Commit
<1>1. /\ TypeOK /\ txn[h] \in Txn /\ work[h] \in Work
      /\ ExtractionOf(h, work[h].ext, Head(work[h].queue))
      /\ work[h].seen \subseteq Applicable(h, Head(work[h].queue))
  BY <1>0, AtHead
<1>2. /\ work'[h].queue = work[h].queue /\ work'[h].target = work[h].target
      /\ work'[h].ext = work[h].ext /\ work'[h].seen = work[h].seen
  BY <1>1 DEF Resolve, TypeOK, Work
<1>3. pc'[h] \in {"apply_additions", "resolve", "create_entity"} /\ UNCHANGED <<req, txn>>
  BY <1>0, <1>1, ResolveCases DEF TypeOK
<1>4. VictimsKept(h)' /\ pc'[h] \in Composing
  BY <1>3 DEF VictimsKept, Composing
<1> QED BY <1>0, <1>1, <1>2, <1>3, <1>4, BuiltAtHead

LEMMA BuiltCreate ==
    ASSUME IType, NEW h \in Handlers, Built(h), CreateEntity(h)
    PROVE  Built(h)'
<1>0. pc[h] \in Composing /\ Moves(h) /\ ~Commit(h)
  BY DEF CreateEntity, Composing, Moves, Step, Commit
<1>1. /\ TypeOK /\ txn[h] \in Txn /\ work[h] \in Work
      /\ ExtractionOf(h, work[h].ext, Head(work[h].queue))
      /\ work[h].seen \subseteq Applicable(h, Head(work[h].queue))
  BY <1>0, AtHead
<1>2. CASE EndWith(h, "500")
  BY <1>1, <1>2, BuiltEnd DEF EndWith, TypeOK, Goto
<1>3. CASE ~EndWith(h, "500")
  <2>1. /\ txn' = [txn EXCEPT ![h].names = @ \cup {work[h].name}]
        /\ work' = [work EXCEPT ![h].name = NoOne, ![h].at = @ + 1]
        /\ Goto(h, "resolve") /\ UNCHANGED req
    BY <1>3 DEF CreateEntity
  <2>2. /\ work'[h].queue = work[h].queue /\ work'[h].target = work[h].target
        /\ work'[h].ext = work[h].ext /\ work'[h].seen = work[h].seen
        /\ pc'[h] = "resolve"
    BY <1>1, <2>1 DEF TypeOK, Work, Goto
  <2>3. /\ txn'[h].deleted = txn[h].deleted /\ txn'[h].added = txn[h].added
        /\ txn'[h].promoted = txn[h].promoted /\ txn'[h].stored = txn[h].stored
        /\ txn[h].names \subseteq txn'[h].names
    BY <1>1, <2>1 DEF TypeOK, Txn
  <2>4. VictimsKept(h)' /\ pc'[h] \in Composing
    BY <2>2 DEF VictimsKept, Composing
  <2> QED BY <1>0, <1>1, <2>1, <2>2, <2>3, <2>4, BuiltAtHead
<1> QED BY <1>2, <1>3

(* The last statement of a composition completes it.                       *)
LEMMA BuiltAdditions ==
    ASSUME IType, NEW h \in Handlers, Built(h), ApplyAdditions(h)
    PROVE  Built(h)'
<1>0. pc[h] \in Composing /\ Moves(h) /\ ~Commit(h)
  BY DEF ApplyAdditions, Composing, Moves, Step, Commit
<1>1. /\ TypeOK /\ txn[h] \in Txn /\ work[h] \in Work /\ work[h].queue # <<>>
      /\ work[h].ext \in Handlers
  BY <1>0, AtHead DEF IType, ComposedAt
<1>2. CASE EndWith(h, "500")
  BY <1>1, <1>2, BuiltEnd DEF EndWith, TypeOK, Goto
<1>3. CASE ~EndWith(h, "500")
  <2>1. PICK s0 \in Handlers, e \in Handlers, I \in SUBSET Handlers :
           s0 = Head(work[h].queue) /\ e = work[h].ext /\ I = work[h].seen
    BY <1>0, <1>1, AtHead DEF Work
  <2>2. /\ \A i \in I : IsAddition(i) => req[i].refs \subseteq VisibleNames(h)
        /\ txn' = [txn EXCEPT ![h].added = @ \cup Batch(s0, h, e, I)]
        /\ NextSource(h) /\ UNCHANGED <<db, req, answer>>
    BY <1>3, <2>1 DEF ApplyAdditions
  <2>3. ExtractionOf(h, e, s0) /\ I \subseteq Admitted(h, s0) /\ s0 \in Queued(h)
    BY <1>0, <2>1, <2>2, AtHead DEF Admitted
  <2>4. /\ txn'[h].added = txn[h].added \cup Batch(s0, h, e, I)
        /\ txn'[h].promoted = txn[h].promoted /\ txn'[h].stored = txn[h].stored
        /\ txn'[h].names = txn[h].names /\ txn'[h].deleted = txn[h].deleted
    <3> DEFINE rows == Batch(s0, h, e, I)
    <3> HIDE DEF rows
    <3>1. txn' = [txn EXCEPT ![h].added = @ \cup rows]
      BY <2>2 DEF rows
    <3>2. /\ txn'[h].added = txn[h].added \cup rows
          /\ txn'[h].promoted = txn[h].promoted /\ txn'[h].stored = txn[h].stored
          /\ txn'[h].names = txn[h].names /\ txn'[h].deleted = txn[h].deleted
      BY <1>1, <3>1 DEF TypeOK, Txn
    <3> QED BY <3>2 DEF rows
  <2>5. \A r \in Batch(s0, h, e, I) : r.source = s0
    BY DEF Batch
  <2>6. {r \in txn'[h].added : r.source = s0} = Batch(s0, h, e, I)
    <3>1. \A r \in txn[h].added : r.source # s0
      BY <2>3 DEF Built, SourcesKept
    <3> QED BY <2>4, <2>5, <3>1
  <2>7. \A s \in Handlers \ {s0} :
           {r \in txn'[h].added : r.source = s} = {r \in txn[h].added : r.source = s}
    BY <2>4, <2>5
  <2>8. work'[h].target = work[h].target
    BY <1>1, <2>2, NextQueue DEF Built
  <2>9. Finished(h, s0)'
    <3>1. UNCHANGED <<extraction, inputs, entities>>
      BY <2>2 DEF db
    <3>2. ExtractionOf(h, e, s0)'
      BY <2>3, <2>4, <2>8, <3>1 DEF ExtractionOf
    <3>3. I \subseteq Admitted(h, s0)'
      BY <1>0, <2>3, <2>4, <3>1, AdmittedKept
    <3>4. Batch(s0, h, e, I)' = Batch(s0, h, e, I)
      BY <2>2 DEF Batch, TablesOf, IsAddition
    <3>5. {r \in txn'[h].added : r.source = s0} = Batch(s0, h, e, I)'
      BY <2>6, <3>4
    <3> QED BY <3>2, <3>3, <3>5 DEF Finished
  <2> QED BY <1>0, <2>1, <2>2, <2>4, <2>7, <2>9, BuiltNext
<1> QED BY <1>2, <1>3

LEMMA BuiltMover ==
    ASSUME IType, PromotedLate, NEW h \in Handlers, Moves(h), Built(h)
    PROVE  Built(h)'
<1>0. TypeOK
  BY DEF IType
<1>1. CASE pc[h] \notin Composing \cup {"read_extraction", "commit"}
  BY <1>1, BuiltBefore
<1>2. CASE Commit(h) \/ BreakDeadlock(h) \/ Crash(h)
  <2>1. pc'[h] = "done" /\ work'[h] = NoWork /\ txn'[h] = NoTxn
    BY <1>0, <1>2 DEF Commit, BreakDeadlock, Crash, EndWith, TypeOK, Goto
  <2> QED BY <2>1, BuiltEnd
<1>3. CASE ReadExtraction(h) \/ ReadInputs(h) \/ Delete(h) \/ DeleteWait(h)
           \/ Resolve(h) \/ CreateEntity(h) \/ ApplyAdditions(h)
  BY <1>3, BuiltReadExtraction, BuiltReadInputs, BuiltDelete, BuiltResolve, BuiltCreate,
     BuiltAdditions
<1> QED
  BY <1>1, <1>2, <1>3
     DEF Moves, Step, Begin, FindTranscript, InsertTranscript, GetTranscript, CreateSource,
         ReuseSource, SaveSource, Demote, DemoteWait, InsertExtraction, GetSource, StoreInput,
         Composing

LEMMA BuiltStep == IOne /\ IBuilt /\ [Next]_vars => IBuilt'
<1> SUFFICES ASSUME IOne, IBuilt, [Next]_vars PROVE IBuilt'
  OBVIOUS
<1>1. ASSUME NEW m \in Handlers, Moves(m) PROVE IBuilt'
  BY <1>1, BuiltOthers, BuiltMover DEF IBuilt, IOne
<1>2. CASE UNCHANGED vars
  <2> USE <1>2 DEF vars, db
  <2>1. ASSUME NEW h \in Handlers PROVE Built(h)'
    <3>1. Queued(h)' = Queued(h) /\ \A s : Applicable(h, s)' = Applicable(h, s)
      BY DEF Queued, Applicable, VisibleInputs, AppliesTo
    <3>2. \A s : Admitted(h, s)' = Admitted(h, s)
      BY <3>1 DEF Admitted, IsAddition, VisibleNames
    <3>3. \A e, s, I : Batch(s, h, e, I)' = Batch(s, h, e, I)
      BY DEF Batch, TablesOf, IsAddition
    <3>4. \A e, s : ExtractionOf(h, e, s)' = ExtractionOf(h, e, s)
      BY DEF ExtractionOf
    <3>5. \A s : Finished(h, s)' = Finished(h, s)
      BY <3>2, <3>3, <3>4 DEF Finished
    <3>6. ExtractionOf(h, work[h].ext, Head(work[h].queue))'
             = ExtractionOf(h, work[h].ext, Head(work[h].queue))
      BY DEF ExtractionOf
    <3>7. Applicable(h, Head(work[h].queue))' = Applicable(h, Head(work[h].queue))
      BY DEF Applicable, VisibleInputs, AppliesTo
    <3>8. HeadKept(h)'
      BY <3>1, <3>6, <3>7 DEF IBuilt, Built, HeadKept
    <3>9. SourcesKept(h)'
      BY <3>1, <3>5 DEF IBuilt, Built, SourcesKept, Untouched
    <3> QED BY <3>8, <3>9 DEF IBuilt, Built, QueueKept, NothingWritten, VictimsKept
  <2> QED BY <2>1 DEF IBuilt
<1> QED BY <1>1, <1>2 DEF Next, Quiet, Moves

LEMMA BuiltInvariant == Spec => [](IOne /\ IBuilt)
<1>1. Init => IBuilt
  BY DEF Init, IBuilt, Built, QueueKept, HeadKept, SourcesKept, NothingWritten, VictimsKept,
         Queued, Untouched, Composing, NoTxn, NoWork
<1> QED BY <1>1, BuiltStep, OneInvariant, PTL DEF Spec

-----------------------------------------------------------------------------
(***************************************************************************)
(* The refinement.  What CanonicalLayer calls stored, given and rows, in   *)
(* terms of the tables of the pipeline.                                    *)
(***************************************************************************)
LayerFacts ==
    /\ Layer!LayerTypeOK
    /\ Layer!Stored = {e \in Handlers : extraction[e] # NoOne}
    /\ Layer!Given = inputs
    /\ \A s \in Handlers, h \in Handlers, e \in Layer!Stored, I \in SUBSET inputs :
          Layer!Composition(s, h, e, I) = Batch(s, h, e, I)

LEMMA LayerMeaning == IType => LayerFacts
<1> SUFFICES ASSUME IType PROVE LayerFacts
  OBVIOUS
<1>0. TypeOK /\ RowsOfRequests
  BY DEF IType
<1>1. \A e \in Handlers : extraction[e] # NoOne =>
         /\ extraction[e] \in Handlers /\ Writes[req[e].payload] \in SUBSET (1..Tables)
         /\ [source |-> extraction[e], tables |-> Writes[req[e].payload]] # NoOne
  BY <1>0, ConstantsAssumption, NoOneAssumption DEF RowsOfRequests, IngestPost
<1>2. \A i \in inputs : IsAddition(i) => req[i].table \in 1..Tables
  BY <1>0, InputFields DEF RowsOfRequests, IsAddition
<1>3. /\ \A i \in inputs : IsAddition(i) =>
            {req[i].table} \in SUBSET (1..Tables) /\ {req[i].table} # NoOne
      /\ {} # NoOne
  BY <1>2, NoOneAssumption
<1>4. Layer!LayerTypeOK
  BY <1>0, <1>1, <1>3 DEF Layer!LayerTypeOK, Layer!Extraction, Layer!Row, TypeOK, CanonicalRow
<1>5. Layer!Stored = {e \in Handlers : extraction[e] # NoOne}
  BY <1>1 DEF Layer!Stored
<1>6. Layer!Given = inputs
  BY <1>0, <1>3 DEF Layer!Given, TypeOK
<1>7. ASSUME NEW s \in Handlers, NEW h \in Handlers, NEW e \in Layer!Stored,
             NEW I \in SUBSET inputs
      PROVE  Layer!Composition(s, h, e, I) = Batch(s, h, e, I)
  <2> DEFINE writes(i) == CASE i \notin inputs -> NoOne
                            [] i \in inputs /\ IsAddition(i) -> {req[i].table}
                            [] OTHER -> {}
  <2>1. e \in Handlers /\ extraction[e] # NoOne
    BY <1>5
  <2>2. UNION {writes(i) : i \in I} = {req[i].table : i \in {j \in I : IsAddition(j)}}
    <3>1. \A i \in I : writes(i) = IF IsAddition(i) THEN {req[i].table} ELSE {}
      OBVIOUS
    <3> HIDE DEF writes
    <3> QED BY <3>1
  <2>3. \A i \in I : i \in Handlers
    BY <1>0 DEF TypeOK
  <2>4. Layer!Composition(s, h, e, I) =
           {[table |-> k, source |-> s, by |-> h, ext |-> e, inputs |-> I] :
               k \in Writes[req[e].payload] \cup UNION {writes(i) : i \in I}}
    BY <2>1, <2>3 DEF Layer!Composition
  <2> HIDE DEF writes
  <2> QED BY <2>2, <2>4 DEF Batch, TablesOf
<1> QED BY <1>4, <1>5, <1>6, <1>7 DEF LayerFacts

(* A commit is a publication of the layer: it replaces the rows of the     *)
(* sources its transaction finished, and touches no other.                 *)
LEMMA CommitPublishes ==
    ASSUME IType, IType', LayerFacts, LayerFacts', NEW h \in Handlers, Built(h), Commit(h)
    PROVE  Layer!Publish(h)
<1>0. TypeOK /\ txn[h] \in Txn /\ work[h] \in Work /\ req' = req
  BY DEF IType, TypeOK, Commit
<1>1. /\ \A e \in Handlers : extraction[e] # NoOne => extraction'[e] = extraction[e]
      /\ \A e \in Handlers : extraction'[e] # extraction[e] =>
            e = h /\ txn[h].promoted /\ extraction'[e] = work[h].target
      /\ txn[h].promoted => extraction'[h] = work[h].target
  BY CommitRows
<1>2. inputs' = VisibleInputs(h) /\ inputs \subseteq inputs'
  BY DEF Commit, VisibleInputs
<1>3. canonical' = (canonical \ txn[h].deleted) \cup txn[h].added
  BY DEF Commit
<1>4. Layer!Grows
  BY <1>0, <1>1, <1>2, NoOneAssumption DEF Layer!Grows, IsAddition, TypeOK
<1>5. Queued(h) = {}
  BY EmptyQueue DEF Commit, Built, QueueKept, Composing
<1>6. ASSUME NEW s \in Handlers
      PROVE  \/ Layer!Replaces(h, s)
             \/ /\ Layer!RowsOf(s)' = Layer!RowsOf(s)
                /\ \A e \in Layer!Stored' \ Layer!Stored :
                      [f \in Handlers |->
                         IF extraction[f] = NoOne THEN NoOne
                         ELSE [source |-> extraction[f],
                               tables |-> Writes[req[f].payload]]]'[e].source # s
  <2>1. CASE Untouched(h, s)
    <3>1. Layer!RowsOf(s)' = Layer!RowsOf(s)
      BY <1>3, <2>1 DEF Layer!RowsOf, Untouched
    <3>2. ASSUME NEW e \in Layer!Stored' \ Layer!Stored
          PROVE  e \in Handlers /\ extraction'[e] # NoOne /\ extraction'[e] # s
      BY <1>1, <2>1 DEF LayerFacts, Untouched
    <3> QED BY <3>1, <3>2
  <2>2. CASE Finished(h, s)
    <3>1. PICK e \in Handlers, I \in SUBSET Admitted(h, s) :
             ExtractionOf(h, e, s) /\ {r \in txn[h].added : r.source = s} = Batch(s, h, e, I)
      BY <2>2 DEF Finished
    <3>2. extraction'[e] = s /\ s # NoOne
      BY <1>1, <3>1, ConstantsAssumption DEF ExtractionOf
    <3>3. e \in Layer!Stored' /\ I \in SUBSET Layer!Given' /\ I \in SUBSET inputs'
      BY <1>2, <3>1, <3>2 DEF LayerFacts, Admitted, Applicable
    <3>4. Layer!Composition(s, h, e, I)' = Batch(s, h, e, I)
      <4>1. Layer!Composition(s, h, e, I)' = Batch(s, h, e, I)'
        BY <3>3 DEF LayerFacts
      <4>2. Batch(s, h, e, I)' = Batch(s, h, e, I)
        BY <1>0 DEF Batch, TablesOf, IsAddition
      <4> QED BY <4>1, <4>2
    <3>5. Batch(s, h, e, I) \subseteq canonical'
      BY <1>3, <3>1
    <3>6. Layer!RowsOf(s)' \subseteq Layer!RowsOf(s) \cup Batch(s, h, e, I)
      BY <1>3, <3>1 DEF Layer!RowsOf
    <3> QED BY <3>2, <3>3, <3>4, <3>5, <3>6 DEF Layer!Replaces
  <2> QED BY <1>5, <2>1, <2>2 DEF Built, SourcesKept
<1> QED BY <1>4, <1>6 DEF Layer!Publish, Layer!LayerTypeOK, LayerFacts

(* Every other step leaves what is stored, and so the layer, alone.        *)
LEMMA LayerStays ==
    ASSUME IType, NEW h \in Handlers, Moves(h), ~Commit(h)
    PROVE  /\ UNCHANGED <<extraction, inputs, canonical>>
           /\ \A e \in Handlers : extraction[e] # NoOne => req'[e] = req[e]
           /\ \A i \in inputs : req'[i] = req[i]
<1>1. \A e \in Handlers : extraction[e] # NoOne => req[e] \in Request
  BY DEF IType, RowsOfRequests, Request
<1>2. \A i \in inputs : i \in Handlers /\ req[i] \in Request
  BY DEF IType, TypeOK, RowsOfRequests, Request, InputPost
<1> QED BY <1>1, <1>2, RowsWritten, RequestsStay

LEMMA OthersStutter ==
    ASSUME IType, NEW h \in Handlers, Moves(h), ~Commit(h)
    PROVE  UNCHANGED Layer!layerVars
BY LayerStays DEF Layer!layerVars, IsAddition

(* The pipeline keeps the promise of CanonicalLayer, for any number of     *)
(* requests and however their statements, waits, failures and crashes      *)
(* interleave: the rows of a source change only by a commit that leaves a  *)
(* complete composition there.                                             *)
THEOREM PipelineKeepsLayer == Spec => CanonicalLayerKept
<1>1. Init => Layer!LayerInit
  BY DEF Init, Layer!LayerInit
<1>2. IOne /\ IOne' /\ IBuilt /\ LayerFacts /\ LayerFacts' /\ [Next]_vars
         => [Layer!LayerNext]_(Layer!layerVars)
  <2> SUFFICES ASSUME IOne, IOne', IBuilt, LayerFacts, LayerFacts', [Next]_vars,
                      ~UNCHANGED Layer!layerVars
               PROVE  Layer!LayerNext
    OBVIOUS
  <2>1. ASSUME NEW h \in Handlers, Commit(h) PROVE Layer!LayerNext
    BY <2>1, CommitPublishes DEF IOne, IBuilt, Layer!LayerNext
  <2>2. ASSUME NEW h \in Handlers, Moves(h), ~Commit(h) PROVE FALSE
    BY <2>2, OthersStutter DEF IOne
  <2>3. CASE UNCHANGED vars
    BY <2>3 DEF vars, db, Layer!layerVars, IsAddition
  <2> QED BY <2>1, <2>2, <2>3 DEF Next, Quiet, Moves
<1>3. IOne => LayerFacts
  BY LayerMeaning DEF IOne
<1> QED
  BY <1>1, <1>2, <1>3, BuiltInvariant, PTL DEF Spec, CanonicalLayerKept, Layer!LayerSpec

(* Every canonical row leads to a stored extraction of its source and to   *)
(* stored inputs that apply and name existing entities: what a composition *)
(* read of its own uncommitted writes is committed with its rows or not at *)
(* all, and nothing stored is taken away.                                  *)
THEOREM RowsAreTraceable == Spec => []CanonicalTraceable
<1>1. Init => CanonicalTraceable
  BY DEF Init, CanonicalTraceable
<1>2. IOne /\ IBuilt /\ CanonicalTraceable /\ [Next]_vars => CanonicalTraceable'
  <2> SUFFICES ASSUME IOne, IBuilt, CanonicalTraceable, [Next]_vars PROVE CanonicalTraceable'
    OBVIOUS
  <2>0. IType /\ TypeOK /\ canonical \subseteq CanonicalRow
    BY DEF IOne, IType, TypeOK
  <2>1. ASSUME NEW h \in Handlers, Moves(h) PROVE CanonicalTraceable'
    <3>1. \A i \in inputs : req'[i] = req[i]
      <4>1. \A i \in inputs : i \in Handlers /\ req[i] \in Request
        BY <2>0 DEF IType, TypeOK, RowsOfRequests, Request, InputPost
      <4> QED BY <2>0, <2>1, <4>1, RequestsStay
    <3>2. ASSUME NEW r \in canonical
          PROVE  /\ extraction'[r.ext] = r.source /\ r.inputs \subseteq inputs'
                 /\ \A i \in r.inputs :
                       /\ AppliesTo(i, r.source)'
                       /\ IsAddition(i)' => req'[i].refs \subseteq entities'
      <4>1. /\ r.ext \in Handlers /\ extraction[r.ext] = r.source /\ r.source # NoOne
            /\ r.inputs \subseteq inputs
        BY <2>0, ConstantsAssumption DEF CanonicalTraceable, CanonicalRow
      <4>2. /\ extraction'[r.ext] = extraction[r.ext]
            /\ inputs \subseteq inputs' /\ entities \subseteq entities'
        BY <2>0, <2>1, <4>1, StoredStays
      <4>3. \A i \in r.inputs : AppliesTo(i, r.source)' = AppliesTo(i, r.source)
                                   /\ IsAddition(i)' = IsAddition(i) /\ req'[i] = req[i]
        BY <3>1, <4>1 DEF AppliesTo, IsAddition
      <4> QED BY <4>1, <4>2, <4>3 DEF CanonicalTraceable
    <3>3. ASSUME Commit(h), NEW r \in txn[h].added
          PROVE  /\ extraction'[r.ext] = r.source /\ r.inputs \subseteq inputs'
                 /\ \A i \in r.inputs :
                       /\ AppliesTo(i, r.source)'
                       /\ IsAddition(i)' => req'[i].refs \subseteq entities'
      <4>1. r.source \in Handlers
        BY <2>0 DEF TypeOK, Txn, CanonicalRow
      <4>2. PICK s \in Handlers : s = r.source
        BY <4>1
      <4>3. Queued(h) = {} /\ Built(h)
        BY <3>3, EmptyQueue DEF Commit, IBuilt, Built, QueueKept, Composing
      <4>4. Finished(h, s)
        BY <4>2, <4>3 DEF Built, SourcesKept, Untouched
      <4>5. PICK e \in Handlers, I \in SUBSET Admitted(h, s) :
               ExtractionOf(h, e, s) /\ {q \in txn[h].added : q.source = s} = Batch(s, h, e, I)
        BY <4>4 DEF Finished
      <4>6. r \in Batch(s, h, e, I)
        BY <4>2, <4>5
      <4>7. r.ext = e /\ r.inputs = I
        BY <4>6 DEF Batch
      <4>8. extraction'[e] = s
        BY <2>0, <3>3, <4>5, CommitRows, ConstantsAssumption DEF ExtractionOf
      <4>9. /\ inputs' = VisibleInputs(h) /\ entities' = VisibleNames(h) /\ req' = req
        BY <3>3 DEF Commit, VisibleInputs, VisibleNames
      <4> QED BY <4>2, <4>5, <4>7, <4>8, <4>9 DEF Admitted, Applicable, AppliesTo, IsAddition
    <3>4. \A r \in canonical' : r \in canonical \/ (Commit(h) /\ r \in txn[h].added)
      BY <2>1, RowsWritten DEF Commit
    <3> QED BY <3>2, <3>3, <3>4 DEF CanonicalTraceable
  <2>2. CASE UNCHANGED vars
    BY <2>2 DEF vars, db, CanonicalTraceable, AppliesTo, IsAddition
  <2> QED BY <2>1, <2>2 DEF Next, Quiet, Moves
<1> QED BY <1>1, <1>2, BuiltInvariant, PTL DEF Spec

(* Some whole composition of a source is there.                            *)
WholeSource(s) ==
    \E q, f \in Handlers, I \in SUBSET inputs :
        extraction[f] = s /\ Batch(s, q, f, I) \subseteq canonical
EverySourceWhole == \A e \in Handlers : extraction[e] # NoOne => WholeSource(extraction[e])

(* A stored row is composed to the same rows ever after.                   *)
LEMMA BatchStays ==
    ASSUME NEW f \in Handlers, NEW I \in SUBSET inputs, req'[f] = req[f],
           \A i \in inputs : req'[i] = req[i], NEW s, NEW q
    PROVE  Batch(s, q, f, I)' = Batch(s, q, f, I)
<1>1. \A i \in I : req'[i] = req[i] /\ IsAddition(i)' = IsAddition(i)
  BY DEF IsAddition
<1>2. {req[i].table : i \in {j \in I : IsAddition(j)}}'
         = {req[i].table : i \in {j \in I : IsAddition(j)}}
  BY <1>1
<1>3. TablesOf(f, I)' = TablesOf(f, I)
  BY <1>2 DEF TablesOf
<1> QED BY <1>3 DEF Batch

(* A commit leaves whole the source it composes, by the rows it adds, and  *)
(* every other by the rows it had.                                         *)
LEMMA CommitLeavesWhole ==
    ASSUME IType, EverySourceWhole, NEW h \in Handlers, Built(h), Commit(h)
    PROVE  EverySourceWhole'
<1>0. TypeOK /\ req' = req
  BY DEF IType, Commit
<1>1. /\ \A e \in Handlers : extraction[e] # NoOne => extraction'[e] = extraction[e]
      /\ \A e \in Handlers : extraction'[e] # extraction[e] =>
            e = h /\ txn[h].promoted /\ extraction'[e] = work[h].target
      /\ txn[h].promoted => extraction'[h] = work[h].target
  BY CommitRows
<1>2. inputs' = VisibleInputs(h) /\ inputs \subseteq inputs'
  BY DEF Commit, VisibleInputs
<1>3. canonical' = (canonical \ txn[h].deleted) \cup txn[h].added
  BY DEF Commit
<1>4. Queued(h) = {}
  BY EmptyQueue DEF Commit, Built, QueueKept, Composing
<1>5. \A s, q, f, I : Batch(s, q, f, I)' = Batch(s, q, f, I)
  BY <1>0 DEF Batch, TablesOf, IsAddition
<1> SUFFICES ASSUME NEW e \in Handlers, NEW s, s = extraction'[e], s # NoOne
             PROVE  WholeSource(s)'
  BY DEF EverySourceWhole
<1>6. s \in Handlers
  BY <1>0, <1>1, CommitRows DEF TypeOK, Commit, Work, StoredExtraction
<1>7. CASE Untouched(h, s)
  <2>1. extraction[e] = s
    BY <1>1, <1>7 DEF Untouched
  <2>2. PICK q \in Handlers, f \in Handlers, I \in SUBSET inputs :
           extraction[f] = s /\ Batch(s, q, f, I) \subseteq canonical
    BY <2>1 DEF EverySourceWhole, WholeSource
  <2>3. \A r \in Batch(s, q, f, I) : r.source = s
    BY DEF Batch
  <2>4. Batch(s, q, f, I) \subseteq canonical'
    BY <1>3, <1>7, <2>2, <2>3 DEF Untouched
  <2>5. extraction'[f] = s /\ I \in SUBSET inputs'
    BY <1>1, <1>2, <2>2
  <2> QED BY <1>5, <2>4, <2>5 DEF WholeSource
<1>8. CASE Finished(h, s)
  <2>1. PICK f \in Handlers, I \in SUBSET Admitted(h, s) :
           ExtractionOf(h, f, s) /\ {r \in txn[h].added : r.source = s} = Batch(s, h, f, I)
    BY <1>8 DEF Finished
  <2>2. extraction'[f] = s
    BY <1>1, <2>1, ConstantsAssumption DEF ExtractionOf
  <2>3. I \in SUBSET inputs'
    BY <1>2, <2>1 DEF Admitted, Applicable
  <2>4. Batch(s, h, f, I) \subseteq canonical'
    BY <1>3, <2>1
  <2> QED BY <1>5, <2>2, <2>3, <2>4 DEF WholeSource
<1> QED BY <1>4, <1>6, <1>7, <1>8 DEF Built, SourcesKept

LEMMA OthersLeaveWhole ==
    ASSUME UNCHANGED <<extraction, inputs, canonical>>, EverySourceWhole,
           \A e \in Handlers : extraction[e] # NoOne => req'[e] = req[e],
           \A i \in inputs : req'[i] = req[i]
    PROVE  EverySourceWhole'
<1> SUFFICES ASSUME NEW e \in Handlers, extraction[e] # NoOne
             PROVE  WholeSource(extraction[e])'
  BY DEF EverySourceWhole
<1>1. PICK q \in Handlers, f \in Handlers, I \in SUBSET inputs :
         extraction[f] = extraction[e] /\ Batch(extraction[e], q, f, I) \subseteq canonical
  BY DEF EverySourceWhole, WholeSource
<1>2. PICK s : s = extraction[e]
  OBVIOUS
<1>3. Batch(s, q, f, I)' = Batch(s, q, f, I)
  BY <1>1, BatchStays
<1> QED BY <1>1, <1>2, <1>3 DEF WholeSource

LEMMA WholeMeansWhole == IType /\ LayerFacts /\ EverySourceWhole => Layer!LayerWhole
<1> SUFFICES ASSUME IType, LayerFacts, EverySourceWhole, NEW e \in Layer!Stored
             PROVE  \E q \in Handlers : Layer!Composed(q, extraction[e])
  BY DEF Layer!LayerWhole, LayerFacts
<1>1. e \in Handlers /\ extraction[e] # NoOne
  BY DEF LayerFacts
<1>2. PICK q \in Handlers, f \in Handlers, I \in SUBSET inputs :
         extraction[f] = extraction[e] /\ Batch(extraction[e], q, f, I) \subseteq canonical
  BY <1>1 DEF EverySourceWhole, WholeSource
<1>3. /\ f \in Layer!Stored /\ I \in SUBSET Layer!Given /\ I \in SUBSET inputs
      /\ extraction[e] \in Handlers
  BY <1>1, <1>2 DEF LayerFacts, IType, TypeOK
<1>4. Layer!Composition(extraction[e], q, f, I) \subseteq canonical
  BY <1>2, <1>3 DEF LayerFacts
<1> QED BY <1>1, <1>2, <1>3, <1>4 DEF Layer!Composed

(* So readers of the pipeline never find a source whose extraction is      *)
(* stored with part of its rows gone: however compositions delete, wait,   *)
(* fail, crash and overtake each other, some whole composition of it is    *)
(* there.                                                                  *)
THEOREM PipelineIsWhole == Spec => []Layer!LayerWhole
<1>1. Init => EverySourceWhole
  BY DEF Init, EverySourceWhole
<1>2. IOne /\ IBuilt /\ EverySourceWhole /\ [Next]_vars => EverySourceWhole'
  <2> SUFFICES ASSUME IOne, IBuilt, EverySourceWhole, [Next]_vars PROVE EverySourceWhole'
    OBVIOUS
  <2>1. ASSUME NEW h \in Handlers, Commit(h) PROVE EverySourceWhole'
    BY <2>1, CommitLeavesWhole DEF IOne, IBuilt
  <2>2. ASSUME NEW h \in Handlers, Moves(h), ~Commit(h) PROVE EverySourceWhole'
    BY <2>2, LayerStays, OthersLeaveWhole DEF IOne
  <2>3. CASE UNCHANGED vars
    BY <2>3, OthersLeaveWhole DEF vars, db
  <2> QED BY <2>1, <2>2, <2>3 DEF Next, Quiet, Moves
<1>3. IOne /\ EverySourceWhole => Layer!LayerWhole
  BY LayerMeaning, WholeMeansWhole DEF IOne
<1> QED BY <1>1, <1>2, <1>3, BuiltInvariant, PTL DEF Spec

-----------------------------------------------------------------------------
(***************************************************************************)
(* One request at a time.  The handler that is served has the database to  *)
(* itself: what a statement has found holds until the commit, it waits for *)
(* nobody, and for each source its transaction is done with it has either  *)
(* written a whole composition or had no reason to write.                  *)
(***************************************************************************)
Serial == PlanOf[plan].width = 1
Alone == \A g, h \in InFlight : g = h

Late == Composing \cup {"read_extraction", "commit"}

(* Where a handler has written nothing yet, or holds nothing any more.     *)
Fresh(h) ==
    /\ pc[h] \in {"idle", "done", "find_transcript", "insert_transcript"} => txn[h] = NoTxn
    /\ pc[h] \notin Late => ~txn[h].stored
    /\ pc[h] \notin Composing \ {"read_inputs"} => work[h].table = 1
    /\ txn[h].created => req[h] \in IngestPost

(* What the statements before have found still holds.                      *)
Checked(h) ==
    /\ pc[h] \notin {"demote_wait", "delete_wait"}
    /\ txn[h].created => SourcesOf(req[h].transcript) = {}
    /\ pc[h] = "insert_transcript" => transcript[req[h].transcript] = NoText
    /\ pc[h] = "insert_extraction" => ActiveOf(work[h].target) \subseteq txn[h].demoted
    /\ pc[h] = "create_entity" => work[h].name \notin entities

(* The inputs that a composition of s for h must not miss.                 *)
DueTo(h, s) ==
    {i \in VisibleInputs(h) :
        AppliesTo(i, s) /\ ~(req[i].kind = "addition" /\ req[i].source = NoOne)}

RowsOf(rows, s) == {r \in rows : r.source = s}

(* A source of which the transaction writes nothing, and need not.         *)
Left(h, s) ==
    /\ RowsOf(txn[h].deleted, s) = {} /\ RowsOf(txn[h].added, s) = {}
    /\ VisibleActive(h, s) # {} =>
          DueTo(h, s) \subseteq inputs /\ VisibleActive(h, s) \subseteq active

(* A source whose rows the transaction replaces by those that are due.     *)
Renewed(h, s) ==
    \E e \in VisibleActive(h, s), I \in SUBSET VisibleInputs(h) :
        /\ DueTo(h, s) \subseteq I
        /\ \A i \in I : AppliesTo(i, s)
        /\ RowsOf(txn[h].added, s) = Batch(s, h, e, I)
        /\ RowsOf(canonical, s) \subseteq txn[h].deleted

(* How far the composition of source s has come.                           *)
HeadUnderway(h, s) ==
    /\ pc[h] \in Composing => work[h].ext \in VisibleActive(h, s)
    /\ pc[h] \in Composing \ {"read_inputs"} => DueTo(h, s) \subseteq work[h].seen
    /\ pc[h] = "delete" =>
          \A r \in RowsOf(canonical, s) : r.table < work[h].table => r \in txn[h].deleted
    /\ pc[h] \in {"resolve", "create_entity", "apply_additions"} =>
          RowsOf(canonical, s) \subseteq txn[h].deleted

Underway(h) ==
    /\ HeadUnderway(h, Head(work[h].queue))
    /\ pc[h] \in Late => \A s \in Handlers \ Queued(h) : Left(h, s) \/ Renewed(h, s)

(* Sources, too, were inserted by requests of their kind.                  *)
SourcesIngested == \A s \in sources : req[s] \in IngestPost

IFresh == SourcesIngested /\ \A h \in Handlers : Fresh(h)
IServed == Alone /\ \A h \in InFlight : Checked(h) /\ Underway(h)
ISerial == IFresh /\ (Serial => IServed)

-----------------------------------------------------------------------------
(* The orders of a finite set of sources leave none of them out.           *)
LEMMA OrdersCover ==
    ASSUME NEW S \in SUBSET Handlers, NEW q \in Orders(S)
    PROVE  {q[i] : i \in DOMAIN q} = S
<1>1. IsFiniteSet(S) /\ Cardinality(S) \in Nat
  BY ConstantsAssumption, FS_Subset, FS_CardinalityType
<1>2. PICK n \in Nat : n = Cardinality(S)
  BY <1>1
<1>3. q \in [1..n -> S] /\ \A i, j \in 1..n : i # j => q[i] # q[j]
  BY <1>2 DEF Orders
<1>4. q \in Injection(1..n, S)
  BY <1>3 DEF Injection, IsInjective
<1>5. Cardinality(1..n) = n
  BY FS_Interval
<1>6. q \in Surjection(1..n, S)
  BY <1>1, <1>2, <1>4, <1>5, FS_Injection
<1> QED BY <1>3, <1>6 DEF Surjection

(* Until it ends, a handler changes no table, and its request stays.       *)
LEMMA StillServed ==
    ASSUME IType, NEW h \in Handlers, Step(h), pc'[h] # "done"
    PROVE  UNCHANGED <<db, req>>
<1>0. pc \in [Handlers -> Label]
  BY DEF IType, TypeOK
<1>1. ASSUME NEW code, EndWith(h, code) PROVE FALSE
  BY <1>0, <1>1 DEF EndWith, Goto
<1>2. CASE FindTranscript(h) \/ GetTranscript(h) \/ CreateSource(h)
           \/ ReuseSource(h) \/ SaveSource(h)
  BY <1>1, <1>2 DEF FindTranscript, GetTranscript, CreateSource, ReuseSource, SaveSource
<1>3. CASE Demote(h) \/ DemoteWait(h) \/ InsertExtraction(h) \/ GetSource(h) \/ StoreInput(h)
  BY <1>1, <1>3 DEF Demote, DemoteWait, InsertExtraction, GetSource, StoreInput
<1>4. CASE ReadExtraction(h) \/ ReadInputs(h) \/ Delete(h) \/ DeleteWait(h)
           \/ Resolve(h) \/ CreateEntity(h) \/ ApplyAdditions(h)
  BY <1>1, <1>4 DEF ReadExtraction, ReadInputs, Delete, DeleteWait, Resolve, CreateEntity,
                    ApplyAdditions
<1>5. ~InsertTranscript(h) /\ ~Commit(h)
  BY <1>0, <1>1 DEF InsertTranscript, Commit, Goto
<1> QED BY <1>2, <1>3, <1>4, <1>5 DEF Step

LEMMA EndsFresh ==
    ASSUME TypeOK, NEW h \in Handlers, NEW code, EndWith(h, code)
    PROVE  pc'[h] = "done" /\ txn'[h] = NoTxn /\ work'[h] = NoWork
BY DEF EndWith, Goto, TypeOK

(* What the statements before a composition do to the handler's own state. *)
LEMMA BeforeComposing ==
    ASSUME IType, NEW h \in Handlers, Step(h), pc'[h] # "done",
           pc[h] \notin Composing \cup {"read_extraction"}
    PROVE  /\ work'[h].table = work[h].table
           /\ txn'[h].created = txn[h].created \/ CreateSource(h)
           /\ txn'[h].stored = txn[h].stored \/ StoreInput(h)
           /\ txn'[h].deleted = txn[h].deleted /\ txn'[h].added = txn[h].added
<1>0. TypeOK /\ txn[h] \in Txn /\ work[h] \in Work
  BY DEF IType, TypeOK
<1>1. ASSUME NEW code, EndWith(h, code) PROVE FALSE
  BY <1>0, <1>1, EndsFresh
<1>2. CASE FindTranscript(h) \/ GetTranscript(h) \/ ReuseSource(h) \/ GetSource(h)
  <2>1. txn'[h] = txn[h]
    BY <1>0, <1>1, <1>2 DEF FindTranscript, GetTranscript, ReuseSource, GetSource
  <2>2. CASE FindTranscript(h)
    BY <1>0, <2>1, <2>2 DEF FindTranscript, TypeOK, Work
  <2>3. CASE GetTranscript(h)
    BY <1>0, <1>1, <2>1, <2>3 DEF GetTranscript
  <2>4. CASE ReuseSource(h)
    <3>1. PICK s : work' = [work EXCEPT ![h].target = s]
      BY <1>1, <2>4 DEF ReuseSource
    <3> QED BY <1>0, <2>1, <3>1 DEF TypeOK, Work
  <2>5. CASE GetSource(h)
    <3>1. work' = [work EXCEPT ![h].queue = <<req[h].source>>]
      BY <1>1, <2>5 DEF GetSource
    <3> QED BY <1>0, <2>1, <3>1 DEF TypeOK, Work
  <2> QED BY <1>2, <2>2, <2>3, <2>4, <2>5
<1>3. CASE CreateSource(h) \/ SaveSource(h)
  <2>1. CASE CreateSource(h)
    <3>1. txn' = [txn EXCEPT ![h].created = TRUE] /\ work' = [work EXCEPT ![h].target = h]
      BY <2>1 DEF CreateSource
    <3> QED BY <1>0, <2>1, <3>1 DEF TypeOK, Txn, Work
  <2>2. CASE SaveSource(h)
    <3>1. PICK s : txn' = [txn EXCEPT ![h].saved = s] /\ work' = work
      BY <2>2 DEF SaveSource
    <3> QED BY <1>0, <2>2, <3>1 DEF TypeOK, Txn, Work
  <2> QED BY <1>3, <2>1, <2>2
<1>4. CASE Demote(h) \/ DemoteWait(h)
  <2>1. PICK D, V : /\ txn' = txn \/ txn' = [txn EXCEPT ![h].demoted = D]
                    /\ work' = work \/ work' = [work EXCEPT ![h].victims = V]
    <3>1. CASE Demote(h)
      <4>1. PICK D : \/ txn' = [txn EXCEPT ![h].demoted = D] /\ work' = work
                     \/ txn' = txn /\ work' = [work EXCEPT ![h].victims = D]
        BY <3>1 DEF Demote
      <4> QED BY <4>1
    <3>2. CASE DemoteWait(h)
      BY <3>2 DEF DemoteWait
    <3> QED BY <1>4, <3>1, <3>2
  <2>2. txn'[h] = txn[h] \/ txn'[h] = [txn[h] EXCEPT !.demoted = D]
    BY <1>0, <2>1 DEF TypeOK
  <2>3. work'[h] = work[h] \/ work'[h] = [work[h] EXCEPT !.victims = V]
    BY <1>0, <2>1 DEF TypeOK
  <2>4. /\ txn'[h].created = txn[h].created /\ txn'[h].stored = txn[h].stored
        /\ txn'[h].deleted = txn[h].deleted /\ txn'[h].added = txn[h].added
    BY <1>0, <2>2 DEF Txn
  <2>5. work'[h].table = work[h].table
    BY <1>0, <2>3 DEF Work
  <2> QED BY <2>4, <2>5
<1>5. CASE InsertExtraction(h)
  <2>1. PICK q : txn' = [txn EXCEPT ![h].promoted = TRUE] /\ work' = [work EXCEPT ![h].queue = q]
    BY <1>1, <1>5 DEF InsertExtraction
  <2> QED BY <1>0, <2>1 DEF TypeOK, Txn, Work
<1>6. CASE StoreInput(h)
  <2>1. PICK q : txn' = [txn EXCEPT ![h].stored = TRUE] /\ work' = [work EXCEPT ![h].queue = q]
    BY <1>1, <1>6 DEF StoreInput
  <2> QED BY <1>0, <1>6, <2>1 DEF TypeOK, Txn, Work
<1>7. ~InsertTranscript(h) /\ ~Commit(h)
  BY <1>0, <1>1 DEF InsertTranscript, Commit, Goto, TypeOK
<1> QED
  BY <1>2, <1>3, <1>4, <1>5, <1>6, <1>7
     DEF Step, ReadExtraction, ReadInputs, Delete, DeleteWait, Resolve, CreateEntity,
         ApplyAdditions, Composing

(* A statement that stays at the first source of the queue.                *)
StaysAtHead(h) ==
    /\ pc[h] \in Composing \cup {"read_extraction"} /\ pc'[h] \in Composing
    /\ work'[h].queue = work[h].queue /\ work'[h].target = work[h].target
    /\ pc'[h] = "read_inputs" => work'[h].table = work[h].table
    /\ txn'[h].created = txn[h].created /\ txn'[h].stored = txn[h].stored
    /\ txn'[h].demoted = txn[h].demoted /\ txn'[h].promoted = txn[h].promoted
    /\ txn'[h].added = txn[h].added /\ txn[h].deleted \subseteq txn'[h].deleted
    /\ \A r \in txn'[h].deleted \ txn[h].deleted : r.source = Head(work[h].queue)

(* One that ends the composition of it.                                    *)
LeavesHead(h) ==
    /\ NextSource(h)
    /\ txn'[h].created = txn[h].created /\ txn'[h].stored = txn[h].stored
    /\ txn'[h].demoted = txn[h].demoted /\ txn'[h].promoted = txn[h].promoted
    /\ txn'[h].deleted = txn[h].deleted
    /\ \/ /\ ReadExtraction(h) /\ VisibleActive(h, Head(work[h].queue)) = {}
          /\ txn'[h].added = txn[h].added
       \/ /\ ApplyAdditions(h)
          /\ txn'[h].added = txn[h].added
                \cup Batch(Head(work[h].queue), h, work[h].ext, work[h].seen)

LEMMA DeletedStays ==
    ASSUME TypeOK, NEW h \in Handlers, pc[h] \in Composing, NEW rows, Deleted(h, rows),
           \A r \in rows : r.source = Head(work[h].queue)
    PROVE  /\ StaysAtHead(h)
           /\ pc'[h] = IF work[h].table = Tables THEN "resolve" ELSE "delete"
           /\ txn'[h].deleted = txn[h].deleted \cup rows
           /\ work'[h].table = work[h].table + 1
           /\ work'[h].ext = work[h].ext /\ work'[h].seen = work[h].seen
<1>0. txn[h] \in Txn /\ work[h] \in Work
  BY DEF TypeOK
<1>1. /\ txn'[h] = [txn[h] EXCEPT !.deleted = txn[h].deleted \cup rows]
      /\ work'[h] = [work[h] EXCEPT !.table = work[h].table + 1, !.victims = {}]
      /\ pc'[h] = IF work[h].table = Tables THEN "resolve" ELSE "delete"
  BY DEF Deleted, TypeOK, Goto
<1>2. /\ txn'[h].deleted = txn[h].deleted \cup rows /\ txn'[h].added = txn[h].added
      /\ txn'[h].created = txn[h].created /\ txn'[h].stored = txn[h].stored
      /\ txn'[h].demoted = txn[h].demoted /\ txn'[h].promoted = txn[h].promoted
  BY <1>0, <1>1 DEF Txn
<1>3. /\ work'[h].queue = work[h].queue /\ work'[h].target = work[h].target
      /\ work'[h].ext = work[h].ext /\ work'[h].seen = work[h].seen
      /\ work'[h].table = work[h].table + 1
  BY <1>0, <1>1 DEF Work
<1>4. pc'[h] \in Composing /\ pc'[h] # "read_inputs"
  BY <1>1 DEF Composing
<1> QED BY <1>1, <1>2, <1>3, <1>4 DEF StaysAtHead

LEMMA WhileComposing ==
    ASSUME IType, NEW h \in Handlers, Built(h), Step(h), pc'[h] # "done",
           pc[h] \in Composing \cup {"read_extraction"}
    PROVE  StaysAtHead(h) \/ LeavesHead(h)
<1>0. TypeOK /\ txn[h] \in Txn /\ work[h] \in Work
  BY DEF IType, TypeOK
<1>1. ASSUME NEW code, EndWith(h, code) PROVE FALSE
  BY <1>0, <1>1, EndsFresh
<1>2. CASE ReadExtraction(h)
  <2>1. txn' = txn
    BY <1>2 DEF ReadExtraction
  <2>2. CASE VisibleActive(h, Head(work[h].queue)) = {}
    BY <1>2, <2>1, <2>2 DEF ReadExtraction, LeavesHead
  <2>3. CASE VisibleActive(h, Head(work[h].queue)) # {}
    <3>1. PICK e : work' = [work EXCEPT ![h].ext = e] /\ Goto(h, "read_inputs")
      BY <1>2, <2>3 DEF ReadExtraction
    <3>2. /\ work'[h].queue = work[h].queue /\ work'[h].target = work[h].target
          /\ work'[h].table = work[h].table /\ pc'[h] = "read_inputs"
      BY <1>0, <3>1 DEF TypeOK, Work, Goto
    <3> QED BY <2>1, <3>2 DEF StaysAtHead, Composing
  <2> QED BY <2>2, <2>3
<1>3. CASE ReadInputs(h)
  <2>1. PICK I : work' = [work EXCEPT ![h].seen = I] /\ Goto(h, "delete") /\ txn' = txn
    BY <1>3 DEF ReadInputs
  <2>2. /\ work'[h].queue = work[h].queue /\ work'[h].target = work[h].target
        /\ pc'[h] = "delete"
    BY <1>0, <2>1 DEF TypeOK, Work, Goto
  <2> QED BY <2>1, <2>2 DEF StaysAtHead, Composing
<1>4. CASE Delete(h)
  <2>1. PICK victims : /\ \A r \in victims : r.source = Head(work[h].queue)
                       /\ \/ Deleted(h, victims)
                          \/ /\ work' = [work EXCEPT ![h].victims = victims]
                             /\ Goto(h, "delete_wait") /\ UNCHANGED txn
    BY <1>4 DEF Delete
  <2>2. CASE /\ work' = [work EXCEPT ![h].victims = victims]
             /\ Goto(h, "delete_wait") /\ UNCHANGED txn
    <3>1. /\ work'[h].queue = work[h].queue /\ work'[h].target = work[h].target
          /\ pc'[h] = "delete_wait"
      BY <1>0, <2>2 DEF TypeOK, Work, Goto
    <3> QED BY <2>2, <3>1 DEF StaysAtHead, Composing
  <2>3. pc[h] \in Composing
    BY <1>4 DEF Delete, Composing
  <2> QED BY <1>0, <2>1, <2>2, <2>3, DeletedStays
<1>5. CASE DeleteWait(h)
  <2>1. \A r \in work[h].victims \cap canonical : r.source = Head(work[h].queue)
    BY <1>5 DEF DeleteWait, Built, VictimsKept
  <2>2. pc[h] \in Composing
    BY <1>5 DEF DeleteWait, Composing
  <2> QED BY <1>0, <1>5, <2>1, <2>2, DeletedStays DEF DeleteWait
<1>6. CASE Resolve(h)
  <2>1. /\ work'[h].queue = work[h].queue /\ work'[h].target = work[h].target
    BY <1>0, <1>6 DEF Resolve, TypeOK, Work
  <2>2. pc'[h] \in {"apply_additions", "resolve", "create_entity"} /\ txn' = txn
    BY <1>0, <1>6, ResolveCases DEF TypeOK, Resolve
  <2> QED BY <2>1, <2>2 DEF StaysAtHead, Composing
<1>7. CASE CreateEntity(h)
  <2>1. /\ txn' = [txn EXCEPT ![h].names = @ \cup {work[h].name}]
        /\ work' = [work EXCEPT ![h].name = NoOne, ![h].at = @ + 1]
        /\ Goto(h, "resolve")
    BY <1>1, <1>7 DEF CreateEntity
  <2>2. /\ work'[h].queue = work[h].queue /\ work'[h].target = work[h].target
        /\ pc'[h] = "resolve"
    BY <1>0, <2>1 DEF TypeOK, Work, Goto
  <2>3. /\ txn'[h].deleted = txn[h].deleted /\ txn'[h].added = txn[h].added
        /\ txn'[h].promoted = txn[h].promoted /\ txn'[h].stored = txn[h].stored
        /\ txn'[h].created = txn[h].created /\ txn'[h].demoted = txn[h].demoted
    BY <1>0, <2>1 DEF TypeOK, Txn
  <2> QED BY <2>2, <2>3 DEF StaysAtHead, Composing
<1>8. CASE ApplyAdditions(h)
  <2>1. PICK rows : rows = Batch(Head(work[h].queue), h, work[h].ext, work[h].seen)
    OBVIOUS
  <2>2. txn' = [txn EXCEPT ![h].added = @ \cup rows] /\ NextSource(h)
    BY <1>1, <1>8, <2>1 DEF ApplyAdditions
  <2>3. /\ txn'[h].added = txn[h].added \cup rows /\ txn'[h].deleted = txn[h].deleted
        /\ txn'[h].promoted = txn[h].promoted /\ txn'[h].stored = txn[h].stored
        /\ txn'[h].created = txn[h].created /\ txn'[h].demoted = txn[h].demoted
    BY <1>0, <2>2 DEF TypeOK, Txn
  <2> QED BY <1>8, <2>1, <2>2, <2>3 DEF LeavesHead
<1> QED
  BY <1>2, <1>3, <1>4, <1>5, <1>6, <1>7, <1>8
     DEF Step, FindTranscript, InsertTranscript, GetTranscript, CreateSource,
         ReuseSource, SaveSource, Demote, DemoteWait, InsertExtraction, GetSource, StoreInput,
         Commit, Composing

(* Where those statements lead.                                            *)
LEMMA LabelsBefore ==
    ASSUME IType, NEW h \in Handlers, Step(h), pc'[h] # "done",
           pc[h] \notin Composing \cup {"read_extraction"}
    PROVE  /\ pc[h] # "commit"
           /\ pc'[h] \notin {"idle", "find_transcript"} \cup Composing
           /\ pc'[h] = "insert_transcript" => FindTranscript(h)
           /\ pc'[h] = "demote_wait" => Demote(h)
           /\ pc'[h] = "insert_extraction" => Demote(h) \/ DemoteWait(h)
           /\ pc'[h] \in Late =>
                 \/ InsertExtraction(h) \/ GetSource(h) \/ StoreInput(h)
                 \/ (Demote(h) \/ DemoteWait(h)) /\ pc'[h] = "commit"
           /\ StoreInput(h) => pc'[h] \in Late
<1>0. pc \in [Handlers -> Label]
  BY DEF IType, TypeOK
<1>1. ASSUME NEW code, EndWith(h, code) PROVE FALSE
  BY <1>0, <1>1 DEF EndWith, Goto
<1> USE DEF Late, Composing
<1>2. CASE FindTranscript(h) \/ GetTranscript(h)
  <2>1. CASE FindTranscript(h)
    <3>1. pc'[h] \in {"insert_transcript", "demote"} /\ pc[h] = "find_transcript"
      BY <1>0, <2>1 DEF FindTranscript, Goto
    <3> QED BY <2>1, <3>1 DEF StoreInput
  <2>2. CASE GetTranscript(h)
    <3>1. pc'[h] = "find_source" /\ pc[h] = "get_transcript"
      BY <1>0, <1>1, <2>2 DEF GetTranscript, Goto
    <3> QED BY <3>1 DEF StoreInput
  <2> QED BY <1>2, <2>1, <2>2
<1>3. CASE CreateSource(h) \/ ReuseSource(h) \/ SaveSource(h)
  <2>1. pc'[h] \in {"save_source", "demote"} /\ pc[h] \in {"find_source", "save_source"}
    BY <1>0, <1>1, <1>3 DEF CreateSource, ReuseSource, SaveSource, Goto
  <2> QED BY <2>1 DEF StoreInput
<1>4. CASE Demote(h) \/ DemoteWait(h)
  <2>1. pc'[h] \in {"demote_wait", "commit", "insert_extraction"}
    BY <1>0, <1>4 DEF Demote, DemoteWait, AfterDemote, Goto
  <2>2. pc'[h] = "demote_wait" => Demote(h)
    BY <1>0, <1>4 DEF DemoteWait, AfterDemote, Goto
  <2>3. pc[h] \in {"demote", "demote_wait"}
    BY <1>4 DEF Demote, DemoteWait
  <2> QED BY <1>4, <2>1, <2>2, <2>3 DEF StoreInput
<1>5. CASE InsertExtraction(h) \/ GetSource(h) \/ StoreInput(h)
  <2>1. pc'[h] \in {"read_extraction", "commit"}
    BY <1>0, <1>1, <1>5 DEF InsertExtraction, GetSource, StoreInput, Goto
  <2>2. pc[h] \in {"insert_extraction", "get_source", "store_input"}
    BY <1>5 DEF InsertExtraction, GetSource, StoreInput
  <2> QED BY <1>5, <2>1, <2>2
<1>7. ~InsertTranscript(h) /\ ~Commit(h)
  BY <1>0, <1>1 DEF InsertTranscript, Commit, Goto
<1> QED
  BY <1>2, <1>3, <1>4, <1>5, <1>7
     DEF Step, ReadExtraction, ReadInputs, Delete, DeleteWait, Resolve, CreateEntity,
         ApplyAdditions

LEMMA EntryLabels ==
    ASSUME TypeOK, NEW h \in Handlers, Begin(h)
    PROVE  /\ pc[h] = "idle" /\ txn'[h] = txn[h] /\ work'[h] = work[h]
           /\ pc'[h] \in {"find_transcript", "get_transcript", "get_source", "store_input"}
BY DEF Begin, EntryOf, Goto, TypeOK

LEMMA FreshMover ==
    ASSUME IType, NEW h \in Handlers, Moves(h), Built(h), Fresh(h)
    PROVE  Fresh(h)'
<1>0. TypeOK /\ RequestAt(h) /\ txn[h] \in Txn /\ work[h] \in Work
  BY DEF IType, TypeOK
<1>1. CASE Begin(h)
  <2>1. txn[h] = NoTxn
    BY <1>0, <1>1, EntryLabels DEF Fresh
  <2> QED BY <1>0, <1>1, <2>1, EntryLabels DEF Fresh, Late, Composing, NoTxn
<1>2. CASE pc'[h] = "done" /\ ~Begin(h)
  <2>1. CASE \E code : EndWith(h, code)
    <3>1. PICK code : EndWith(h, code)
      BY <2>1
    <3>2. txn'[h] = NoTxn /\ work'[h] = NoWork
      BY <1>0, <3>1, EndsFresh
    <3> QED BY <1>2, <3>2 DEF Fresh, NoTxn, NoWork
  <2>2. CASE Commit(h)
    <3>1. txn'[h] = NoTxn /\ work'[h] = NoWork
      BY <1>0, <2>2 DEF Commit, TypeOK
    <3> QED BY <1>2, <3>1 DEF Fresh, NoTxn, NoWork
  <2>3. CASE InsertTranscript(h) /\ ~\E code : EndWith(h, code)
    <3>1. txn'[h] = NoTxn /\ work'[h] = NoWork
      BY <1>0, <2>3 DEF InsertTranscript, TypeOK, Fresh
    <3> QED BY <1>2, <3>1 DEF Fresh, NoTxn, NoWork
  <2>4. CASE pc[h] \notin Composing \cup {"read_extraction"}
    <3>1. pc[h] # "idle" /\ pc \in [Handlers -> Label]
      BY <1>0, <1>2, StepRuns DEF Moves, TypeOK
    <3>2. CASE FindTranscript(h) \/ GetTranscript(h) \/ CreateSource(h)
               \/ ReuseSource(h) \/ SaveSource(h)
      BY <1>2, <2>1, <3>1, <3>2
         DEF FindTranscript, GetTranscript, CreateSource, ReuseSource, SaveSource, Goto
    <3>3. CASE Demote(h) \/ DemoteWait(h)
      BY <1>2, <3>1, <3>3 DEF Demote, DemoteWait, AfterDemote, Goto
    <3>4. CASE InsertExtraction(h) \/ GetSource(h) \/ StoreInput(h)
      BY <1>2, <2>1, <3>1, <3>4 DEF InsertExtraction, GetSource, StoreInput, Goto
    <3> QED
      BY <1>2, <2>1, <2>2, <2>3, <2>4, <3>2, <3>3, <3>4
         DEF Moves, Step, BreakDeadlock, Crash, ReadExtraction, ReadInputs, Delete, DeleteWait,
             Resolve, CreateEntity, ApplyAdditions, Composing
  <2>5. CASE pc[h] \in Composing \cup {"read_extraction"} /\ ~\E code : EndWith(h, code)
    <3>1. pc \in [Handlers -> Label]
      BY <1>0 DEF TypeOK
    <3>2. CASE ReadExtraction(h) \/ ApplyAdditions(h)
      BY <1>2, <2>5, <3>1, <3>2 DEF ReadExtraction, ApplyAdditions, NextSource, Goto
    <3>3. CASE ReadInputs(h) \/ Delete(h) \/ DeleteWait(h) \/ CreateEntity(h)
      BY <1>2, <2>5, <3>1, <3>3 DEF ReadInputs, Delete, DeleteWait, Deleted, CreateEntity, Goto
    <3>4. CASE Resolve(h)
      BY <1>0, <1>2, <3>1, <3>4, ResolveCases DEF Resolve
    <3> QED
      BY <1>2, <2>5, <3>2, <3>3, <3>4
         DEF Moves, Step, BreakDeadlock, Crash, FindTranscript, InsertTranscript, GetTranscript,
             CreateSource, ReuseSource, SaveSource, Demote, DemoteWait, InsertExtraction,
             GetSource, StoreInput, Commit, Composing
  <2> QED BY <2>1, <2>4, <2>5
<1>3. CASE pc'[h] # "done" /\ Step(h) /\ pc[h] \notin Composing \cup {"read_extraction"}
  <2>1. req'[h] = req[h]
    BY <1>3, StillServed
  <2>2. pc[h] \notin Late /\ pc'[h] \notin {"idle", "find_transcript"} \cup Composing
    BY <1>3, LabelsBefore DEF Late
  <2>3. pc'[h] = "insert_transcript" => txn'[h] = NoTxn
    <3>1. pc'[h] = "insert_transcript" => FindTranscript(h)
      BY <1>3, LabelsBefore
    <3> QED BY <3>1 DEF FindTranscript, Fresh
  <2>4. pc'[h] \notin Late => ~txn'[h].stored
    BY <1>3, <2>2, BeforeComposing, LabelsBefore DEF Fresh
  <2>5. work'[h].table = 1
    BY <1>3, <2>2, BeforeComposing DEF Fresh, Late
  <2>6. txn'[h].created => req'[h] \in IngestPost
    BY <1>0, <1>3, <2>1, BeforeComposing DEF Fresh, CreateSource, RequestAt
  <2> QED BY <1>3, <2>2, <2>3, <2>4, <2>5, <2>6 DEF Fresh
<1>4. CASE pc'[h] # "done" /\ Step(h) /\ pc[h] \in Composing \cup {"read_extraction"}
  <2>1. req'[h] = req[h] /\ (StaysAtHead(h) \/ LeavesHead(h))
    BY <1>4, StillServed, WhileComposing
  <2>2. CASE StaysAtHead(h)
    <3>1. pc'[h] = "read_inputs" => work'[h].table = 1
      <4>1. CASE ReadExtraction(h)
        BY <2>2, <4>1 DEF StaysAtHead, Fresh, ReadExtraction, Composing
      <4>2. CASE ~ReadExtraction(h)
        <5>1. pc \in [Handlers -> Label]
          BY <1>0 DEF TypeOK
        <5>2. CASE ReadInputs(h) \/ Delete(h) \/ DeleteWait(h) \/ CreateEntity(h)
          BY <1>4, <5>1, <5>2 DEF ReadInputs, Delete, DeleteWait, Deleted, CreateEntity, Goto, EndWith
        <5>3. CASE Resolve(h)
          BY <1>0, <5>1, <5>3, ResolveCases DEF Resolve
        <5>4. CASE ApplyAdditions(h)
          BY <1>4, <5>1, <5>4 DEF ApplyAdditions, NextSource, Goto, EndWith
        <5> QED
          BY <1>4, <4>2, <5>2, <5>3, <5>4
             DEF Step, FindTranscript, InsertTranscript, GetTranscript,
                 CreateSource, ReuseSource, SaveSource, Demote, DemoteWait, InsertExtraction,
                 GetSource, StoreInput, Commit, Composing
      <4> QED BY <4>1, <4>2
    <3> QED BY <2>1, <2>2, <3>1 DEF StaysAtHead, Fresh, Late, Composing
  <2>3. CASE LeavesHead(h)
    <3>1. work'[h].table = 1 /\ pc'[h] \in {"read_extraction", "commit"}
      BY <1>0, <2>3 DEF LeavesHead, NextSource, NoWork, TypeOK, Goto
    <3> QED BY <2>1, <2>3, <3>1 DEF LeavesHead, Fresh, Late, Composing
  <2> QED BY <2>1, <2>2, <2>3
<1>5. CASE BreakDeadlock(h) \/ Crash(h)
  <2>1. pc'[h] = "done" /\ ~Begin(h)
    BY <1>0, <1>5, StepRuns, EndsFresh DEF BreakDeadlock, Crash, Begin
  <2> QED BY <1>2, <2>1
<1>6. pc'[h] = "done" => ~Begin(h)
  BY <1>0, EntryLabels
<1> QED BY <1>1, <1>2, <1>3, <1>4, <1>5, <1>6 DEF Moves

(* A step of one handler keeps the others, and the sources, what they were.*)
LEMMA FreshStep ==
    ASSUME IType, IBuilt, IFresh, [Next]_vars
    PROVE  IFresh'
<1>1. ASSUME NEW m \in Handlers, Moves(m) PROVE IFresh'
  <2>0. TypeOK
    BY DEF IType
  <2>1. \A h \in Handlers : req[h] \in IngestPost => req'[h] = req[h]
    BY <1>1, RequestsStay DEF Request
  <2>2. ASSUME NEW h \in Handlers \ {m} PROVE Fresh(h)'
    <3>1. req'[h] = req[h] /\ pc'[h] = pc[h] /\ txn'[h] = txn[h] /\ work'[h] = work[h]
      BY <1>1, <2>0, OthersUntouched
    <3> QED BY <3>1 DEF IFresh, Fresh
  <2>3. Fresh(m)'
    BY <1>1, FreshMover DEF IBuilt, IFresh
  <2>4. SourcesIngested'
    <3>1. CASE Commit(m)
      <4>1. sources' \subseteq sources \cup {m} /\ (m \in sources' => m \in sources \/ txn[m].created)
        BY <3>1 DEF Commit
      <4>2. \A s \in sources' : req[s] \in IngestPost /\ s \in Handlers
        BY <2>0, <4>1 DEF IFresh, SourcesIngested, Fresh, TypeOK
      <4> QED BY <2>1, <4>2 DEF SourcesIngested
    <3>2. CASE ~Commit(m)
      BY <1>1, <2>0, <2>1, <3>2, RowsWritten DEF IFresh, SourcesIngested, TypeOK
    <3> QED BY <3>1, <3>2
  <2> QED BY <2>2, <2>3, <2>4 DEF IFresh
<1>2. CASE UNCHANGED vars
  BY <1>2 DEF vars, db, IFresh, SourcesIngested, Fresh
<1> QED BY <1>1, <1>2 DEF Next, Quiet, Moves

(* Served alone, a handler finds no transaction but its own.               *)
LEMMA NobodyElse ==
    ASSUME IType, IFresh, Alone, NEW m \in Handlers, m \in InFlight
    PROVE  /\ \A g \in Others(m) : txn[g] = NoTxn
           /\ pc[m] \notin {"demote_wait", "delete_wait"} => BlockedBy(m) = {}
<1>1. \A g \in Others(m) : txn[g] = NoTxn
  BY DEF Others, Alone, InFlight, IFresh, Fresh
<1>2. ASSUME pc[m] \notin {"demote_wait", "delete_wait"} PROVE BlockedBy(m) = {}
  <2>1. pc[m] = "save_source" => work[m].target # NoOne
    BY ConstantsAssumption DEF IType, RequestAt
  <2> QED BY <1>1, <1>2, <2>1 DEF BlockedBy, NoTxn
<1> QED BY <1>1, <1>2

(* At most one handler is served at a time.                                *)
LEMMA AloneStep ==
    ASSUME IType, Serial, Alone, NEW m \in Handlers, Moves(m)
    PROVE  /\ Alone' /\ \A h \in InFlight' : h = m
           /\ Begin(m) => InFlight = {}
           /\ ~Begin(m) => m \in InFlight
<1>0. TypeOK /\ pc \in [Handlers -> Label]
  BY DEF IType, TypeOK
<1>1. \A h \in Handlers \ {m} : pc'[h] = pc[h]
  BY <1>0, OthersUntouched
<1>2. ASSUME Begin(m) PROVE InFlight = {}
  <2>1. IsFiniteSet(InFlight)
    BY ConstantsAssumption, FS_Subset DEF InFlight
  <2>2. Cardinality(InFlight) < 1 /\ Cardinality(InFlight) \in Nat
    BY <1>2, <2>1, FS_CardinalityType DEF Begin, Serial
  <2>3. Cardinality(InFlight) = 0
    BY <2>2
  <2> QED BY <2>1, <2>3, FS_EmptySet
<1>3. ~Begin(m) => m \in InFlight
  BY StepRuns DEF Moves, InFlight
<1>4. \A h \in InFlight' : h = m
  BY <1>1, <1>2, <1>3 DEF InFlight, Alone
<1> QED BY <1>2, <1>3, <1>4 DEF Alone

LEMMA PlanStays ==
    ASSUME NEW m \in Handlers, Moves(m)
    PROVE  plan' = plan
<1> USE DEF db, EndWith
<1>1. CASE Begin(m) \/ BreakDeadlock(m) \/ Crash(m)
  BY <1>1 DEF Begin, BreakDeadlock, Crash
<1>2. CASE FindTranscript(m) \/ InsertTranscript(m) \/ GetTranscript(m) \/ CreateSource(m)
           \/ ReuseSource(m) \/ SaveSource(m)
  BY <1>2 DEF FindTranscript, InsertTranscript, GetTranscript, CreateSource, ReuseSource,
              SaveSource
<1>3. CASE Demote(m) \/ DemoteWait(m) \/ InsertExtraction(m) \/ GetSource(m) \/ StoreInput(m)
  BY <1>3 DEF Demote, DemoteWait, InsertExtraction, GetSource, StoreInput
<1>4. CASE ReadExtraction(m) \/ ReadInputs(m) \/ Delete(m) \/ DeleteWait(m)
           \/ Resolve(m) \/ CreateEntity(m) \/ ApplyAdditions(m) \/ Commit(m)
  BY <1>4 DEF ReadExtraction, ReadInputs, Delete, DeleteWait, Resolve, CreateEntity,
              ApplyAdditions, Commit
<1> QED BY <1>1, <1>2, <1>3, <1>4 DEF Moves, Step

-----------------------------------------------------------------------------
(* What the handler that is served alone has found holds after its next    *)
(* statement.                                                              *)
LEMMA DemotesAtOnce ==
    ASSUME TypeOK, NEW m \in Handlers, \A g \in Others(m) : txn[g] = NoTxn, Demote(m)
    PROVE  /\ pc'[m] = AfterDemote(m) /\ work'[m] = work[m]
           /\ txn'[m].demoted = UNION {ActiveOf(s) : s \in DemotionScope(m)}
           /\ txn'[m].promoted = txn[m].promoted
<1>1. PICK victims : victims = UNION {ActiveOf(s) : s \in DemotionScope(m)}
  OBVIOUS
<1>2. \A g \in Others(m) : txn[g].demoted \cap victims = {}
  BY DEF NoTxn
<1>3. /\ txn' = [txn EXCEPT ![m].demoted = victims]
      /\ Goto(m, AfterDemote(m)) /\ UNCHANGED work
  BY <1>1, <1>2 DEF Demote
<1>4. txn'[m].demoted = victims /\ txn'[m].promoted = txn[m].promoted
  BY <1>3 DEF TypeOK, Txn
<1>5. pc'[m] = AfterDemote(m)
  BY <1>3 DEF Goto, TypeOK
<1> QED BY <1>1, <1>3, <1>4, <1>5

LEMMA DeletesAtOnce ==
    ASSUME TypeOK, NEW m \in Handlers, \A g \in Others(m) : txn[g] = NoTxn, Delete(m)
    PROVE  Deleted(m, {r \in canonical : r.source = Head(work[m].queue)
                                         /\ r.table = work[m].table})
<1>1. PICK victims : victims = {r \in canonical : r.source = Head(work[m].queue)
                                                  /\ r.table = work[m].table}
  OBVIOUS
<1>2. \A g \in Others(m) : txn[g].deleted \cap victims = {}
  BY DEF NoTxn
<1> QED BY <1>1, <1>2 DEF Delete

LEMMA CheckedStep ==
    ASSUME IType, NEW m \in Handlers, Built(m), \A g \in Others(m) : txn[g] = NoTxn,
           Checked(m), Step(m), pc'[m] # "done"
    PROVE  Checked(m)'
<1>0. TypeOK /\ RequestAt(m) /\ txn[m] \in Txn /\ work[m] \in Work
  BY DEF IType, TypeOK
<1>1. UNCHANGED <<db, req>>
  BY StillServed
<1>2. /\ SourcesOf(req[m].transcript)' = SourcesOf(req[m].transcript)
      /\ \A s : ActiveOf(s)' = ActiveOf(s)
  BY <1>1 DEF db, SourcesOf, ActiveOf
<1>3. CASE pc[m] \notin Composing \cup {"read_extraction"}
  <2>1. pc'[m] \notin Composing
    BY <1>3, LabelsBefore
  <2>2. pc'[m] # "demote_wait"
    <3>1. SUFFICES ASSUME Demote(m) PROVE pc'[m] # "demote_wait"
      BY <1>3, LabelsBefore
    <3> QED BY <1>0, <3>1, DemotesAtOnce DEF AfterDemote
  <2>3. txn'[m].created => SourcesOf(req[m].transcript)' = {}
    BY <1>2, <1>3, BeforeComposing DEF CreateSource, Checked
  <2>4. pc'[m] = "insert_transcript" => transcript'[req'[m].transcript] = NoText
    <3>1. SUFFICES ASSUME FindTranscript(m), pc'[m] = "insert_transcript"
                   PROVE  transcript[req[m].transcript] = NoText
      BY <1>1, <1>3, LabelsBefore DEF db
    <3> QED BY <1>0, <3>1 DEF FindTranscript, Goto, TypeOK
  <2>5. ASSUME pc'[m] = "insert_extraction"
        PROVE  ActiveOf(work[m].target)' \subseteq txn'[m].demoted
    <3>1. Demote(m)
      BY <1>3, <2>5, LabelsBefore DEF Checked, DemoteWait
    <3>2. /\ pc'[m] = AfterDemote(m) /\ work'[m] = work[m]
          /\ txn'[m].demoted = UNION {ActiveOf(s) : s \in DemotionScope(m)}
      BY <1>0, <3>1, DemotesAtOnce
    <3>3. DemotionScope(m) = {work[m].target}
      BY <2>5, <3>2 DEF AfterDemote, DemotionScope
    <3>4. PICK t : t = work[m].target
      OBVIOUS
    <3>5. ActiveOf(t)' \subseteq txn'[m].demoted
      BY <1>2, <3>2, <3>3, <3>4
    <3>6. work'[m].target = t
      BY <3>2, <3>4
    <3> QED BY <3>5, <3>6 DEF ActiveOf
  <2> QED BY <2>1, <2>2, <2>3, <2>4, <2>5 DEF Checked, Composing
<1>4. CASE pc[m] \in Composing \cup {"read_extraction"}
  <2>1. txn'[m].created = txn[m].created
        /\ pc'[m] \in Composing \cup {"read_extraction", "commit"}
    <3>1. CASE StaysAtHead(m)
      BY <3>1 DEF StaysAtHead
    <3>2. CASE LeavesHead(m)
      BY <1>0, <3>2 DEF LeavesHead, NextSource, Goto, TypeOK
    <3> QED BY <1>4, <3>1, <3>2, WhileComposing
  <2>2. txn'[m].created => SourcesOf(req[m].transcript)' = {}
    BY <1>2, <2>1 DEF Checked
  <2>3. ASSUME pc'[m] \in {"create_entity", "delete_wait"}
        PROVE  pc'[m] = "create_entity" /\ work'[m].name \notin entities
    <3>1. CASE ReadExtraction(m) \/ ApplyAdditions(m)
      BY <1>0, <2>3, <3>1 DEF ReadExtraction, ApplyAdditions, NextSource, Goto, EndWith, TypeOK
    <3>2. CASE ReadInputs(m) \/ CreateEntity(m)
      BY <1>0, <2>3, <3>2 DEF ReadInputs, CreateEntity, Goto, EndWith, TypeOK
    <3>3. CASE Delete(m)
      <4>1. PICK rows : Deleted(m, rows)
        BY <1>0, <3>3, DeletesAtOnce
      <4>2. pc'[m] \in {"resolve", "delete"}
        BY <1>0, <4>1 DEF Deleted, Goto, TypeOK
      <4> QED BY <2>3, <4>2
    <3>4. CASE Resolve(m)
      <4>0. pc[m] = "resolve"
        BY <3>4 DEF Resolve
      <4>1. pc'[m] = "create_entity"
        BY <1>0, <2>3, <3>4, <4>0, ResolveCases DEF TypeOK
      <4>2. PICK n : /\ n \notin VisibleNames(m)
                     /\ work' = [work EXCEPT ![m].name = n]
        <5>1. pc' # pc /\ pc'[m] # "apply_additions"
          BY <4>0, <4>1
        <5>2. ~Goto(m, "apply_additions")
          BY <1>0, <5>1 DEF Goto, TypeOK
        <5> QED BY <3>4, <5>1, <5>2 DEF Resolve
      <4>3. work'[m].name = n
        BY <1>0, <4>2 DEF TypeOK, Work
      <4> QED BY <4>1, <4>2, <4>3 DEF VisibleNames
    <3> QED
      BY <1>4, <3>1, <3>2, <3>3, <3>4
         DEF Step, FindTranscript, InsertTranscript, GetTranscript, CreateSource,
             ReuseSource, SaveSource, Demote, DemoteWait, InsertExtraction, GetSource,
             StoreInput, Commit, DeleteWait, Checked, Composing
  <2> QED BY <1>1, <2>1, <2>2, <2>3 DEF Checked, Composing, db
<1> QED BY <1>3, <1>4

(* What a handler sees does not change while it stays at a source, or goes *)
(* on to the next one.                                                     *)
LEMMA SameView ==
    ASSUME NEW m, NEW I,
           UNCHANGED <<db, req>>, work'[m].target = work[m].target,
           txn'[m].stored = txn[m].stored, txn'[m].demoted = txn[m].demoted,
           txn'[m].promoted = txn[m].promoted
    PROVE  /\ VisibleInputs(m)' = VisibleInputs(m)
           /\ \A s : VisibleActive(m, s)' = VisibleActive(m, s) /\ DueTo(m, s)' = DueTo(m, s)
           /\ \A s, e : Batch(s, m, e, I)' = Batch(s, m, e, I)
           /\ \A i, s : AppliesTo(i, s)' <=> AppliesTo(i, s)
<1>1. VisibleInputs(m)' = VisibleInputs(m)
  BY DEF VisibleInputs, db
<1>2. \A i, s : AppliesTo(i, s)' <=> AppliesTo(i, s)
  BY DEF AppliesTo
<1>3. \A s : VisibleActive(m, s)' = VisibleActive(m, s)
  BY DEF VisibleActive, ActiveOf, db
<1>4. \A s : DueTo(m, s)' = DueTo(m, s)
  BY <1>1, <1>2 DEF DueTo
<1>5. \A s, e : Batch(s, m, e, I)' = Batch(s, m, e, I)
  BY DEF Batch, TablesOf, IsAddition
<1> QED BY <1>1, <1>2, <1>3, <1>4, <1>5

(* The sources it is done with stay as they are.                           *)
LEMMA DoneWithKept ==
    ASSUME NEW m \in Handlers, NEW s \in Handlers, Left(m, s) \/ Renewed(m, s),
           UNCHANGED <<db, req>>, work'[m].target = work[m].target,
           txn'[m].stored = txn[m].stored, txn'[m].demoted = txn[m].demoted,
           txn'[m].promoted = txn[m].promoted,
           RowsOf(txn'[m].added, s) = RowsOf(txn[m].added, s),
           RowsOf(txn'[m].deleted, s) = RowsOf(txn[m].deleted, s),
           txn[m].deleted \subseteq txn'[m].deleted
    PROVE  Left(m, s)' \/ Renewed(m, s)'
<1>1. inputs' = inputs /\ active' = active /\ canonical' = canonical
  BY DEF db
<1>2. CASE Left(m, s)
  <2>1. /\ RowsOf(txn[m].deleted, s)' = {} /\ RowsOf(txn[m].added, s)' = {}
    BY <1>2 DEF Left, RowsOf
  <2>2. VisibleActive(m, s)' = VisibleActive(m, s) /\ DueTo(m, s)' = DueTo(m, s)
    BY SameView
  <2> QED BY <1>1, <1>2, <2>1, <2>2 DEF Left
<1>3. CASE Renewed(m, s)
  <2>1. PICK e \in VisibleActive(m, s), I \in SUBSET VisibleInputs(m) :
           /\ DueTo(m, s) \subseteq I
           /\ \A i \in I : AppliesTo(i, s)
           /\ RowsOf(txn[m].added, s) = Batch(s, m, e, I)
           /\ RowsOf(canonical, s) \subseteq txn[m].deleted
    BY <1>3 DEF Renewed
  <2>2. /\ VisibleInputs(m)' = VisibleInputs(m)
        /\ VisibleActive(m, s)' = VisibleActive(m, s) /\ DueTo(m, s)' = DueTo(m, s)
        /\ Batch(s, m, e, I)' = Batch(s, m, e, I)
        /\ \A i \in I : AppliesTo(i, s)' <=> AppliesTo(i, s)
    BY SameView
  <2>3. RowsOf(canonical, s)' = RowsOf(canonical, s)
    BY <1>1 DEF RowsOf
  <2>4. RowsOf(txn[m].added, s)' = RowsOf(txn[m].added, s)
    BY DEF RowsOf
  <2>5. e \in VisibleActive(m, s)' /\ I \in SUBSET VisibleInputs(m)'
    BY <2>2
  <2>6. /\ DueTo(m, s)' \subseteq I /\ \A i \in I : AppliesTo(i, s)'
        /\ RowsOf(txn[m].added, s)' = Batch(s, m, e, I)'
        /\ RowsOf(canonical, s)' \subseteq txn'[m].deleted
    BY <2>1, <2>2, <2>3, <2>4
  <2> QED BY <2>5, <2>6 DEF Renewed
<1> QED BY <1>2, <1>3

(* The composition of a source makes progress.                             *)
LEMMA HeadStep ==
    ASSUME IType, NEW m \in Handlers, Built(m), Fresh(m), \A g \in Others(m) : txn[g] = NoTxn,
           pc[m] # "delete_wait", NEW s0 \in Handlers, s0 = Head(work[m].queue),
           HeadUnderway(m, s0), Step(m), StaysAtHead(m), UNCHANGED <<db, req>>
    PROVE  HeadUnderway(m, s0)'
<1>0. TypeOK /\ txn[m] \in Txn /\ work[m] \in Work
  BY DEF IType, TypeOK
<1>1. PICK A, D : A = VisibleActive(m, s0) /\ D = DueTo(m, s0)
  OBVIOUS
<1>2. A = VisibleActive(m, s0)' /\ D = DueTo(m, s0)'
  BY <1>1, SameView DEF StaysAtHead
<1>3. PICK C : C = RowsOf(canonical, s0) /\ C = RowsOf(canonical, s0)'
  BY DEF db, RowsOf
<1>4. \A r \in C : r \in canonical /\ r.source = s0 /\ r.table \in 1..Tables
  BY <1>0, <1>3 DEF RowsOf, TypeOK, CanonicalRow
<1>5. CASE ReadExtraction(m)
  <2>1. A # {}
    <3>1. ~NextSource(m)
      BY <1>0 DEF NextSource, StaysAtHead, Goto, TypeOK, Composing
    <3> QED BY <1>1, <1>5, <3>1 DEF ReadExtraction
  <2>2. PICK e \in A : work' = [work EXCEPT ![m].ext = e] /\ Goto(m, "read_inputs")
    BY <1>1, <1>5, <2>1 DEF ReadExtraction
  <2>3. work'[m].ext = e /\ pc'[m] = "read_inputs"
    BY <1>0, <2>2 DEF TypeOK, Work, Goto
  <2> QED BY <1>2, <2>3 DEF HeadUnderway
<1>6. CASE ReadInputs(m)
  <2>1. PICK S : /\ S = {i \in VisibleInputs(m) : AppliesTo(i, s0)}
                 /\ work' = [work EXCEPT ![m].seen = S] /\ Goto(m, "delete")
    BY <1>6 DEF ReadInputs
  <2>2. /\ work'[m].ext = work[m].ext /\ work'[m].seen = S
        /\ work'[m].table = work[m].table /\ pc'[m] = "delete" /\ pc[m] = "read_inputs"
    BY <1>0, <1>6, <2>1 DEF TypeOK, Work, Goto, ReadInputs
  <2>3. work'[m].table = 1 /\ work[m].ext \in A
    BY <1>1, <2>2 DEF Fresh, HeadUnderway, Composing
  <2>4. D \subseteq S
    BY <1>1, <2>1 DEF DueTo
  <2>5. \A r \in C : ~(r.table < 1)
    BY <1>4, ConstantsAssumption
  <2> QED BY <1>2, <1>3, <2>2, <2>3, <2>4, <2>5 DEF HeadUnderway
<1>7. CASE Delete(m)
  <2>0. work[m].ext \in A /\ D \subseteq work[m].seen /\ pc[m] = "delete"
    BY <1>1, <1>7 DEF HeadUnderway, Composing, Delete
  <2>1. PICK rows : /\ Deleted(m, rows)
                    /\ rows = {r \in canonical : r.source = s0 /\ r.table = work[m].table}
    BY <1>0, <1>7, DeletesAtOnce
  <2>2. /\ pc'[m] = IF work[m].table = Tables THEN "resolve" ELSE "delete"
        /\ txn'[m].deleted = txn[m].deleted \cup rows
        /\ work'[m].table = work[m].table + 1
        /\ work'[m].ext = work[m].ext /\ work'[m].seen = work[m].seen
    BY <1>0, <2>0, <2>1, DeletedStays DEF Composing
  <2>3. \A r \in C : r.table < work[m].table => r \in txn[m].deleted
    BY <1>3, <2>0 DEF HeadUnderway
  <2>4. \A r \in C : r.table = work[m].table => r \in rows
    BY <1>4, <2>1
  <2>5. work[m].table \in Nat
    BY <1>0 DEF Work
  <2>6. \A r \in C : r.table < work[m].table + 1 => r \in txn'[m].deleted
    BY <1>4, <2>2, <2>3, <2>4, <2>5, ConstantsAssumption
  <2>7. work[m].table = Tables => C \subseteq txn'[m].deleted
    BY <1>4, <2>6, ConstantsAssumption
  <2> QED BY <1>2, <1>3, <2>0, <2>2, <2>6, <2>7 DEF HeadUnderway
<1>8. CASE Resolve(m) \/ CreateEntity(m)
  <2>1. /\ work'[m].ext = work[m].ext /\ work'[m].seen = work[m].seen
        /\ pc'[m] \in {"resolve", "create_entity", "apply_additions"}
    <3>1. CASE Resolve(m)
      <4>1. work'[m].ext = work[m].ext /\ work'[m].seen = work[m].seen
        BY <1>0, <3>1 DEF Resolve, TypeOK, Work
      <4>2. pc[m] = "resolve"
        BY <3>1 DEF Resolve
      <4> QED BY <1>0, <3>1, <4>1, <4>2, ResolveCases DEF TypeOK
    <3>2. CASE CreateEntity(m)
      <4>1. pc'[m] # "done"
        BY DEF StaysAtHead, Composing
      <4>2. work' = [work EXCEPT ![m].name = NoOne, ![m].at = @ + 1] /\ Goto(m, "resolve")
        BY <1>0, <3>2, <4>1 DEF CreateEntity, EndWith, Goto, TypeOK
      <4> QED BY <1>0, <4>2 DEF TypeOK, Work, Goto
    <3> QED BY <1>8, <3>1, <3>2
  <2>2. pc[m] \in {"resolve", "create_entity"}
    BY <1>8 DEF Resolve, CreateEntity
  <2>3. work[m].ext \in A /\ D \subseteq work[m].seen /\ C \subseteq txn[m].deleted
    BY <1>1, <1>3, <2>2 DEF HeadUnderway, Composing
  <2>4. txn[m].deleted \subseteq txn'[m].deleted
    BY DEF StaysAtHead
  <2> QED BY <1>2, <1>3, <2>1, <2>3, <2>4 DEF HeadUnderway
<1>9. ~ApplyAdditions(m)
  BY <1>0 DEF ApplyAdditions, NextSource, EndWith, StaysAtHead, Goto, TypeOK, Composing
<1> QED
  BY <1>5, <1>6, <1>7, <1>8, <1>9
     DEF StaysAtHead, Step, FindTranscript, InsertTranscript, GetTranscript, CreateSource,
         ReuseSource, SaveSource, Demote, DemoteWait, InsertExtraction, GetSource,
         StoreInput, Commit, DeleteWait, Composing

(* A request that composes nothing, or not yet: whatever is not queued     *)
(* needs no composition.                                                   *)
LEMMA UnderwayBefore ==
    ASSUME IType, PromotedLate, NEW m \in Handlers, Built(m), Fresh(m),
           \A g \in Others(m) : txn[g] = NoTxn, pc[m] # "demote_wait",
           Step(m), pc'[m] # "done", pc[m] \notin Composing \cup {"read_extraction"}
    PROVE  Underway(m)'
<1>0. TypeOK /\ RequestAt(m) /\ txn[m] \in Txn /\ work[m] \in Work
  BY DEF IType, TypeOK
<1>1. UNCHANGED <<db, req>> /\ pc'[m] \notin Composing /\ pc[m] \notin Late
  BY StillServed, LabelsBefore DEF Late
<1>2. HeadUnderway(m, Head(work[m].queue))'
  BY <1>1 DEF HeadUnderway, Composing
<1>3. /\ txn[m].deleted = {} /\ txn[m].added = {} /\ ~txn[m].promoted /\ ~txn[m].stored
      /\ work[m].queue = <<>>
  BY <1>1 DEF Built, NothingWritten, QueueKept, PromotedLate, Fresh, Late
<1>4. txn'[m].deleted = {} /\ txn'[m].added = {}
  BY <1>3, BeforeComposing
<1>5. \A s : ActiveOf(s)' \subseteq active /\ inputs' = inputs /\ active' = active
  BY <1>1 DEF ActiveOf, db
<1>6. ASSUME pc'[m] \in Late, NEW s \in Handlers \ Queued(m)' PROVE Left(m, s)'
  <2>1. ASSUME ~StoreInput(m) PROVE VisibleInputs(m)' = inputs
    BY <1>3, <1>5, <2>1, BeforeComposing DEF VisibleInputs
  <2>2. ASSUME VisibleActive(m, s)' # {}
        PROVE  DueTo(m, s)' \subseteq inputs /\ VisibleActive(m, s)' \subseteq active
    <3>1. CASE Demote(m) \/ GetSource(m)
      <4>1. txn'[m].promoted = FALSE
        <5>1. CASE Demote(m)
          BY <1>0, <1>3, <5>1, DemotesAtOnce
        <5>2. CASE GetSource(m)
          <6>1. txn' = txn
            BY <1>0, <5>2, EndsFresh DEF GetSource
          <6> QED BY <1>3, <6>1 DEF Txn
        <5> QED BY <3>1, <5>1, <5>2
      <4>2. ~StoreInput(m)
        BY <3>1 DEF Demote, GetSource, StoreInput
      <4> QED BY <1>5, <2>1, <4>1, <4>2 DEF VisibleActive, DueTo
    <3>2. CASE InsertExtraction(m)
      <4>1. /\ txn' = [txn EXCEPT ![m].promoted = TRUE]
            /\ work' = [work EXCEPT ![m].queue = <<work[m].target>>]
        BY <1>0, <3>2, EndsFresh DEF InsertExtraction
      <4>2. work'[m].target = work[m].target /\ work'[m].queue = <<work[m].target>>
        BY <1>0, <4>1 DEF TypeOK, Work
      <4>3. work'[m].target \in Queued(m)'
        BY <4>2 DEF Queued
      <4>4. ~StoreInput(m) /\ work'[m].target # s
        BY <1>6, <3>2, <4>3 DEF InsertExtraction, StoreInput
      <4> QED BY <1>5, <2>1, <4>4 DEF VisibleActive, DueTo
    <3>3. CASE StoreInput(m)
      <4> DEFINE queued == CASE HasSource(req[m]) -> {req[m].source}
                             [] req[m].kind = "relation" -> {extraction[e] : e \in active}
                             [] OTHER -> {}
      <4>0. req[m] \in InputPost /\ pc[m] = "store_input"
        BY <1>0, <3>3 DEF RequestAt, StoreInput
      <4>1. queued \subseteq Handlers
        <5>1. HasSource(req[m]) => req[m].source \in Handlers
          BY <4>0, InputFields
        <5>2. {extraction[e] : e \in active} \subseteq Handlers
          BY <1>0 DEF IType, RowsOfRequests, TypeOK
        <5> QED BY <5>1, <5>2
      <4>2. PICK q \in Orders(queued) :
               work' = [work EXCEPT ![m].queue = q] /\ txn' = [txn EXCEPT ![m].stored = TRUE]
        BY <1>0, <3>3, EndsFresh DEF StoreInput
      <4>3. work'[m].queue = q /\ txn'[m].promoted = FALSE
        BY <1>0, <1>3, <4>2 DEF TypeOK, Work, Txn
      <4>4. Queued(m)' = queued
        <5> HIDE DEF queued
        <5>1. {q[i] : i \in DOMAIN q} = queued
          BY <4>1, <4>2, OrdersCover
        <5> QED BY <4>3, <5>1 DEF Queued
      <4>5. VisibleActive(m, s)' \subseteq {e \in active : extraction[e] = s}
        BY <1>1, <4>3 DEF VisibleActive, ActiveOf, db
      <4>6. VisibleInputs(m)' \subseteq inputs \cup {m} /\ req' = req
        BY <1>1, <1>5 DEF VisibleInputs
      <4>7. ~(/\ AppliesTo(m, s)
              /\ ~(req[m].kind = "addition" /\ req[m].source = NoOne))
        <5>1. s \notin queued
          BY <1>6, <4>4
        <5>2. req[m].kind = "relation" => s \in queued
          <6>1. \E e \in active : extraction[e] = s
            BY <2>2, <4>5
          <6> QED BY <6>1 DEF HasSource
        <5>3. HasSource(req[m]) => req[m].source # s
          BY <5>1 DEF HasSource
        <5>4. req[m].kind = "correction" => req[m].source # NoOne
          BY <4>0, ConstantsAssumption DEF InputPost, CorrectionPost, AdditionPost, RelationPost
        <5> QED BY <5>1, <5>2, <5>3, <5>4 DEF AppliesTo, HasSource
      <4>8. \A i : AppliesTo(i, s)' <=> AppliesTo(i, s)
        BY <4>6 DEF AppliesTo
      <4> QED BY <4>5, <4>6, <4>7, <4>8 DEF DueTo
    <3> QED BY <1>6, <3>1, <3>2, <3>3, LabelsBefore DEF DemoteWait
  <2> QED BY <1>4, <1>5, <2>2 DEF Left, RowsOf
<1> QED BY <1>2, <1>6 DEF Underway

LEMMA UnderwayComposing ==
    ASSUME IType, NEW m \in Handlers, Built(m), Fresh(m), \A g \in Others(m) : txn[g] = NoTxn,
           pc[m] # "delete_wait", Underway(m), Step(m), pc'[m] # "done",
           pc[m] \in Composing \cup {"read_extraction"}
    PROVE  Underway(m)'
<1>0. TypeOK /\ txn[m] \in Txn /\ work[m] \in Work /\ QueueKept(m) /\ work[m].queue # <<>>
  BY DEF IType, TypeOK, Built, ComposedAt
<1>1. UNCHANGED <<db, req>>
  BY StillServed
<1>2. PICK s0 \in Handlers : s0 = Head(work[m].queue) /\ s0 \in Queued(m)
  <2>1. work[m].queue \in Seq(Handlers)
    BY <1>0 DEF Work
  <2>2. Head(work[m].queue) \in Queued(m)
    BY <1>0, <2>1, QueueTail DEF QueueKept, Queued
  <2> QED BY <1>0, <2>1, <2>2
<1>3. \A s \in Handlers \ Queued(m) : Left(m, s) \/ Renewed(m, s)
  BY DEF Underway, Late
<1>4. HeadUnderway(m, s0)
  BY <1>2 DEF Underway
<1>5. CASE StaysAtHead(m)
  <2>1. Queued(m)' = Queued(m)
    BY <1>5 DEF StaysAtHead, Queued
  <2>2. HeadUnderway(m, s0)'
    BY <1>1, <1>2, <1>4, <1>5, HeadStep
  <2>3. s0 = Head(work'[m].queue)
    BY <1>2, <1>5 DEF StaysAtHead
  <2>4. HeadUnderway(m, Head(work[m].queue))'
    BY <2>2, <2>3 DEF HeadUnderway, DueTo, VisibleActive, RowsOf, AppliesTo, ActiveOf
  <2>5. ASSUME NEW s \in Handlers \ Queued(m)' PROVE Left(m, s)' \/ Renewed(m, s)'
    <3>1. s # s0 /\ s \in Handlers \ Queued(m)
      BY <1>2, <2>1
    <3>2. /\ RowsOf(txn'[m].added, s) = RowsOf(txn[m].added, s)
          /\ RowsOf(txn'[m].deleted, s) = RowsOf(txn[m].deleted, s)
      BY <1>2, <1>5, <3>1 DEF StaysAtHead, RowsOf
    <3> QED BY <1>1, <1>3, <1>5, <3>1, <3>2, DoneWithKept DEF StaysAtHead
  <2> QED BY <2>4, <2>5 DEF Underway
<1>6. CASE LeavesHead(m)
  <2>1. /\ Queued(m)' = Queued(m) \ {s0} /\ pc'[m] \in {"read_extraction", "commit"}
        /\ work'[m].target = work[m].target
    BY <1>0, <1>2, <1>6, NextQueue DEF LeavesHead
  <2>2. HeadUnderway(m, Head(work[m].queue))'
    BY <2>1 DEF HeadUnderway, Composing
  <2>3. RowsOf(txn[m].added, s0) = {}
    BY <1>2 DEF Built, SourcesKept, RowsOf
  <2>4. /\ VisibleActive(m, s0)' = VisibleActive(m, s0) /\ DueTo(m, s0)' = DueTo(m, s0)
        /\ VisibleInputs(m)' = VisibleInputs(m)
    BY <1>1, <1>6, <2>1, SameView DEF LeavesHead
  <2>5. Left(m, s0)' \/ Renewed(m, s0)'
    <3>1. CASE ReadExtraction(m)
      <4>1. VisibleActive(m, s0) = {} /\ txn'[m].added = txn[m].added
            /\ txn'[m].deleted = txn[m].deleted
        BY <1>2, <1>6, <3>1 DEF LeavesHead, ReadExtraction, ApplyAdditions
      <4>2. RowsOf(txn[m].deleted, s0) = {}
        BY <1>2, <3>1 DEF Built, HeadKept, ReadExtraction, RowsOf, Composing
      <4> QED BY <2>3, <2>4, <4>1, <4>2 DEF Left, RowsOf
    <3>2. CASE ApplyAdditions(m)
      <4>0. pc[m] = "apply_additions" /\ pc[m] \in Composing
        BY <3>2 DEF ApplyAdditions, Composing
      <4>1. PICK e \in VisibleActive(m, s0), I \in SUBSET VisibleInputs(m) :
               /\ e = work[m].ext /\ I = work[m].seen
               /\ \A i \in I : AppliesTo(i, s0)
        <5>1. work[m].ext \in VisibleActive(m, s0)
          BY <1>4, <4>0 DEF HeadUnderway
        <5>2. work[m].seen \subseteq Applicable(m, s0)
          BY <1>2, <4>0, AtHead
        <5> QED BY <5>1, <5>2 DEF Applicable
      <4>2. DueTo(m, s0) \subseteq I /\ RowsOf(canonical, s0) \subseteq txn[m].deleted
        BY <1>4, <4>0, <4>1 DEF HeadUnderway, Composing
      <4>3. /\ txn'[m].added = txn[m].added \cup Batch(s0, m, e, I)
            /\ txn'[m].deleted = txn[m].deleted
        BY <1>2, <1>6, <3>2, <4>1 DEF LeavesHead, ReadExtraction, ApplyAdditions
      <4>4. /\ Batch(s0, m, e, I)' = Batch(s0, m, e, I)
            /\ \A i \in I : AppliesTo(i, s0)' <=> AppliesTo(i, s0)
        BY <1>1, <1>6, <2>1, SameView DEF LeavesHead
      <4>5. RowsOf(txn[m].added, s0)' = Batch(s0, m, e, I)'
        <5>1. \A r \in Batch(s0, m, e, I) : r.source = s0
          BY DEF Batch
        <5> QED BY <2>3, <4>3, <4>4, <5>1 DEF RowsOf
      <4>6. RowsOf(canonical, s0)' \subseteq txn'[m].deleted
        BY <1>1, <4>2, <4>3 DEF RowsOf, db
      <4>7. /\ e \in VisibleActive(m, s0)' /\ I \in SUBSET VisibleInputs(m)'
            /\ DueTo(m, s0)' \subseteq I /\ \A i \in I : AppliesTo(i, s0)'
        BY <2>4, <4>1, <4>2, <4>4
      <4> QED BY <4>5, <4>6, <4>7 DEF Renewed
    <3> QED BY <1>6, <3>1, <3>2 DEF LeavesHead
  <2>6. ASSUME NEW s \in Handlers \ Queued(m)' PROVE Left(m, s)' \/ Renewed(m, s)'
    <3>1. CASE s = s0
      BY <2>5, <3>1
    <3>2. CASE s # s0
      <4>1. RowsOf(txn'[m].added, s) = RowsOf(txn[m].added, s)
        <5>1. \A r \in Batch(s0, m, work[m].ext, work[m].seen) : r.source # s
          BY <3>2 DEF Batch
        <5> QED BY <1>2, <1>6, <5>1 DEF LeavesHead, RowsOf
      <4> QED BY <1>1, <1>3, <1>6, <2>1, <2>6, <3>2, <4>1, DoneWithKept DEF LeavesHead
    <3> QED BY <3>1, <3>2
  <2> QED BY <2>2, <2>6 DEF Underway
<1> QED BY <1>5, <1>6, WhileComposing

LEMMA BeginsChecked ==
    ASSUME IType, NEW m \in Handlers, Fresh(m), Begin(m)
    PROVE  Checked(m)' /\ Underway(m)'
<1>1. /\ pc[m] = "idle" /\ txn'[m] = txn[m] /\ work'[m] = work[m]
      /\ pc'[m] \in {"find_transcript", "get_transcript", "get_source", "store_input"}
  BY EntryLabels DEF IType
<1>2. txn'[m] = NoTxn
  BY <1>1 DEF Fresh
<1> QED BY <1>1, <1>2 DEF Checked, Underway, HeadUnderway, Late, Composing, NoTxn

LEMMA SerialStep ==
    ASSUME IOne, IBuilt, ISerial, [Next]_vars
    PROVE  ISerial'
<1>0. IType /\ TypeOK /\ PromotedLate
  BY DEF IOne, IType
<1>1. IFresh'
  BY <1>0, FreshStep DEF ISerial
<1>2. ASSUME NEW m \in Handlers, Moves(m), Serial' PROVE IServed'
  <2>1. Serial /\ Alone /\ IFresh
    BY <1>2, PlanStays DEF Serial, ISerial, IServed
  <2>2. /\ Alone' /\ \A h \in InFlight' : h = m
        /\ ~Begin(m) => m \in InFlight
    BY <1>0, <1>2, <2>1, AloneStep
  <2>3. ASSUME m \in InFlight' PROVE Checked(m)' /\ Underway(m)'
    <3>1. CASE Begin(m)
      BY <1>0, <2>1, <3>1, BeginsChecked DEF IFresh
    <3>2. CASE ~Begin(m)
      <4>1. m \in InFlight /\ Checked(m) /\ Underway(m)
        BY <2>1, <2>2, <3>2 DEF ISerial, IServed
      <4>2. \A g \in Others(m) : txn[g] = NoTxn
        BY <1>0, <2>1, <4>1, NobodyElse
      <4>3. pc'[m] # "done"
        BY <2>3 DEF InFlight
      <4>4. Step(m)
        BY <1>0, <1>2, <3>2, <4>3, EndsFresh DEF Moves, BreakDeadlock, Crash
      <4>5. Checked(m)'
        BY <1>0, <4>1, <4>2, <4>3, <4>4, CheckedStep DEF IBuilt
      <4>6. pc[m] \notin {"demote_wait", "delete_wait"}
        BY <4>1 DEF Checked
      <4>7. Underway(m)'
        <5>1. CASE pc[m] \in Composing \cup {"read_extraction"}
          BY <1>0, <2>1, <4>1, <4>2, <4>3, <4>4, <4>6, <5>1, UnderwayComposing DEF IBuilt, IFresh
        <5>2. CASE pc[m] \notin Composing \cup {"read_extraction"}
          BY <1>0, <2>1, <4>1, <4>2, <4>3, <4>4, <4>6, <5>2, UnderwayBefore DEF IBuilt, IFresh
        <5> QED BY <5>1, <5>2
      <4> QED BY <4>5, <4>7
    <3> QED BY <3>1, <3>2
  <2>4. \A h \in InFlight' : Checked(h)' /\ Underway(h)'
    BY <2>2, <2>3
  <2> QED BY <2>2, <2>4 DEF IServed
<1>3. CASE UNCHANGED vars
  <2> USE <1>3 DEF vars, db
  <2>1. \A h \in Handlers : Checked(h) => Checked(h)'
    BY DEF Checked, SourcesOf, ActiveOf
  <2>2. ASSUME NEW h \in Handlers, Underway(h) PROVE Underway(h)'
    <3>1. \A s : HeadUnderway(h, s) => HeadUnderway(h, s)'
      BY DEF HeadUnderway, DueTo, VisibleActive, VisibleInputs, RowsOf, AppliesTo, ActiveOf
    <3>2. HeadUnderway(h, Head(work[h].queue))'
      BY <2>2, <3>1 DEF Underway, HeadUnderway, DueTo, VisibleActive, VisibleInputs, RowsOf,
                        AppliesTo, ActiveOf
    <3>3. Queued(h)' = Queued(h)
      BY DEF Queued
    <3>4. \A s \in Handlers : Left(h, s) \/ Renewed(h, s) => Left(h, s)' \/ Renewed(h, s)'
      BY DoneWithKept
    <3> QED BY <2>2, <3>2, <3>3, <3>4 DEF Underway
  <2>3. Serial' <=> Serial
    BY DEF Serial
  <2>4. InFlight' = InFlight
    BY DEF InFlight
  <2>5. \A h \in InFlight : h \in Handlers
    BY DEF InFlight
  <2>6. Alone => Alone'
    BY <2>4 DEF Alone
  <2>7. IServed => IServed'
    BY <2>1, <2>2, <2>4, <2>5, <2>6 DEF IServed
  <2> QED BY <1>1, <2>3, <2>7 DEF ISerial
<1> QED BY <1>1, <1>2, <1>3 DEF ISerial, Next, Quiet, Moves

LEMMA SerialInvariant == Spec => [](IOne /\ IBuilt /\ ISerial)
<1>1. Init => ISerial
  BY DEF Init, ISerial, IFresh, IServed, Alone, InFlight, Fresh, SourcesIngested, NoTxn, NoWork
<1>2. IOne /\ IBuilt /\ ISerial /\ [Next]_vars => ISerial'
  BY SerialStep
<1> QED BY <1>1, <1>2, BuiltInvariant, PTL DEF Spec

-----------------------------------------------------------------------------
(* The commit of the handler that is served alone.                         *)
LEMMA CommitIsCurrent ==
    ASSUME IOne, OneActiveExtraction', CanonicalCurrent, Serial, NEW m \in Handlers, Built(m),
           Underway(m), Commit(m), NEW e \in active', NEW s, s = extraction'[e]
    PROVE  \E h \in Handlers, I \in SUBSET inputs' :
              /\ Due(s)' \subseteq I
              /\ \A i \in I : AppliesTo(i, s)'
              /\ {r \in canonical' : r.source = s} = Batch(s, h, e, I)'
<1>0. IType /\ TypeOK /\ e \in Handlers
  <2>1. active' \subseteq active \cup {m}
    BY DEF Commit
  <2> QED BY <2>1 DEF IOne, IType, TypeOK
<1>1. pc[m] = "commit" /\ pc[m] \in Late /\ req' = req
  BY DEF Commit, Late
<1>2. Queued(m) = {}
  <2>1. work[m].queue = <<>>
    BY <1>1 DEF Built, QueueKept, Composing
  <2> QED BY <2>1, EmptyQueue
<1>3. /\ m \notin active /\ \A x \in Handlers \ {m} : extraction'[x] = extraction[x]
      /\ txn[m].promoted => extraction'[m] = work[m].target
      /\ active' = (active \ txn[m].demoted) \cup (IF txn[m].promoted THEN {m} ELSE {})
  BY <1>0, CommitRows
<1>4. s \in Handlers
  <2>1. IType'
    <3>1. Moves(m)
      BY DEF Moves, Step
    <3> QED BY <1>0, <3>1, ITypeStep DEF Next, Moves
  <2> QED BY <1>0, <2>1 DEF IType, RowsOfRequests
<1>5. VisibleActive(m, s) = {e}
  <2>1. e \in VisibleActive(m, s)
    BY <1>0, <1>3 DEF VisibleActive, ActiveOf
  <2>2. ASSUME NEW f \in VisibleActive(m, s) PROVE f = e
    <3>1. f \in active' /\ extraction'[f] = s
      BY <1>0, <1>3 DEF VisibleActive, ActiveOf, TypeOK
    <3> QED BY <3>1 DEF OneActiveExtraction
  <2> QED BY <2>1, <2>2
<1>6. inputs' = VisibleInputs(m)
  BY DEF Commit, VisibleInputs
<1>7. /\ Due(s)' = DueTo(m, s)
      /\ \A i : AppliesTo(i, s)' <=> AppliesTo(i, s)
      /\ \A h, I : Batch(s, h, e, I)' = Batch(s, h, e, I)
  <2>1. \A i : AppliesTo(i, s)' <=> AppliesTo(i, s)
    BY <1>1 DEF AppliesTo
  <2>2. \A h, I : Batch(s, h, e, I)' = Batch(s, h, e, I)
    BY <1>1 DEF Batch, TablesOf, IsAddition
  <2> QED BY <1>1, <1>6, <2>1, <2>2 DEF Due, DueTo
<1>8. canonical' = (canonical \ txn[m].deleted) \cup txn[m].added
  BY DEF Commit
<1>9. \E h \in Handlers, I \in SUBSET inputs' :
         /\ DueTo(m, s) \subseteq I
         /\ \A i \in I : AppliesTo(i, s)
         /\ {r \in canonical' : r.source = s} = Batch(s, h, e, I)
  <2>1. CASE Left(m, s)
    <3>1. {r \in canonical' : r.source = s} = {r \in canonical : r.source = s}
      BY <1>8, <2>1 DEF Left, RowsOf
    <3>2. e \in active /\ extraction[e] = s /\ DueTo(m, s) \subseteq inputs
      BY <1>0, <1>3, <1>5, <2>1 DEF Left
    <3>3. DueTo(m, s) \subseteq Due(s)
      BY <3>2 DEF DueTo, Due
    <3>4. PICK h \in Handlers, I \in SUBSET inputs :
             /\ Due(s) \subseteq I /\ \A i \in I : AppliesTo(i, s)
             /\ {r \in canonical : r.source = s} = Batch(s, h, e, I)
      BY <3>2 DEF CanonicalCurrent, Serial
    <3>5. I \in SUBSET inputs'
      BY <1>6 DEF VisibleInputs
    <3> QED BY <3>1, <3>3, <3>4, <3>5
  <2>2. CASE Renewed(m, s)
    <3>1. PICK f \in VisibleActive(m, s), I \in SUBSET VisibleInputs(m) :
             /\ DueTo(m, s) \subseteq I /\ \A i \in I : AppliesTo(i, s)
             /\ RowsOf(txn[m].added, s) = Batch(s, m, f, I)
             /\ RowsOf(canonical, s) \subseteq txn[m].deleted
      BY <2>2 DEF Renewed
    <3>2. f = e
      BY <1>5
    <3>3. {r \in canonical' : r.source = s} = Batch(s, m, e, I)
      BY <1>8, <3>1, <3>2 DEF RowsOf
    <3> QED BY <1>6, <3>1, <3>3
  <2> QED BY <1>1, <1>2, <1>4, <2>1, <2>2 DEF Underway
<1>10. PICK h \in Handlers, I \in SUBSET inputs' :
         /\ DueTo(m, s) \subseteq I
         /\ \A i \in I : AppliesTo(i, s)
         /\ {r \in canonical' : r.source = s} = Batch(s, h, e, I)
  BY <1>9
<1>11. /\ Due(s)' \subseteq I /\ \A i \in I : AppliesTo(i, s)'
       /\ {r \in canonical' : r.source = s} = Batch(s, h, e, I)'
  BY <1>7, <1>10
<1> QED BY <1>11

(* The rows of a source change with nothing but a commit.                  *)
LEMMA CurrentKept ==
    ASSUME IOne, CanonicalCurrent, Serial, NEW m \in Handlers, Moves(m), ~Commit(m),
           NEW e \in active, NEW s, s = extraction[e]
    PROVE  \E h \in Handlers, I \in SUBSET inputs :
              /\ Due(s)' \subseteq I
              /\ \A i \in I : AppliesTo(i, s)'
              /\ {r \in canonical : r.source = s} = Batch(s, h, e, I)'
<1>0. IType /\ TypeOK
  BY DEF IOne, IType
<1>1. inputs' = inputs
  BY RowsWritten
<1>2. PICK h \in Handlers, I \in SUBSET inputs :
         /\ Due(s) \subseteq I /\ \A i \in I : AppliesTo(i, s)
         /\ {r \in canonical : r.source = s} = Batch(s, h, e, I)
  BY DEF CanonicalCurrent, Serial
<1>3. \A i \in inputs : i \in Handlers /\ req'[i] = req[i]
  <2>1. \A i \in inputs : i \in Handlers /\ req[i] \in Request
    BY <1>0 DEF IType, RowsOfRequests, TypeOK, InputPost, Request
  <2> QED BY <1>0, <2>1, RequestsStay
<1>4. req'[e] = req[e]
  <2>1. e \in Handlers /\ req[e] \in Request
    BY <1>0 DEF IType, RowsOfRequests, TypeOK, Request
  <2> QED BY <1>0, <2>1, RequestsStay
<1>5. \A i \in inputs : AppliesTo(i, s)' <=> AppliesTo(i, s)
  BY <1>3 DEF AppliesTo
<1>6. Due(s)' = Due(s)
  BY <1>1, <1>3, <1>5 DEF Due
<1>7. Batch(s, h, e, I)' = Batch(s, h, e, I)
  BY <1>3, <1>4 DEF Batch, TablesOf, IsAddition
<1> QED BY <1>2, <1>5, <1>6, <1>7

LEMMA CurrentStep ==
    ASSUME IOne, IOne', IBuilt, ISerial, CanonicalCurrent, [Next]_vars
    PROVE  CanonicalCurrent'
<1>1. ASSUME NEW m \in Handlers, Moves(m), Serial, NEW e \in active'
      PROVE  LET s == extraction[e]
             IN  (\E h \in Handlers, I \in SUBSET inputs :
                     /\ Due(s) \subseteq I
                     /\ \A i \in I : AppliesTo(i, s)
                     /\ {r \in canonical : r.source = s} = Batch(s, h, e, I))'
  <2>1. PICK s : s = extraction'[e]
    OBVIOUS
  <2>2. \E h \in Handlers, I \in SUBSET inputs' :
           /\ Due(s)' \subseteq I
           /\ \A i \in I : AppliesTo(i, s)'
           /\ {r \in canonical' : r.source = s} = Batch(s, h, e, I)'
    <3>1. CASE Commit(m)
      <4>1. m \in InFlight
        BY <3>1 DEF Commit, InFlight
      <4>2. Underway(m) /\ Built(m) /\ OneActiveExtraction'
        BY <1>1, <4>1 DEF ISerial, IServed, IBuilt, IOne
      <4> QED BY <1>1, <2>1, <3>1, <4>2, CommitIsCurrent
    <3>2. CASE ~Commit(m)
      <4>1. UNCHANGED <<sources, extraction, active, inputs, entities, canonical>>
        BY <1>1, <3>2, RowsWritten
      <4>2. \E h \in Handlers, I \in SUBSET inputs :
               /\ Due(s)' \subseteq I
               /\ \A i \in I : AppliesTo(i, s)'
               /\ {r \in canonical : r.source = s} = Batch(s, h, e, I)'
        BY <1>1, <2>1, <3>2, <4>1, CurrentKept
      <4> QED BY <4>1, <4>2
    <3> QED BY <3>1, <3>2
  <2>3. PICK h \in Handlers, I \in SUBSET inputs' :
           /\ Due(s)' \subseteq I
           /\ \A i \in I : AppliesTo(i, s)'
           /\ {r \in canonical' : r.source = s} = Batch(s, h, e, I)'
    BY <2>2
  <2>4. Due(extraction[e])' = Due(s)'
    BY <2>1 DEF Due, AppliesTo
  <2>5. \A i \in I : AppliesTo(i, extraction[e])'
    BY <2>1, <2>3 DEF AppliesTo
  <2>6. Batch(extraction[e], h, e, I)' = Batch(s, h, e, I)'
    BY <2>1 DEF Batch
  <2> QED BY <2>1, <2>3, <2>4, <2>5, <2>6
<1>2. ASSUME NEW m \in Handlers, Moves(m) PROVE CanonicalCurrent'
  <2>1. Serial' <=> Serial
    BY <1>2, PlanStays DEF Serial
  <2> QED BY <1>1, <1>2, <2>1 DEF CanonicalCurrent, Serial
<1>3. CASE UNCHANGED vars
  BY <1>3 DEF vars, db, CanonicalCurrent, Due, AppliesTo, Batch, TablesOf, IsAddition
<1> QED BY <1>2, <1>3 DEF Next, Quiet, Moves

(* Served one at a time, the canonical rows of every source with an active *)
(* extraction are one composition of it with everything that is due.       *)
THEOREM RowsAreCurrent == Spec => []CanonicalCurrent
<1>1. Init => CanonicalCurrent
  BY DEF Init, CanonicalCurrent
<1> QED BY <1>1, CurrentStep, SerialInvariant, PTL DEF Spec

(* Served one at a time, no transcript has two sources: a handler inserts  *)
(* one only after it has found none, and nobody else inserts one before it *)
(* commits.                                                                *)
THEOREM SourcesAreUnique == Spec => []OneSourcePerTranscript
<1>1. Init => OneSourcePerTranscript
  BY DEF Init, OneSourcePerTranscript
<1>2. ASSUME IOne, ISerial, OneSourcePerTranscript, [Next]_vars
      PROVE  OneSourcePerTranscript'
  <2>0. IType /\ TypeOK
    BY <1>2 DEF IOne, IType
  <2>1. ASSUME NEW m \in Handlers, Moves(m) PROVE OneSourcePerTranscript'
    <3>1. Serial' <=> Serial
      BY <2>1, PlanStays DEF Serial
    <3>2. \A s \in sources : req'[s] = req[s]
      <4>1. \A s \in sources : s \in Handlers /\ req[s] \in Request
        BY <1>2, <2>0 DEF ISerial, IFresh, SourcesIngested, TypeOK, Request
      <4> QED BY <2>0, <2>1, <4>1, RequestsStay
    <3>3. CASE Commit(m) /\ Serial
      <4>1. sources' \subseteq sources \cup {m} /\ req' = req
            /\ (m \in sources' => m \in sources \/ txn[m].created)
        BY <3>3 DEF Commit
      <4>2. txn[m].created => SourcesOf(req[m].transcript) = {}
        <5>1. m \in InFlight
          BY <3>3 DEF Commit, InFlight
        <5> QED BY <1>2, <3>3, <5>1 DEF ISerial, IServed, Checked
      <4> QED BY <1>2, <3>3, <4>1, <4>2 DEF OneSourcePerTranscript, SourcesOf, Serial
    <3>4. CASE ~Commit(m)
      <4>1. sources' = sources
        BY <2>1, <3>4, RowsWritten
      <4> QED BY <1>2, <3>1, <3>2, <4>1 DEF OneSourcePerTranscript, Serial
    <3> QED BY <3>1, <3>3, <3>4 DEF OneSourcePerTranscript, Serial
  <2>2. CASE UNCHANGED vars
    BY <1>2, <2>2 DEF vars, db, OneSourcePerTranscript
  <2> QED BY <1>2, <2>1, <2>2 DEF Next, Quiet, Moves
<1> QED BY <1>1, <1>2, SerialInvariant, PTL DEF Spec

(* Which statements answer 500.                                            *)
LEMMA WhoFails ==
    ASSUME IType, NEW m \in Handlers, Moves(m), answer'[m] = "500", answer[m] # "500"
    PROVE  \/ InsertTranscript(m) /\ transcript[req[m].transcript] # NoText
           \/ InsertExtraction(m) /\ ~(ActiveOf(work[m].target) \subseteq txn[m].demoted)
           \/ StoreInput(m) /\ HasSource(req[m]) /\ req[m].source \notin sources
           \/ CreateEntity(m) /\ work[m].name \in entities
           \/ /\ ApplyAdditions(m)
              /\ \E i \in work[m].seen : IsAddition(i) /\ ~(req[i].refs \subseteq VisibleNames(m))
           \/ BreakDeadlock(m)
<1>0. answer \in [Handlers -> {"none", "200", "201", "403", "404", "500", "lost"}]
  BY DEF IType, TypeOK
<1>1. ASSUME NEW code, code # "500", EndWith(m, code) PROVE FALSE
  BY <1>0, <1>1 DEF EndWith
<1>2. answer' # answer
  OBVIOUS
<1>3. CASE FindTranscript(m) \/ GetTranscript(m) \/ CreateSource(m) \/ ReuseSource(m)
           \/ SaveSource(m) \/ Begin(m) \/ Crash(m)
  BY <1>1, <1>2, <1>3 DEF FindTranscript, GetTranscript, CreateSource, ReuseSource, SaveSource,
                          Begin, Crash
<1>4. CASE Demote(m) \/ DemoteWait(m) \/ GetSource(m)
  BY <1>1, <1>2, <1>4 DEF Demote, DemoteWait, GetSource
<1>5. CASE ReadExtraction(m) \/ ReadInputs(m) \/ Delete(m) \/ DeleteWait(m) \/ Resolve(m)
  BY <1>2, <1>5 DEF ReadExtraction, ReadInputs, Delete, DeleteWait, Resolve
<1>6. CASE InsertTranscript(m)
  BY <1>0, <1>6 DEF InsertTranscript
<1>7. CASE InsertExtraction(m) \/ StoreInput(m) \/ CreateEntity(m) \/ ApplyAdditions(m)
  BY <1>2, <1>7 DEF InsertExtraction, StoreInput, CreateEntity, ApplyAdditions
<1>8. ~Commit(m)
  BY <1>0 DEF Commit
<1> QED BY <1>3, <1>4, <1>5, <1>6, <1>7, <1>8 DEF Moves, Step

LEMMA OthersAnswers ==
    ASSUME NEW m \in Handlers, Moves(m), TypeOK
    PROVE  \A h \in Handlers \ {m} : answer'[h] = answer[h]
<1> USE DEF EndWith, TypeOK
<1>1. CASE Begin(m) \/ BreakDeadlock(m) \/ Crash(m)
  BY <1>1 DEF Begin, BreakDeadlock, Crash
<1>2. CASE FindTranscript(m) \/ InsertTranscript(m) \/ GetTranscript(m) \/ CreateSource(m)
           \/ ReuseSource(m) \/ SaveSource(m)
  BY <1>2 DEF FindTranscript, InsertTranscript, GetTranscript, CreateSource, ReuseSource,
              SaveSource
<1>3. CASE Demote(m) \/ DemoteWait(m) \/ InsertExtraction(m) \/ GetSource(m) \/ StoreInput(m)
  BY <1>3 DEF Demote, DemoteWait, InsertExtraction, GetSource, StoreInput
<1>4. CASE ReadExtraction(m) \/ ReadInputs(m) \/ Delete(m) \/ DeleteWait(m)
           \/ Resolve(m) \/ CreateEntity(m) \/ ApplyAdditions(m) \/ Commit(m)
  BY <1>4 DEF ReadExtraction, ReadInputs, Delete, DeleteWait, Resolve, CreateEntity,
              ApplyAdditions, Commit
<1> QED BY <1>1, <1>2, <1>3, <1>4 DEF Moves, Step

(* Served one at a time, a request fails only for what it asks: the unique *)
(* keys that race with a lookup hold what the lookup has found, and no     *)
(* transaction waits for another.                                          *)
THEOREM FailuresAreExplained == Spec => FailuresExplained
<1>1. ASSUME IOne, IBuilt, ISerial, [Next]_vars PROVE [FailureExplained]_vars
  <2> SUFFICES ASSUME ~UNCHANGED vars, Serial, NEW h \in Handlers,
                      answer'[h] = "500", answer[h] # "500"
               PROVE  \/ HasSource(req[h]) /\ req[h].source \notin sources
                      \/ \E i \in inputs \cup {h} :
                            IsAddition(i) /\ ~(req[i].refs \subseteq entities)
    BY DEF FailureExplained, Serial
  <2>0. IType /\ TypeOK
    BY <1>1 DEF IOne, IType
  <2>1. Moves(h)
    <3>1. PICK m \in Handlers : Moves(m)
      BY <1>1 DEF Next, Quiet, Moves
    <3> QED BY <2>0, <3>1, OthersAnswers
  <2>2. ~Begin(h)
    BY DEF Begin
  <2>3. h \in InFlight /\ Checked(h) /\ Alone /\ IFresh
    BY <1>1, <2>1, <2>2, StepRuns DEF Moves, InFlight, ISerial, IServed
  <2>4. ~BreakDeadlock(h)
    <3>1. BlockedBy(h) = {}
      BY <2>0, <2>3, NobodyElse DEF Checked
    <3> QED BY <3>1 DEF BreakDeadlock, Deadlocked
  <2>5. CASE StoreInput(h) /\ HasSource(req[h]) /\ req[h].source \notin sources
    BY <2>5
  <2>6. CASE /\ ApplyAdditions(h)
             /\ \E i \in work[h].seen : IsAddition(i) /\ ~(req[i].refs \subseteq VisibleNames(h))
    <3>1. work[h].seen \subseteq VisibleInputs(h)
      <4>1. pc[h] \in Composing
        BY <2>6 DEF ApplyAdditions, Composing
      <4> QED BY <1>1, <2>0, <4>1, AtHead DEF IBuilt, Applicable
    <3>2. VisibleInputs(h) \subseteq inputs \cup {h} /\ entities \subseteq VisibleNames(h)
      BY DEF VisibleInputs, VisibleNames
    <3> QED BY <2>6, <3>1, <3>2
  <2>7. ~(InsertTranscript(h) /\ transcript[req[h].transcript] # NoText)
    BY <2>3 DEF InsertTranscript, Checked
  <2>8. ~(InsertExtraction(h) /\ ~(ActiveOf(work[h].target) \subseteq txn[h].demoted))
    BY <2>3 DEF InsertExtraction, Checked
  <2>9. ~(CreateEntity(h) /\ work[h].name \in entities)
    BY <2>3 DEF CreateEntity, Checked
  <2> QED BY <2>0, <2>1, <2>4, <2>5, <2>6, <2>7, <2>8, <2>9, WhoFails
<1> QED BY <1>1, SerialInvariant, PTL DEF Spec, FailuresExplained
=============================================================================
