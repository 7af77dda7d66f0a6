-------------------------- MODULE WikiViewsProofs ---------------------------
(* What CanonicalLayer's publications keep of the layer, that the writers  *)
(* of WikiViews are such publications, and what readers are shown while    *)
(* they publish, for any number of readers, sources, tables and writers.   *)
EXTENDS WikiViews, FiniteSetTheorems, TLAPS

-----------------------------------------------------------------------------
(* What publications imply of the layer, whoever publishes and however     *)
(* often.                                                                  *)
LayerInv == LayerTypeOK /\ LayerTraceable /\ LayerWhole

(* What is stored before a publication composes to the same rows after it. *)
LEMMA CompositionKept ==
    ASSUME LayerTypeOK, Grows, NEW e \in Stored, NEW I \in SUBSET Given, NEW s, NEW h
    PROVE  /\ e \in Stored' /\ I \in SUBSET Given'
           /\ stored'[e] = stored[e]
           /\ Composition(s, h, e, I)' = Composition(s, h, e, I)
<1>1. e \in Ids /\ stored[e] # None /\ \A i \in I : i \in Ids /\ given[i] # None
  BY DEF Stored, Given
<1>2. stored'[e] = stored[e] /\ \A i \in I : given'[i] = given[i]
  BY <1>1 DEF Grows
<1>3. e \in Stored' /\ I \in SUBSET Given'
  BY <1>1, <1>2 DEF Stored, Given
<1>4. UNION {given'[i] : i \in I} = UNION {given[i] : i \in I}
  BY <1>2
<1> QED BY <1>2, <1>3, <1>4 DEF Composition

LEMMA TraceableStep ==
    ASSUME LayerInv, NEW h \in Ids, Publish(h)
    PROVE  LayerTraceable'
<1> SUFFICES ASSUME NEW r \in rows'
             PROVE  /\ r.ext \in Stored' /\ stored'[r.ext].source = r.source
                    /\ r.inputs \subseteq Given'
  BY DEF LayerTraceable
<1>1. ASSUME r \in rows PROVE /\ r.ext \in Stored' /\ stored'[r.ext].source = r.source
                              /\ r.inputs \subseteq Given'
  <2>1. r.ext \in Stored /\ stored[r.ext].source = r.source /\ r.inputs \in SUBSET Given
    BY <1>1 DEF LayerInv, LayerTraceable
  <2> QED BY <2>1, CompositionKept DEF LayerInv, Publish
<1>2. CASE r \notin rows
  <2>1. r.source \in Ids /\ r \in RowsOf(r.source)' /\ r \notin RowsOf(r.source)
    BY <1>2 DEF Publish, Row, RowsOf
  <2>2. Replaces(h, r.source)
    BY <2>1 DEF Publish
  <2>3. PICK e \in Stored', I \in SUBSET Given' :
           /\ stored'[e].source = r.source
           /\ RowsOf(r.source)' \subseteq RowsOf(r.source) \cup Composition(r.source, h, e, I)'
    BY <2>2 DEF Replaces
  <2>4. r \in Composition(r.source, h, e, I)'
    BY <2>1, <2>3
  <2>5. r.ext = e /\ r.inputs = I
    BY <2>4 DEF Composition
  <2> QED BY <2>3, <2>5
<1> QED BY <1>1, <1>2

LEMMA WholeStep ==
    ASSUME LayerInv, NEW h \in Ids, Publish(h)
    PROVE  LayerWhole'
<1> SUFFICES ASSUME NEW e \in Stored', NEW s \in Ids, s = stored'[e].source
             PROVE  \E q \in Ids : Composed(q, s)'
  <2>1. ASSUME NEW e \in Stored' PROVE stored'[e].source \in Ids
    BY DEF Publish, Stored, Extraction
  <2> QED BY <2>1 DEF LayerWhole, Composed, Composition
<1>3. CASE Replaces(h, s)
  BY <1>3 DEF Replaces, Composed
<1>4. CASE ~Replaces(h, s)
  <2>1. RowsOf(s)' = RowsOf(s) /\ \A f \in Stored' \ Stored : stored'[f].source # s
    BY <1>4 DEF Publish
  <2>2. e \in Stored
    BY <2>1
  <2>3. stored'[e] = stored[e]
    BY <2>2 DEF Publish, Grows, Stored
  <2>4. PICK q \in Ids : Composed(q, s)
    BY <2>2, <2>3 DEF LayerInv, LayerWhole
  <2>5. PICK f \in Stored, I \in SUBSET Given :
           stored[f].source = s /\ Composition(s, q, f, I) \subseteq rows
    BY <2>4 DEF Composed
  <2>6. /\ f \in Stored' /\ I \in SUBSET Given' /\ stored'[f] = stored[f]
        /\ Composition(s, q, f, I)' = Composition(s, q, f, I)
    <3>1. LayerTypeOK /\ Grows
      BY DEF LayerInv, Publish
    <3> QED BY <3>1, CompositionKept
  <2>7. Composition(s, q, f, I) \subseteq RowsOf(s)
    BY <2>5 DEF Composition, RowsOf
  <2>8. Composition(s, q, f, I)' \subseteq rows'
    BY <2>1, <2>6, <2>7 DEF RowsOf
  <2> QED BY <2>5, <2>6, <2>8 DEF Composed
<1> QED BY <1>3, <1>4

LEMMA LayerStep == LayerInv /\ [LayerNext]_layerVars => LayerInv'
<1> SUFFICES ASSUME LayerInv, [LayerNext]_layerVars PROVE LayerInv'
  OBVIOUS
<1>1. ASSUME NEW h \in Ids, Publish(h) PROVE LayerInv'
  BY <1>1, TraceableStep, WholeStep DEF LayerInv, LayerTypeOK, Publish
<1>2. CASE UNCHANGED layerVars
  <2>1. LayerTypeOK' /\ LayerTraceable'
    BY <1>2 DEF layerVars, LayerInv, LayerTypeOK, LayerTraceable, Stored, Given
  <2>2. \A q, s : Composed(q, s)' = Composed(q, s)
    BY <1>2 DEF layerVars, Composed, Composition, Stored, Given
  <2>3. LayerWhole'
    BY <1>2, <2>2 DEF layerVars, LayerInv, LayerWhole, Stored
  <2> QED BY <2>1, <2>3 DEF LayerInv
<1> QED BY <1>1, <1>2 DEF LayerNext

(* A reader of the layer never finds a source whose extraction is stored   *)
(* with part of its rows gone, nor a row that cannot be traced.            *)
THEOREM LayerIsWhole == LayerSpec => [](LayerWhole /\ LayerTraceable)
<1>1. LayerInit => LayerInv
  BY DEF LayerInit, LayerInv, LayerTypeOK, LayerTraceable, LayerWhole, Stored, Given
<1>2. LayerInv => LayerWhole /\ LayerTraceable
  BY DEF LayerInv
<1> QED BY <1>1, <1>2, LayerStep, PTL DEF LayerSpec

-----------------------------------------------------------------------------
(* The writers.                                                            *)

(* What is stored or given was so by a writer that has taken its id, and   *)
(* the entities it names are there.                                        *)
Known ==
    /\ Stored \cup Given \subseteq used
    /\ used \subseteq Ids
    /\ entities \subseteq Entities
    /\ \A i \in used : Mentions[i] \subseteq entities

(* What readers may rely on when a writer commits: it publishes in the     *)
(* sources of S, the sources of New begin to exist.                        *)
Effect(S, New) ==
    /\ New \subseteq S /\ S \subseteq Ids
    /\ \A s \in Ids \ S : RowsOf(s)' = RowsOf(s)
    /\ Sources \subseteq Sources' /\ Sources' \subseteq Sources \cup New
    /\ entities \subseteq entities'
    /\ UNCHANGED <<req, pc, answer, got>>
    /\ Remember(S, New)

LEMMA RewriteRows ==
    ASSUME LayerTypeOK, LayerTypeOK', NEW h \in Ids, NEW S \in SUBSET Ids, Rewrite(h, S)
    PROVE  /\ \A s \in S : Replaces(h, s)
           /\ \A s \in Ids \ S : RowsOf(s)' = RowsOf(s)
<1>1. PICK ext \in [S -> Stored'], I \in SUBSET Given', kept \in SUBSET {r \in rows : r.source \in S} :
        /\ \A s \in S : stored'[ext[s]].source = s
        /\ rows' = {r \in rows : r.source \notin S} \cup kept
                     \cup UNION {Composition(s, h, ext[s], I)' : s \in S}
  BY DEF Rewrite
<1>2. \A s, e : \A r \in Composition(s, h, e, I)' : r.source = s
  BY DEF Composition
<1>3. ASSUME NEW s \in S PROVE Replaces(h, s)
  <2>1. ext[s] \in Stored' /\ stored'[ext[s]].source = s
    BY <1>1
  <2>2. Composition(s, h, ext[s], I)' \subseteq rows'
    BY <1>1
  <2>3. ASSUME NEW r \in RowsOf(s)' PROVE r \in RowsOf(s) \cup Composition(s, h, ext[s], I)'
    <3>1. r \in rows' /\ r.source = s
      BY DEF RowsOf
    <3>2. r \in kept \/ \E t \in S : r \in Composition(t, h, ext[t], I)'
      BY <1>1, <3>1
    <3> QED BY <1>1, <1>2, <3>1, <3>2 DEF RowsOf
  <2> QED BY <2>1, <2>2, <2>3 DEF Replaces
<1>4. ASSUME NEW s \in Ids \ S PROVE RowsOf(s)' = RowsOf(s)
  BY <1>1, <1>2 DEF RowsOf
<1> QED BY <1>3, <1>4

(* The type of rows' does not rest on LayerTypeOK'.                        *)
LEMMA RewriteType ==
    ASSUME LayerTypeOK, NEW h \in Ids, NEW S \in SUBSET Ids, Rewrite(h, S),
           stored' \in [Ids -> Extraction \cup {None}],
           given' \in [Ids -> (SUBSET Tables) \cup {None}]
    PROVE  LayerTypeOK'
<1>1. PICK ext \in [S -> Stored'], I \in SUBSET Given', kept \in SUBSET {r \in rows : r.source \in S} :
        rows' = {r \in rows : r.source \notin S} \cup kept
                  \cup UNION {Composition(s, h, ext[s], I)' : s \in S}
  BY DEF Rewrite
<1>2. I \subseteq Ids /\ \A i \in I : given'[i] \in SUBSET Tables
  BY <1>1 DEF Given
<1>3. ASSUME NEW s \in S PROVE Composition(s, h, ext[s], I)' \subseteq Row
  <2>1. ext[s] \in Ids /\ stored'[ext[s]].tables \subseteq Tables
    BY <1>1 DEF Stored, Extraction
  <2>2. s \in Ids
    OBVIOUS
  <2> QED BY <1>2, <2>1, <2>2 DEF Composition, Row
<1>4. rows' \subseteq Row
  BY <1>1, <1>3 DEF LayerTypeOK
<1> QED BY <1>4 DEF LayerTypeOK

LEMMA IngestPublishes ==
    ASSUME LayerTypeOK, Known, NEW h \in Ids, Ingest(h)
    PROVE  Publish(h) /\ LayerTypeOK' /\ Known' /\ \E S, New : Effect(S, New)
<1>1. PICK s \in Sources \cup {h}, show \in BOOLEAN :
         /\ stored' = [stored EXCEPT ![h] = [source |-> s, tables |-> Writes[h]]]
         /\ given' = given
         /\ Rewrite(h, {s})
         /\ Remember({s}, {s} \ Sources)
  BY DEF Ingest
<1>2. /\ h \notin used /\ used' = used \cup {h} /\ entities' = entities \cup Mentions[h]
      /\ Mentions[h] \subseteq Entities /\ Writes[h] \subseteq Tables
      /\ UNCHANGED <<req, pc, answer, got>>
  BY ConstantsAssumption DEF Ingest, Take
<1>3. Sources \subseteq Ids /\ s \in Ids /\ {s} \in SUBSET Ids
  BY <1>1 DEF Sources, Stored, LayerTypeOK, Extraction
<1>4. stored[h] = None
  BY <1>2 DEF Known, Stored
<1>5. /\ stored' \in [Ids -> Extraction \cup {None}]
      /\ stored'[h] = [source |-> s, tables |-> Writes[h]]
      /\ \A e \in Ids \ {h} : stored'[e] = stored[e]
  BY <1>1, <1>2, <1>3 DEF LayerTypeOK, Extraction
<1>6. LayerTypeOK'
  BY <1>1, <1>3, <1>5, RewriteType DEF LayerTypeOK
<1>7. Grows
  BY <1>1, <1>4, <1>5 DEF Grows
<1>8. Replaces(h, s) /\ \A q \in Ids \ {s} : RowsOf(q)' = RowsOf(q)
  BY <1>1, <1>3, <1>6, RewriteRows
<1>9. Stored \subseteq Stored' /\ Stored' \subseteq Stored \cup {h} /\ Given' = Given
  BY <1>1, <1>4, <1>5 DEF Stored, Given
<1>10. \A e \in Stored' \ Stored : stored'[e].source = s
  BY <1>5, <1>9
<1>11. Publish(h)
  BY <1>6, <1>7, <1>8, <1>10 DEF Publish, LayerTypeOK
<1>12. Known'
  BY <1>2, <1>9 DEF Known
<1>13. Sources \subseteq Sources' /\ Sources' \subseteq Sources \cup {s}
  <2>1. \A e \in Stored : e \in Stored' /\ stored'[e].source = stored[e].source
    BY <1>4, <1>5, <1>9 DEF Stored
  <2>2. \A e \in Stored' : stored'[e].source = s \/ (e \in Stored /\ stored'[e].source = stored[e].source)
    BY <1>10, <2>1
  <2> QED BY <2>1, <2>2 DEF Sources
<1>14. Effect({s}, {s} \ Sources)
  <2>1. {s} \subseteq Ids /\ {s} \ Sources \subseteq {s}
    BY <1>3
  <2>2. entities \subseteq entities'
    BY <1>2
  <2>3. Sources' \subseteq Sources \cup ({s} \ Sources)
    BY <1>13
  <2> QED BY <1>1, <1>2, <1>8, <1>13, <2>1, <2>2, <2>3 DEF Effect
<1> QED BY <1>6, <1>11, <1>12, <1>14

LEMMA InputPublishes ==
    ASSUME LayerTypeOK, Known, NEW h \in Ids, GiveInput(h)
    PROVE  Publish(h) /\ LayerTypeOK' /\ Known' /\ \E S, New : Effect(S, New)
<1>1. PICK S \in SUBSET Sources :
         /\ given' = [given EXCEPT ![h] = Writes[h]]
         /\ stored' = stored
         /\ Rewrite(h, S)
         /\ Remember(S, {})
  BY DEF GiveInput
<1>2. /\ h \notin used /\ used' = used \cup {h} /\ entities' = entities \cup Mentions[h]
      /\ Mentions[h] \subseteq Entities /\ Writes[h] \subseteq Tables
      /\ UNCHANGED <<req, pc, answer, got>>
  BY ConstantsAssumption DEF GiveInput, Take
<1>3. S \in SUBSET Ids
  BY <1>1 DEF Sources, Stored, LayerTypeOK, Extraction
<1>4. given[h] = None
  BY <1>2 DEF Known, Given
<1>5. /\ given' \in [Ids -> (SUBSET Tables) \cup {None}]
      /\ \A i \in Ids \ {h} : given'[i] = given[i]
  BY <1>1, <1>2 DEF LayerTypeOK
<1>6. LayerTypeOK'
  BY <1>1, <1>3, <1>5, RewriteType DEF LayerTypeOK
<1>7. Grows
  BY <1>1, <1>4, <1>5 DEF Grows
<1>8. (\A s \in S : Replaces(h, s)) /\ \A s \in Ids \ S : RowsOf(s)' = RowsOf(s)
  BY <1>1, <1>3, <1>6, RewriteRows
<1>9. Stored' = Stored /\ Sources' = Sources /\ Given' \subseteq Given \cup {h}
  BY <1>1, <1>5 DEF Stored, Given, Sources
<1>10. Publish(h)
  BY <1>6, <1>7, <1>8, <1>9 DEF Publish, LayerTypeOK
<1>11. Known'
  BY <1>2, <1>9 DEF Known
<1>12. Effect(S, {})
  <2>1. entities \subseteq entities'
    BY <1>2
  <2> QED BY <1>1, <1>2, <1>3, <1>8, <1>9, <2>1 DEF Effect
<1> QED BY <1>6, <1>10, <1>11, <1>12

LEMMA RecomposePublishes ==
    ASSUME LayerTypeOK, Known, NEW h \in Ids, Recompose(h)
    PROVE  Publish(h) /\ LayerTypeOK' /\ Known' /\ \E S, New : Effect(S, New)
<1>1. PICK s \in Sources : Rewrite(h, {s}) /\ Remember({s}, {})
  BY DEF Recompose
<1>2. /\ used' = used \cup {h} /\ entities' = entities \cup Mentions[h]
      /\ Mentions[h] \subseteq Entities
      /\ UNCHANGED <<stored, given, req, pc, answer, got>>
  BY ConstantsAssumption DEF Recompose, Take
<1>3. s \in Ids /\ {s} \in SUBSET Ids
  BY <1>1 DEF Sources, Stored, LayerTypeOK, Extraction
<1>4. LayerTypeOK'
  BY <1>1, <1>2, <1>3, RewriteType DEF LayerTypeOK
<1>5. Replaces(h, s) /\ \A q \in Ids \ {s} : RowsOf(q)' = RowsOf(q)
  BY <1>1, <1>3, <1>4, RewriteRows
<1>6. Stored' = Stored /\ Sources' = Sources /\ Given' = Given
  BY <1>2 DEF Stored, Given, Sources
<1>7. Publish(h)
  BY <1>2, <1>4, <1>5, <1>6 DEF Publish, LayerTypeOK, Grows
<1>8. Known'
  BY <1>2, <1>6 DEF Known
<1>9. Effect({s}, {})
  <2>1. entities \subseteq entities'
    BY <1>2
  <2> QED BY <1>1, <1>2, <1>3, <1>5, <1>6, <2>1 DEF Effect
<1> QED BY <1>4, <1>7, <1>8, <1>9

(* A change of visibility publishes nothing.                               *)
LEMMA AccessPublishes ==
    ASSUME LayerTypeOK, Known,
           UNCHANGED <<stored, given, rows, used, entities, req, pc, answer, got>>,
           Remember({}, {})
    PROVE  UNCHANGED layerVars /\ LayerTypeOK' /\ Known' /\ \E S, New : Effect(S, New)
<1>1. Stored' = Stored /\ Sources' = Sources /\ Given' = Given /\ \A s : RowsOf(s)' = RowsOf(s)
  BY DEF Stored, Given, Sources, RowsOf
<1>2. Effect({}, {})
  BY <1>1 DEF Effect
<1> QED BY <1>1, <1>2 DEF layerVars, LayerTypeOK, Known

LEMMA WriteStep ==
    ASSUME LayerTypeOK, Known, Write
    PROVE  [LayerNext]_layerVars /\ LayerTypeOK' /\ Known' /\ \E S, New : Effect(S, New)
<1>1. CASE \E h \in Ids : Ingest(h)
  BY <1>1, IngestPublishes DEF LayerNext
<1>2. CASE \E h \in Ids : GiveInput(h)
  BY <1>2, InputPublishes DEF LayerNext
<1>3. CASE \E h \in Ids : Recompose(h)
  BY <1>3, RecomposePublishes DEF LayerNext
<1>4. CASE \E s \in Ids : PatchVisibility(s)
  BY <1>4, AccessPublishes DEF PatchVisibility
<1>5. CASE \E u \in Users, s \in Ids : ChangeGrant(u, s)
  BY <1>5, AccessPublishes DEF ChangeGrant
<1> QED BY <1>1, <1>2, <1>3, <1>4, <1>5 DEF Write

-----------------------------------------------------------------------------
(* Types.                                                                  *)

LEMMA SourcesType == LayerTypeOK => Sources \subseteq Ids
BY DEF Sources, Stored, LayerTypeOK, Extraction

(* What TypeOK adds to LayerTypeOK and Known.                              *)
StoreTypeOK ==
    /\ visible \subseteq Ids
    /\ grants \subseteq [user : Users, source : Ids]

Notes == [visible : SUBSET Ids, sources : SUBSET Ids, total : Nat,
             next : Nat, rows : SUBSET Row, entities : SUBSET Entities]

Since == [visible : SUBSET Ids, published : SUBSET Ids, created : SUBSET Ids]

ReaderTypeOK ==
    /\ req \in [Readers -> Request \cup {None}]
    /\ pc \in [Readers -> Label]
    /\ answer \in [Readers -> {"none", "200", "404"}]
    /\ got \in [Readers -> Notes]
    /\ since \in [Readers -> Since]

LEMMA StoreType == ASSUME LayerTypeOK, StoreTypeOK, Write PROVE StoreTypeOK'
<1>1. \A h \in Ids : Ingest(h) => StoreTypeOK'
  BY SourcesType DEF Ingest, StoreTypeOK
<1>2. \A h \in Ids : GiveInput(h) => StoreTypeOK'
  BY DEF GiveInput, StoreTypeOK
<1>3. \A h \in Ids : Recompose(h) => StoreTypeOK'
  BY DEF Recompose, StoreTypeOK
<1>4. \A s \in Ids : PatchVisibility(s) => StoreTypeOK'
  BY DEF PatchVisibility, StoreTypeOK
<1>5. \A u \in Users, s \in Ids : ChangeGrant(u, s) => StoreTypeOK'
  BY DEF ChangeGrant, StoreTypeOK
<1> QED BY <1>1, <1>2, <1>3, <1>4, <1>5 DEF Write

LEMMA WriteReaderType ==
    ASSUME LayerTypeOK', ReaderTypeOK, NEW S, NEW New, Effect(S, New)
    PROVE  ReaderTypeOK'
<1>1. Sources' \subseteq Ids
  BY DEF Sources, Stored, LayerTypeOK, Extraction
<1>2. \A v \in Readers : SeenBy(req[v])' \subseteq Ids
  BY <1>1 DEF SeenBy, VisibleTo
<1>3. since' \in [Readers -> Since]
  BY <1>2 DEF Effect, Remember, ReaderTypeOK, Since
<1> QED BY <1>3 DEF Effect, ReaderTypeOK

LEMMA RequestFields ==
    ASSUME NEW r \in Request
    PROVE  /\ r.kind \in {"entity", "instructor", "source", "list", "admin_source", "admin_list", "export"}
           /\ r.kind \in {"source", "admin_source"} => r.source \in Ids
BY DEF Request, EntityView, InstructorView, SourceView, SourceList, AdminView, AdminRead

LEMMA BeginType ==
    ASSUME LayerTypeOK, ReaderTypeOK, NEW v \in Readers, Begin(v) PROVE ReaderTypeOK'
<1>1. PICK r \in Requests[v] :
         /\ req' = [req EXCEPT ![v] = r]
         /\ Goto(v, EntryOf(r))
         /\ since' = [since EXCEPT ![v].visible = SeenBy(r)]
  BY DEF Begin
<1>2. r \in Request
  BY ConstantsAssumption
<1>3. EntryOf(r) \in Label
  BY <1>2, RequestFields DEF EntryOf, Label
<1>4. SeenBy(r) \subseteq Ids
  BY SourcesType DEF SeenBy, VisibleTo
<1>5. [since[v] EXCEPT !.visible = SeenBy(r)] \in Since
  BY <1>4 DEF ReaderTypeOK, Since
<1>6. since' \in [Readers -> Since]
  BY <1>1, <1>5 DEF ReaderTypeOK
<1> QED BY <1>1, <1>2, <1>3, <1>6 DEF Begin, Goto, ReaderTypeOK

LEMMA StepType ==
    ASSUME LayerTypeOK, Known, ReaderTypeOK, NEW v \in Readers, Step(v) PROVE ReaderTypeOK'
<1>1. got[v] \in Notes
  BY DEF ReaderTypeOK
<1>2. /\ VisibleTo(req[v].user) \subseteq Ids /\ Listed(v) \subseteq Ids
      /\ Cardinality(Listed(v)) \in Nat
      /\ rows \subseteq Row /\ entities \subseteq Entities
  <2>1. VisibleTo(req[v].user) \subseteq Ids /\ Listed(v) \subseteq Ids
    BY SourcesType DEF VisibleTo, Listed
  <2> QED BY <2>1, ConstantsAssumption, FS_Subset, FS_CardinalityType DEF LayerTypeOK, Known
<1>3. got' \in [Readers -> Notes]
  <2>1. CASE got' = got
    BY <2>1 DEF ReaderTypeOK
  <2>2. ASSUME NEW g \in Notes, Keep(v, g) PROVE got' \in [Readers -> Notes]
    BY <2>2 DEF Keep, ReaderTypeOK
  <2>3. CASE ReadVisible(v)
    <3>1. [got[v] EXCEPT !.visible = VisibleTo(req[v].user)] \in Notes
      BY <1>1, <1>2 DEF Notes
    <3> QED BY <2>2, <2>3, <3>1 DEF ReadVisible
  <2>4. CASE Count(v)
    <3>1. [got[v] EXCEPT !.total = Cardinality(Listed(v))] \in Notes
      BY <1>1, <1>2 DEF Notes
    <3> QED BY <2>2, <2>4, <3>1 DEF Count
  <2>5. CASE ReadSources(v)
    <3>1. [got[v] EXCEPT !.sources = Listed(v)] \in Notes
      BY <1>1, <1>2 DEF Notes
    <3> QED BY <2>2, <2>5, <3>1 DEF ReadSources
  <2>6. CASE ReadTable(v)
    <3> DEFINE picked == {r \in rows : r.table = Order[got[v].next] /\ Selected(v, r)}
    <3>1. picked \subseteq Row /\ Keep(v, [got[v] EXCEPT !.rows = @ \cup picked, !.next = @ + 1])
      BY <1>2, <2>6 DEF ReadTable
    <3> HIDE DEF picked
    <3>2. got[v].rows \cup picked \in SUBSET Row /\ got[v].next + 1 \in Nat
      BY <1>1, <3>1 DEF Notes
    <3>3. \A R \in SUBSET Row, n \in Nat : [got[v] EXCEPT !.rows = R, !.next = n] \in Notes
      BY <1>1 DEF Notes
    <3>4. [got[v] EXCEPT !.rows = @ \cup picked, !.next = @ + 1] \in Notes
      BY <3>2, <3>3
    <3> QED BY <2>2, <3>1, <3>4
  <2>7. CASE ReadEntities(v)
    <3>1. [got[v] EXCEPT !.entities = entities] \in Notes
      BY <1>1, <1>2 DEF Notes
    <3> QED BY <2>2, <2>7, <3>1 DEF ReadEntities
  <2> QED BY <2>1, <2>3, <2>4, <2>5, <2>6, <2>7 DEF Step, Find, EndTables
<1>4. pc' \in [Readers -> Label]
  <2>1. \A l \in Label : Goto(v, l) => pc' \in [Readers -> Label]
    BY DEF Goto, ReaderTypeOK
  <2>2. \E l \in Label : Goto(v, l) \/ pc' = pc
    BY DEF Step, Find, ReadVisible, Count, ReadSources, ReadTable, EndTables, ReadEntities,
           End, Label
  <2> QED BY <2>1, <2>2 DEF ReaderTypeOK
<1>5. answer' \in [Readers -> {"none", "200", "404"}]
  BY DEF Step, Find, ReadVisible, Count, ReadSources, ReadTable, EndTables, ReadEntities,
         End, ReaderTypeOK
<1>6. req' = req /\ since' = since
  BY DEF Step, Find, ReadVisible, Count, ReadSources, ReadTable, EndTables, ReadEntities
<1> QED BY <1>3, <1>4, <1>5, <1>6 DEF ReaderTypeOK

-----------------------------------------------------------------------------
(* What a reader has read, at each of its statements.                      *)

(* Which reads come to which statement.                                    *)
Asks(v) ==
    /\ pc[v] # "idle" => req[v] \in Request
    /\ pc[v] = "find" => req[v].kind \in {"entity", "instructor", "source", "admin_source"}
    /\ pc[v] = "visible" => req[v].kind \in {"entity", "instructor", "source", "list"}
    /\ pc[v] = "count" => req[v].kind \in {"list", "admin_list"}
    /\ pc[v] = "sources" => req[v].kind \in {"list", "admin_list", "export"}
    /\ pc[v] = "tables" => req[v].kind \in {"entity", "instructor", "source", "admin_source", "export"}
    /\ pc[v] = "entities" => req[v].kind = "export"
    /\ pc[v] = "idle" => got[v] = Nothing /\ answer[v] = "none"
    /\ pc[v] \in {"find", "visible", "count", "sources"} =>
          got[v].rows = {} /\ got[v].sources = {} /\ got[v].next = 1
    /\ got[v].next >= 1
    /\ pc[v] = "entities" => got[v].next > Len(Order)
    /\ pc[v] \in {"find", "visible", "count", "sources", "tables", "entities"} => answer[v] = "none"

(* It holds ids that were visible to it since it began, and filters by     *)
(* them.                                                                   *)
Sighted(v) ==
    /\ v \in Reading /\ HasUser(req[v]) => VisibleTo(req[v].user) \subseteq since[v].visible
    /\ pc[v] # "idle" /\ HasUser(req[v]) =>
          /\ got[v].visible \subseteq since[v].visible
          /\ got[v].sources \subseteq got[v].visible
          /\ \A r \in got[v].rows :
                req[v].kind = "source" \/ r.table \in Filtered => r.source \in got[v].visible
    /\ pc[v] = "tables" /\ req[v].kind = "source" => req[v].source \in got[v].visible

(* An export holds the sources and entities of its rows, or will read them.*)
Closed(v) ==
    pc[v] # "idle" /\ req[v].kind = "export" =>
        /\ pc[v] \in {"tables", "entities"} => Sources \subseteq got[v].sources \cup since[v].created
        /\ \A r \in got[v].rows :
              /\ r.source \in got[v].sources \cup since[v].created
              /\ About(r) \subseteq IF pc[v] = "done" THEN got[v].entities ELSE entities

(* Of the sources nobody has published in, it has read all rows of the     *)
(* tables that come first.                                                 *)
ReadOf(v, s) == {r \in RowsOf(s) : \E j \in DOMAIN Order : j < got[v].next /\ Order[j] = r.table}
Thorough(v) ==
    /\ pc[v] = "tables" /\ req[v].kind \in {"source", "admin_source"} =>
          req[v].source \in since[v].published \/ got[v].rows = ReadOf(v, req[v].source)
    /\ pc[v] \in {"tables", "entities"} /\ req[v].kind = "export" =>
          \A s \in Sources \ since[v].published : {r \in got[v].rows : r.source = s} = ReadOf(v, s)
    /\ pc[v] \in {"count", "sources"} /\ req[v].kind = "list" => got[v].visible \subseteq Sources
    /\ pc[v] = "sources" /\ req[v].kind = "list" => got[v].total = Cardinality(got[v].visible)

ReaderInv(v) == Asks(v) /\ Sighted(v) /\ Closed(v) /\ Thorough(v)

(* A row stands in a source, and is about entities that are there.         *)
LEMMA RowKnown ==
    ASSUME LayerTypeOK, LayerTraceable, Known, NEW r \in rows
    PROVE  r.source \in Sources /\ r \in RowsOf(r.source) /\ About(r) \subseteq entities
<1>1. r.ext \in Stored /\ stored[r.ext].source = r.source /\ r.inputs \subseteq Given
  BY DEF LayerTraceable
<1> QED BY <1>1 DEF Known, Sources, About, RowsOf

LEMMA WriteKeepsReader ==
    ASSUME LayerTypeOK', LayerTypeOK, ReaderTypeOK, NEW S, NEW New, Effect(S, New),
           NEW v \in Readers, ReaderInv(v)
    PROVE  ReaderInv(v)'
<1>1. /\ pc'[v] = pc[v] /\ req'[v] = req[v] /\ got'[v] = got[v] /\ answer'[v] = answer[v]
      /\ Reading' = Reading
  BY DEF Effect, Reading
<1>2. CASE v \notin Reading
  <2>1. pc[v] \in {"idle", "done"} /\ since'[v] = since[v]
    BY <1>2 DEF Effect, Remember, Reading
  <2> QED BY <1>1, <1>2, <2>1 DEF ReaderInv, Asks, Sighted, Closed, Thorough, HasUser, Reading
<1>3. CASE v \in Reading
  <2>1. /\ since'[v].visible = since[v].visible \cup SeenBy(req[v])'
        /\ since'[v].published = since[v].published \cup S
        /\ since'[v].created = since[v].created \cup New
    BY <1>3 DEF Effect, Remember
  <2>2. Asks(v)'
    BY <1>1 DEF ReaderInv, Asks
  <2>3. Sighted(v)'
    <3>1. HasUser(req[v]) => VisibleTo(req[v].user)' \subseteq since'[v].visible
      BY <1>1, <2>1 DEF SeenBy, VisibleTo
    <3> QED BY <1>1, <1>3, <2>1, <3>1 DEF ReaderInv, Sighted, HasUser, Reading
  <2>4. Closed(v)'
    BY <1>1, <1>3, <2>1 DEF ReaderInv, Closed, Effect, Reading
  <2>5. Thorough(v)'
    <3>1. \A s \in Ids \ S : ReadOf(v, s)' = ReadOf(v, s)
      BY <1>1 DEF Effect, ReadOf
    <3>2. /\ pc[v] # "idle" => req[v] \in Request
          /\ Sources' \ since'[v].published \subseteq (Sources \ since[v].published) \ S
          /\ Sources' \subseteq Ids
      <4>1. Sources' \subseteq Ids
        BY DEF Sources, Stored, LayerTypeOK, Extraction
      <4> QED BY <2>1, <4>1 DEF ReaderInv, Asks, Effect
    <3>3. pc[v] # "idle" /\ req[v].kind \in {"source", "admin_source"} => req[v].source \in Ids
      BY <3>2, RequestFields
    <3> QED BY <1>1, <2>1, <3>1, <3>2, <3>3 DEF ReaderInv, Thorough, Effect
  <2> QED BY <2>2, <2>3, <2>4, <2>5 DEF ReaderInv
<1> QED BY <1>2, <1>3

(* The step of a reader is nobody else's.                                  *)
LEMMA OtherReaders ==
    ASSUME ReaderTypeOK, NEW v \in Readers, Begin(v) \/ Step(v), NEW w \in Readers \ {v}, ReaderInv(w)
    PROVE  ReaderInv(w)'
<1>1. /\ pc'[w] = pc[w] /\ req'[w] = req[w] /\ got'[w] = got[w] /\ answer'[w] = answer[w]
      /\ since'[w] = since[w] /\ UNCHANGED store
  BY DEF Begin, Step, Find, ReadVisible, Count, ReadSources, ReadTable, EndTables, ReadEntities,
         Goto, Keep, End, ReaderTypeOK
<1>2. /\ Sources' = Sources /\ entities' = entities
      /\ \A u : VisibleTo(u)' = VisibleTo(u)
      /\ \A s : ReadOf(w, s)' = ReadOf(w, s)
  BY <1>1 DEF store, Sources, Stored, VisibleTo, ReadOf, RowsOf
<1>3. Asks(w)' /\ Sighted(w)'
  BY <1>1, <1>2 DEF ReaderInv, Asks, Sighted, HasUser, Reading
<1>4. Closed(w)' /\ Thorough(w)'
  BY <1>1, <1>2 DEF ReaderInv, Closed, Thorough
<1> QED BY <1>3, <1>4 DEF ReaderInv

LEMMA BeginReads ==
    ASSUME ReaderTypeOK, NEW v \in Readers, Begin(v), ReaderInv(v) PROVE ReaderInv(v)'
<1>1. PICK r \in Requests[v] :
         /\ req' = [req EXCEPT ![v] = r]
         /\ Goto(v, EntryOf(r))
         /\ since' = [since EXCEPT ![v].visible = SeenBy(r)]
  BY DEF Begin
<1>2. r \in Request /\ got[v] = Nothing /\ answer[v] = "none"
  BY ConstantsAssumption DEF Begin, ReaderInv, Asks
<1>3. /\ req'[v] = r /\ pc'[v] = EntryOf(r) /\ since'[v].visible = SeenBy(r)
      /\ got' = got /\ answer' = answer /\ UNCHANGED store
  BY <1>1 DEF Begin, Goto, ReaderTypeOK, Since
<1>4. \/ r.kind \in {"entity", "instructor", "source", "admin_source"} /\ EntryOf(r) = "find"
      \/ r.kind = "list" /\ EntryOf(r) = "visible"
      \/ r.kind = "admin_list" /\ EntryOf(r) = "count"
      \/ r.kind = "export" /\ EntryOf(r) = "sources"
  BY <1>2, RequestFields DEF EntryOf
<1>5. VisibleTo(r.user)' = VisibleTo(r.user)
  BY <1>3 DEF store, VisibleTo, Sources, Stored
<1>6. Asks(v)'
  BY <1>2, <1>3, <1>4 DEF Asks, Nothing
<1>7. Sighted(v)'
  BY <1>2, <1>3, <1>4, <1>5 DEF Sighted, Nothing, SeenBy, HasUser
<1>8. Closed(v)' /\ Thorough(v)'
  BY <1>2, <1>3, <1>4 DEF Closed, Thorough, Nothing
<1> QED BY <1>6, <1>7, <1>8 DEF ReaderInv

(* What a step of a reader leaves alone.                                   *)
LEMMA StepFrame ==
    ASSUME NEW v \in Readers, Step(v)
    PROVE  /\ req' = req /\ since' = since
           /\ Sources' = Sources /\ entities' = entities /\ rows' = rows
           /\ \A u : VisibleTo(u)' = VisibleTo(u)
           /\ \A s : RowsOf(s)' = RowsOf(s)
<1>1. req' = req /\ since' = since /\ UNCHANGED store
  BY DEF Step, Find, ReadVisible, Count, ReadSources, ReadTable, EndTables, ReadEntities
<1> QED BY <1>1 DEF store, VisibleTo, Sources, Stored, RowsOf

LEMMA OrderStarts == DOMAIN Order = 1..Len(Order) /\ \A j \in DOMAIN Order : j \in Nat /\ ~(j < 1)
BY ConstantsAssumption

LEMMA FindReads ==
    ASSUME ReaderTypeOK, NEW v \in Readers, Find(v), ReaderInv(v) PROVE ReaderInv(v)'
<1>1. /\ req' = req /\ since' = since /\ got' = got
      /\ Sources' = Sources /\ entities' = entities
      /\ \A u : VisibleTo(u)' = VisibleTo(u)
  BY StepFrame DEF Step, Find
<1>2. /\ pc[v] = "find" /\ req[v] \in Request
      /\ \/ pc'[v] = "tables" /\ req[v].kind = "admin_source" /\ answer' = answer
         \/ pc'[v] = "visible" /\ req[v].kind # "admin_source" /\ answer' = answer
         \/ pc'[v] = "done" /\ answer'[v] = "404"
  BY DEF Find, Goto, End, ReaderTypeOK, ReaderInv, Asks
<1>3. ReadOf(v, req[v].source)' = {}
  BY <1>1, <1>2, OrderStarts DEF ReadOf, ReaderInv, Asks
<1>4. Asks(v)'
  BY <1>1, <1>2 DEF ReaderInv, Asks
<1>5. Sighted(v)'
  BY <1>1, <1>2 DEF ReaderInv, Asks, Sighted, HasUser, Reading
<1>6. Closed(v)' /\ Thorough(v)'
  BY <1>1, <1>2, <1>3 DEF ReaderInv, Asks, Closed, Thorough
<1> QED BY <1>4, <1>5, <1>6 DEF ReaderInv

LEMMA VisibleReads ==
    ASSUME ReaderTypeOK, NEW v \in Readers, ReadVisible(v), ReaderInv(v) PROVE ReaderInv(v)'
<1>1. /\ req' = req /\ since' = since /\ Sources' = Sources
      /\ \A u : VisibleTo(u)' = VisibleTo(u)
  BY StepFrame DEF Step
<1>2. /\ pc[v] = "visible" /\ req[v] \in Request
      /\ got'[v] = [got[v] EXCEPT !.visible = VisibleTo(req[v].user)]
      /\ \/ pc'[v] = "done" /\ answer'[v] = "404"
         \/ pc'[v] = "count" /\ req[v].kind = "list" /\ answer' = answer
         \/ /\ pc'[v] = "tables" /\ req[v].kind # "list" /\ answer' = answer
            /\ req[v].kind = "source" => req[v].source \in VisibleTo(req[v].user)
  BY DEF ReadVisible, Keep, Goto, End, ReaderTypeOK, ReaderInv, Asks
<1>3. /\ got'[v].visible = VisibleTo(req[v].user) /\ got'[v].sources = {} /\ got'[v].rows = {}
      /\ got'[v].next = 1
  BY <1>2 DEF ReaderTypeOK, Notes, ReaderInv, Asks
<1>4. ReadOf(v, req[v].source)' = {}
  BY <1>1, <1>3, OrderStarts DEF ReadOf
<1>5. Asks(v)'
  BY <1>1, <1>2, <1>3 DEF ReaderInv, Asks
<1>6. Sighted(v)'
  <2>1. v \in Reading /\ (HasUser(req[v]) => VisibleTo(req[v].user) \subseteq since[v].visible)
    BY <1>2 DEF ReaderInv, Sighted, Reading
  <2> QED BY <1>1, <1>2, <1>3, <2>1 DEF Sighted, HasUser
<1>7. Closed(v)'
  BY <1>1, <1>2, <1>3 DEF ReaderInv, Asks, Closed
<1>8. VisibleTo(req[v].user) \subseteq Sources
  BY DEF VisibleTo
<1>9. Thorough(v)'
  BY <1>1, <1>2, <1>3, <1>4, <1>8 DEF ReaderInv, Asks, Thorough
<1> QED BY <1>5, <1>6, <1>7, <1>9 DEF ReaderInv

LEMMA CountReads ==
    ASSUME ReaderTypeOK, NEW v \in Readers, Count(v), ReaderInv(v) PROVE ReaderInv(v)'
<1>1. /\ req' = req /\ since' = since /\ Sources' = Sources
      /\ \A u : VisibleTo(u)' = VisibleTo(u)
  BY StepFrame DEF Step
<1>2. /\ pc[v] = "count" /\ pc'[v] = "sources" /\ answer' = answer
      /\ got'[v] = [got[v] EXCEPT !.total = Cardinality(Listed(v))]
  BY DEF Count, Keep, Goto, ReaderTypeOK
<1>3. /\ got'[v].visible = got[v].visible /\ got'[v].sources = {} /\ got'[v].rows = {}
      /\ got'[v].next = 1 /\ got'[v].total = Cardinality(Listed(v))
  BY <1>2 DEF ReaderTypeOK, Notes, ReaderInv, Asks
<1>4. req[v].kind = "list" => Listed(v) = got[v].visible
  BY <1>2 DEF Listed, ReaderInv, Thorough
<1>5. Asks(v)'
  BY <1>1, <1>2, <1>3 DEF ReaderInv, Asks
<1>6. Sighted(v)'
  BY <1>1, <1>2, <1>3 DEF ReaderInv, Asks, Sighted, HasUser, Reading
<1>7. Closed(v)'
  BY <1>1, <1>2, <1>3 DEF ReaderInv, Asks, Closed
<1>8. Thorough(v)'
  BY <1>1, <1>2, <1>3, <1>4 DEF ReaderInv, Thorough
<1> QED BY <1>5, <1>6, <1>7, <1>8 DEF ReaderInv

LEMMA SourcesReads ==
    ASSUME ReaderTypeOK, NEW v \in Readers, ReadSources(v), ReaderInv(v) PROVE ReaderInv(v)'
<1>1. /\ req' = req /\ since' = since /\ Sources' = Sources
      /\ \A u : VisibleTo(u)' = VisibleTo(u)
  BY StepFrame DEF Step
<1>2. /\ pc[v] = "sources"
      /\ got'[v] = [got[v] EXCEPT !.sources = Listed(v)]
      /\ \/ pc'[v] = "tables" /\ req[v].kind = "export" /\ answer' = answer
         \/ pc'[v] = "done" /\ req[v].kind # "export"
  BY DEF ReadSources, Keep, Goto, End, ReaderTypeOK
<1>3. /\ got'[v].visible = got[v].visible /\ got'[v].sources = Listed(v) /\ got'[v].rows = {}
      /\ got'[v].next = 1
  BY <1>2 DEF ReaderTypeOK, Notes, ReaderInv, Asks
<1>4. \A s : ReadOf(v, s)' = {}
  BY <1>3, OrderStarts DEF ReadOf
<1>5. /\ req[v].kind = "list" => Listed(v) \subseteq got[v].visible
      /\ req[v].kind = "export" => Listed(v) = Sources
  BY DEF Listed
<1>6. Asks(v)'
  BY <1>1, <1>2, <1>3 DEF ReaderInv, Asks
<1>7. Sighted(v)'
  BY <1>1, <1>2, <1>3, <1>5 DEF ReaderInv, Asks, Sighted, HasUser, Reading
<1>8. Closed(v)'
  BY <1>1, <1>2, <1>3, <1>5 DEF ReaderInv, Asks, Closed
<1>9. Thorough(v)'
  BY <1>1, <1>2, <1>3, <1>4 DEF ReaderInv, Asks, Thorough
<1> QED BY <1>6, <1>7, <1>8, <1>9 DEF ReaderInv

LEMMA TableReads ==
    ASSUME LayerTypeOK, LayerTraceable, Known, ReaderTypeOK,
           NEW v \in Readers, ReadTable(v), ReaderInv(v)
    PROVE  ReaderInv(v)'
<1> DEFINE picked == {r \in rows : r.table = Order[got[v].next] /\ Selected(v, r)}
<1>1. /\ req' = req /\ since' = since /\ Sources' = Sources /\ entities' = entities
      /\ \A u : VisibleTo(u)' = VisibleTo(u)
      /\ \A s : RowsOf(s)' = RowsOf(s)
  BY StepFrame DEF Step
<1>2. /\ pc[v] = "tables" /\ pc' = pc /\ answer' = answer
      /\ got'[v] = [got[v] EXCEPT !.rows = @ \cup picked, !.next = @ + 1]
  BY DEF ReadTable, Keep, ReaderTypeOK
<1>3. /\ got'[v].visible = got[v].visible /\ got'[v].sources = got[v].sources
      /\ got'[v].rows = got[v].rows \cup picked /\ got'[v].next = got[v].next + 1
      /\ got[v].next \in Nat
  <2> HIDE DEF picked
  <2> QED BY <1>2 DEF ReaderTypeOK, Notes
<1>4. req[v].kind \in {"entity", "instructor", "source", "admin_source", "export"}
  BY <1>2 DEF ReaderInv, Asks
<1>5. \A r \in picked :
        /\ r \in rows /\ r.source \in Sources /\ r \in RowsOf(r.source) /\ About(r) \subseteq entities
  BY RowKnown
<1>6. Asks(v)'
  <2> HIDE DEF picked
  <2>1. got[v].next + 1 >= 1
    BY <1>3
  <2> QED BY <1>1, <1>2, <1>3, <1>4, <2>1 DEF ReaderInv, Asks
<1>7. Sighted(v)'
  <2>1. \A r \in picked :
          /\ req[v].kind = "source" => r.source = req[v].source
          /\ req[v].kind \in {"entity", "instructor"} /\ r.table \in Filtered
                => r.source \in got[v].visible
    BY <1>4 DEF Selected, EntityRows, InstructorRows
  <2> HIDE DEF picked
  <2> QED BY <1>1, <1>2, <1>3, <1>4, <2>1 DEF ReaderInv, Sighted, HasUser, Reading
<1>8. Closed(v)'
  <2> HIDE DEF picked
  <2> QED BY <1>1, <1>2, <1>3, <1>5 DEF ReaderInv, Closed
<1>9. Thorough(v)'
  <2>1. \A s : ReadOf(v, s)' = ReadOf(v, s) \cup {r \in RowsOf(s) : got[v].next \in DOMAIN Order /\ r.table = Order[got[v].next]}
    <3>1. \A j \in DOMAIN Order : j < got[v].next + 1 <=> j < got[v].next \/ j = got[v].next
      BY <1>3, OrderStarts
    <3> QED BY <1>1, <1>3, <3>1 DEF ReadOf
  <2>2. got[v].next \in DOMAIN Order
    <3>1. got[v].next <= Len(Order) /\ got[v].next >= 1
      BY <1>3, OrderStarts DEF ReadTable, AllRead, ReaderInv, Asks
    <3> QED BY <1>3, <3>1, OrderStarts
  <2>3. req[v].kind \in {"source", "admin_source"} =>
          picked = {r \in RowsOf(req[v].source) : r.table = Order[got[v].next]}
    BY DEF Selected, RowsOf
  <2>4. req[v].kind = "export" =>
          \A s : {r \in picked : r.source = s} = {r \in RowsOf(s) : r.table = Order[got[v].next]}
    BY DEF Selected, RowsOf
  <2> HIDE DEF picked
  <2>5. CASE req[v].kind \in {"source", "admin_source"}
    BY <1>1, <1>2, <1>3, <2>1, <2>2, <2>3, <2>5 DEF ReaderInv, Thorough
  <2>6. CASE req[v].kind = "export"
    <3>1. ASSUME NEW s \in Sources \ since[v].published
          PROVE  {r \in got'[v].rows : r.source = s} = ReadOf(v, s)'
      <4>1. {r \in got[v].rows : r.source = s} = ReadOf(v, s)
        BY <1>2, <2>6 DEF ReaderInv, Thorough
      <4> QED BY <1>3, <2>1, <2>2, <2>4, <2>6, <4>1
    <3> QED BY <1>1, <1>2, <2>6, <3>1 DEF Thorough
  <2>7. CASE req[v].kind \in {"entity", "instructor"}
    BY <1>1, <1>2, <2>7 DEF Thorough
  <2> QED BY <1>4, <2>5, <2>6, <2>7
<1> QED BY <1>6, <1>7, <1>8, <1>9 DEF ReaderInv

LEMMA EndReads ==
    ASSUME ReaderTypeOK, NEW v \in Readers, EndTables(v), ReaderInv(v) PROVE ReaderInv(v)'
<1>1. /\ req' = req /\ since' = since /\ got' = got /\ Sources' = Sources /\ entities' = entities
      /\ \A u : VisibleTo(u)' = VisibleTo(u)
      /\ \A s : RowsOf(s)' = RowsOf(s)
  BY StepFrame DEF Step, EndTables
<1>2. /\ pc[v] = "tables" /\ got[v].next > Len(Order)
      /\ \/ pc'[v] = "entities" /\ req[v].kind = "export" /\ answer' = answer
         \/ pc'[v] = "done" /\ req[v].kind # "export"
  BY DEF EndTables, AllRead, Goto, End, ReaderTypeOK
<1>3. \A s : ReadOf(v, s)' = ReadOf(v, s)
  BY <1>1 DEF ReadOf
<1>4. Asks(v)'
  BY <1>1, <1>2 DEF ReaderInv, Asks
<1>5. Sighted(v)'
  BY <1>1, <1>2 DEF ReaderInv, Sighted, HasUser, Reading
<1>6. Closed(v)'
  BY <1>1, <1>2 DEF ReaderInv, Closed
<1>7. Thorough(v)'
  BY <1>1, <1>2, <1>3 DEF ReaderInv, Thorough
<1> QED BY <1>4, <1>5, <1>6, <1>7 DEF ReaderInv

LEMMA EntitiesReads ==
    ASSUME ReaderTypeOK, NEW v \in Readers, ReadEntities(v), ReaderInv(v) PROVE ReaderInv(v)'
<1>1. req' = req /\ since' = since /\ entities' = entities
  BY StepFrame DEF Step
<1>2. /\ pc[v] = "entities" /\ pc'[v] = "done" /\ req[v].kind = "export"
      /\ got'[v] = [got[v] EXCEPT !.entities = entities]
  BY DEF ReadEntities, Keep, Goto, End, ReaderTypeOK, ReaderInv, Asks
<1>3. /\ got'[v].rows = got[v].rows /\ got'[v].sources = got[v].sources
      /\ got'[v].entities = entities
  BY <1>2 DEF ReaderTypeOK, Notes
<1>4. Asks(v)' /\ Sighted(v)'
  BY <1>1, <1>2 DEF ReaderInv, Asks, Sighted, HasUser, Reading
<1>5. Closed(v)'
  BY <1>1, <1>2, <1>3 DEF ReaderInv, Closed
<1>6. Thorough(v)'
  BY <1>2 DEF Thorough
<1> QED BY <1>4, <1>5, <1>6 DEF ReaderInv

LEMMA StepReads ==
    ASSUME LayerTypeOK, LayerTraceable, Known, ReaderTypeOK,
           NEW v \in Readers, Step(v), ReaderInv(v)
    PROVE  ReaderInv(v)'
BY FindReads, VisibleReads, CountReads, SourcesReads, TableReads, EndReads, EntitiesReads DEF Step

-----------------------------------------------------------------------------
(* The invariant.                                                          *)

IInv ==
    /\ LayerInv
    /\ Known
    /\ StoreTypeOK
    /\ ReaderTypeOK
    /\ \A v \in Readers : ReaderInv(v)

LEMMA InitIInv == Init => IInv
<1> SUFFICES ASSUME Init PROVE IInv
  OBVIOUS
<1>1. LayerInv /\ Known /\ StoreTypeOK /\ Sources = {}
  BY DEF Init, LayerInit, LayerInv, LayerTypeOK, LayerTraceable, LayerWhole, Known, StoreTypeOK,
         Stored, Given, Sources
<1>2. Nothing \in Notes /\ NoHistory \in Since
  BY DEF Nothing, NoHistory, Notes, Since
<1>3. ReaderTypeOK
  BY <1>2 DEF Init, ReaderTypeOK, Label
<1>4. ASSUME NEW v \in Readers PROVE ReaderInv(v)
  <2>1. pc[v] = "idle" /\ answer[v] = "none" /\ got[v] = Nothing /\ Nothing.next >= 1
    BY DEF Init, Nothing
  <2>2. Asks(v)
    BY <2>1 DEF Asks
  <2>3. Sighted(v) /\ Closed(v) /\ Thorough(v)
    BY <2>1 DEF Sighted, Closed, Thorough, Reading
  <2> QED BY <2>2, <2>3 DEF ReaderInv
<1> QED BY <1>1, <1>3, <1>4 DEF IInv

(* The step of a reader leaves the store alone.                            *)
LEMMA ReaderLeaves ==
    ASSUME NEW v \in Readers, Begin(v) \/ Step(v)
    PROVE  UNCHANGED store /\ UNCHANGED layerVars
<1>1. UNCHANGED store
  BY DEF Begin, Step, Find, ReadVisible, Count, ReadSources, ReadTable, EndTables, ReadEntities
<1> QED BY <1>1 DEF store, layerVars

LEMMA NextPublishes == IInv /\ [Next]_vars => [LayerNext]_layerVars
<1> SUFFICES ASSUME IInv, [Next]_vars PROVE [LayerNext]_layerVars
  OBVIOUS
<1>1. CASE \E v \in Readers : Begin(v) \/ Step(v)
  BY <1>1, ReaderLeaves
<1>2. CASE Write
  BY <1>2, WriteStep DEF IInv, LayerInv
<1>3. CASE UNCHANGED vars
  BY <1>3 DEF vars, store, layerVars
<1> QED BY <1>1, <1>2, <1>3 DEF Next

LEMMA IInvStep == IInv /\ [Next]_vars => IInv'
<1> SUFFICES ASSUME IInv, [Next]_vars PROVE IInv'
  OBVIOUS
<1>1. LayerInv'
  BY NextPublishes, LayerStep DEF IInv
<1>2. LayerTypeOK /\ LayerTraceable /\ LayerTypeOK'
  BY <1>1 DEF IInv, LayerInv
<1>3. ASSUME NEW v \in Readers, Begin(v) \/ Step(v) PROVE IInv'
  <2>1. UNCHANGED store
    BY <1>3, ReaderLeaves
  <2>2. Known' /\ StoreTypeOK'
    BY <2>1 DEF IInv, store, Known, StoreTypeOK, Stored, Given
  <2>3. ReaderTypeOK'
    BY <1>2, <1>3, BeginType, StepType DEF IInv
  <2>4. ReaderInv(v)'
    BY <1>2, <1>3, BeginReads, StepReads DEF IInv
  <2>5. \A w \in Readers \ {v} : ReaderInv(w)'
    BY <1>3, OtherReaders DEF IInv
  <2> QED BY <1>1, <2>2, <2>3, <2>4, <2>5 DEF IInv
<1>4. CASE Write
  <2>1. Known' /\ \E S, New : Effect(S, New)
    BY <1>2, <1>4, WriteStep DEF IInv
  <2>2. StoreTypeOK'
    BY <1>2, <1>4, StoreType DEF IInv
  <2>3. PICK S, New : Effect(S, New)
    BY <2>1
  <2>4. ReaderTypeOK'
    BY <1>2, <2>3, WriteReaderType DEF IInv
  <2>5. \A v \in Readers : ReaderInv(v)'
    BY <1>2, <2>3, WriteKeepsReader DEF IInv
  <2>6. Readers' = Readers
    OBVIOUS
  <2> QED BY <1>1, <2>1, <2>2, <2>4, <2>5 DEF IInv
<1>5. CASE UNCHANGED vars
  <2>1. UNCHANGED store /\ UNCHANGED <<req, pc, answer, got, since>>
    BY <1>5 DEF vars
  <2>2. Known' /\ StoreTypeOK' /\ ReaderTypeOK'
    BY <2>1 DEF IInv, store, Known, StoreTypeOK, ReaderTypeOK, Stored, Given
  <2>3. /\ Sources' = Sources /\ entities' = entities /\ Reading' = Reading
        /\ \A u : VisibleTo(u)' = VisibleTo(u)
        /\ \A v, s : ReadOf(v, s)' = ReadOf(v, s)
    BY <2>1 DEF store, Sources, Stored, VisibleTo, ReadOf, RowsOf, Reading
  <2>4. ASSUME NEW v \in Readers PROVE ReaderInv(v)'
    <3>1. Asks(v)' /\ Sighted(v)'
      BY <2>1, <2>3 DEF IInv, ReaderInv, Asks, Sighted, HasUser
    <3>2. Closed(v)' /\ Thorough(v)'
      BY <2>1, <2>3 DEF IInv, ReaderInv, Closed, Thorough
    <3> QED BY <3>1, <3>2 DEF ReaderInv
  <2> QED BY <1>1, <2>2, <2>4 DEF IInv
<1> QED BY <1>3, <1>4, <1>5 DEF Next

LEMMA Invariance == Spec => []IInv
BY InitIInv, IInvStep, PTL DEF Spec

-----------------------------------------------------------------------------
(* Theorems.                                                               *)

(* The endpoints that ingest, correct, add and recompose, and the changes  *)
(* of visibility between them, are publications of the canonical layer:    *)
(* what CanonicalLayer promises holds for whoever reads the wiki.          *)
THEOREM ViewsPublish == Spec => LayerSpec
<1>1. Init => LayerInit
  BY DEF Init
<1> QED BY <1>1, Invariance, NextPublishes, PTL DEF Spec, LayerSpec

(* Every variable holds values of its kind, the notes of a reader too.     *)
THEOREM TypeCorrect == Spec => []TypeOK
<1>1. IInv => TypeOK
  BY DEF IInv, LayerInv, Known, StoreTypeOK, ReaderTypeOK, Notes, Since, TypeOK
<1> QED BY <1>1, Invariance, PTL

(* The gap finder lists no source because it is being recomposed: a source *)
(* without attributions has an extraction that writes none.                *)
THEOREM UncomposedTrue == Spec => []UncomposedHasNone
<1>1. IInv => UncomposedHasNone
  <2> SUFFICES ASSUME IInv, NEW s \in Uncomposed
               PROVE  \E e \in Stored : stored[e].source = s /\ Order[1] \notin stored[e].tables
    BY DEF UncomposedHasNone
  <2>1. PICK d \in Stored : stored[d].source = s
    BY DEF Uncomposed, Sources
  <2>2. PICK h \in Ids : Composed(h, s)
    BY <2>1 DEF IInv, LayerInv, LayerWhole
  <2>3. PICK e \in Stored, I \in SUBSET Given :
           stored[e].source = s /\ Composition(s, h, e, I) \subseteq rows
    BY <2>2 DEF Composed
  <2>4. ASSUME Order[1] \in stored[e].tables PROVE FALSE
    <3> DEFINE r == [table |-> Order[1], source |-> s, by |-> h, ext |-> e, inputs |-> I]
    <3>1. r \in Composition(s, h, e, I)
      BY <2>4 DEF Composition
    <3>2. r \in RowsOf(s) /\ r.table = Order[1]
      BY <2>3, <3>1 DEF RowsOf
    <3> QED BY <3>2 DEF Uncomposed
  <2> QED BY <2>3, <2>4
<1> QED BY <1>1, Invariance, PTL

(* However sources are hidden, granted and recomposed between its          *)
(* statements, a reader is shown rows and sources that were visible to it  *)
(* at some moment since it began.                                          *)
THEOREM ShownVisible == Spec => []ShownWasVisible
<1>1. IInv => ShownWasVisible
  BY DEF IInv, ReaderInv, Sighted, ShownWasVisible, Answered
<1> QED BY <1>1, Invariance, PTL

(* An export holds the entities that its rows name and, unless created     *)
(* meanwhile, their sources.                                               *)
THEOREM ExportIsClosed == Spec => []ExportClosed
<1>1. IInv => ExportClosed
  BY DEF IInv, ReaderInv, Closed, ExportClosed, Answered
<1> QED BY <1>1, Invariance, PTL

(* When all tables have been read, so have all rows.                       *)
LEMMA AllReadIsAll ==
    ASSUME LayerTypeOK, ReaderTypeOK, NEW v \in Readers, got[v].next > Len(Order)
    PROVE  \A s : ReadOf(v, s) = RowsOf(s)
<1>1. got[v].next \in Nat
  BY DEF ReaderTypeOK, Notes
<1>2. \A j \in DOMAIN Order : j < got[v].next
  BY <1>1, ConstantsAssumption
<1>3. ASSUME NEW s, NEW r \in RowsOf(s)
      PROVE  \E j \in DOMAIN Order : j < got[v].next /\ Order[j] = r.table
  <2>1. r.table \in Tables
    BY DEF RowsOf, LayerTypeOK, Row
  <2>2. PICK j \in DOMAIN Order : Order[j] = r.table
    BY <2>1, ConstantsAssumption
  <2> QED BY <1>2, <2>2
<1> QED BY <1>3 DEF ReadOf

(* What a reader is shown of a source that nobody composed meanwhile is    *)
(* whole when it answers, and the total of a list is that of its items.    *)
THEOREM ViewsAreWhole == Spec => ViewsWhole
<1>1. ASSUME IInv, [Next]_vars, NEW v \in Readers, ~Answered(v), Answered(v)'
      PROVE  Whole(v)'
  <2>1. LayerTypeOK /\ ReaderTypeOK /\ ReaderInv(v) /\ IInv'
    BY <1>1, IInvStep DEF IInv, LayerInv
  <2>2. Step(v)
    <3>1. CASE Write
      <4>1. pc' = pc /\ answer' = answer
        BY <2>1, <3>1, <1>1, WriteStep DEF IInv, Effect
      <4> QED BY <1>1, <4>1 DEF Answered
    <3>2. ASSUME NEW w \in Readers \ {v}, Begin(w) \/ Step(w) PROVE FALSE
      <4>1. pc'[v] = pc[v] /\ answer'[v] = answer[v]
        BY <2>1, <3>2 DEF Begin, Step, Find, ReadVisible, Count, ReadSources, ReadTable, EndTables,
           ReadEntities, Goto, End, ReaderTypeOK
      <4> QED BY <1>1, <4>1 DEF Answered
    <3>3. CASE Begin(v)
      <4>1. answer'[v] = "none"
        BY <2>1, <3>3 DEF Begin, ReaderInv, Asks
      <4> QED BY <1>1, <4>1 DEF Answered
    <3>4. CASE UNCHANGED vars
      BY <1>1, <3>4 DEF vars, Answered
    <3> QED BY <1>1, <3>1, <3>2, <3>3, <3>4 DEF Next
  <2>3. /\ req' = req /\ since' = since /\ Sources' = Sources
        /\ \A s : RowsOf(s)' = RowsOf(s)
    BY <2>2, StepFrame
  <2>4. pc'[v] = "done" /\ answer'[v] = "200"
    BY <1>1 DEF Answered
  <2>5. CASE Find(v) \/ ReadVisible(v) \/ Count(v) \/ ReadTable(v)
    <3>1. pc'[v] # "done" \/ answer'[v] = "404"
      BY <2>1, <2>5 DEF Find, ReadVisible, Count, ReadTable, Goto, End, ReaderTypeOK
    <3> QED BY <2>4, <3>1
  <2>6. CASE ReadSources(v)
    <3>1. /\ pc[v] = "sources" /\ req[v].kind # "export"
          /\ got'[v] = [got[v] EXCEPT !.sources = Listed(v)]
      BY <2>1, <2>4, <2>6 DEF ReadSources, Keep, Goto, ReaderTypeOK
    <3>2. got'[v].sources = Listed(v) /\ got'[v].total = got[v].total
      BY <2>1, <3>1 DEF ReaderTypeOK, Notes
    <3>3. req[v].kind = "list" => got[v].total = Cardinality(Listed(v))
      <4>1. req[v].kind = "list" => Listed(v) = got[v].visible
        BY <2>1, <3>1 DEF ReaderInv, Thorough, Listed
      <4> QED BY <2>1, <3>1, <4>1 DEF ReaderInv, Thorough
    <3>4. req[v].kind \notin {"source", "admin_source", "export"}
      BY <2>1, <3>1 DEF ReaderInv, Asks
    <3> QED BY <2>3, <3>2, <3>3, <3>4 DEF Whole
  <2>7. CASE EndTables(v)
    <3>1. /\ pc[v] = "tables" /\ got[v].next > Len(Order) /\ got' = got
          /\ req[v].kind # "export"
      BY <2>1, <2>4, <2>7 DEF EndTables, AllRead, Goto, ReaderTypeOK
    <3>2. req[v].kind \in {"source", "admin_source"} /\ req[v].source \notin since[v].published =>
             got[v].rows = RowsOf(req[v].source)
      BY <2>1, <3>1, AllReadIsAll DEF ReaderInv, Thorough
    <3>3. req[v].kind # "list"
      BY <2>1, <3>1 DEF ReaderInv, Asks
    <3> QED BY <2>3, <3>1, <3>2, <3>3 DEF Whole
  <2>8. CASE ReadEntities(v)
    <3>1. /\ pc[v] = "entities" /\ got[v].next > Len(Order) /\ req[v].kind = "export"
          /\ got'[v] = [got[v] EXCEPT !.entities = entities]
      BY <2>1, <2>8 DEF ReadEntities, Keep, ReaderTypeOK, ReaderInv, Asks
    <3>2. got'[v].rows = got[v].rows
      BY <2>1, <3>1 DEF ReaderTypeOK, Notes
    <3>3. \A s \in Sources \ since[v].published : {r \in got[v].rows : r.source = s} = RowsOf(s)
      BY <2>1, <3>1, AllReadIsAll DEF ReaderInv, Thorough
    <3> QED BY <2>3, <3>1, <3>2, <3>3 DEF Whole
  <2> QED BY <2>2, <2>5, <2>6, <2>7, <2>8 DEF Step
<1>2. IInv /\ [Next]_vars => [\A v \in Readers : ~Answered(v) /\ Answered(v)' => Whole(v)']_vars
  BY <1>1
<1> QED BY <1>2, Invariance, PTL DEF Spec, ViewsWhole
=============================================================================
