----------------------------- MODULE WikiViews ------------------------------
(***************************************************************************)
(* What readers of the wiki see while the pipeline publishes: the views of *)
(* an entity, an instructor and a source, the lists of sources, the export *)
(* and a gap finder.  A reader sends one SELECT after another, each with a *)
(* snapshot of its own, and takes no locks.                                *)
(*                                                                         *)
(* The writers are the publications of CanonicalLayer, which WcsPipeline   *)
(* is shown to implement, and the changes of who may see a source.         *)
(*                                                                         *)
(* An operator named Op_Fault is Op with a plausible bug, used by no       *)
(* action.                                                                 *)
(***************************************************************************)
EXTENDS CanonicalLayer, Naturals, Sequences, FiniteSets

CONSTANTS
    Readers,       \* reads of the wiki, one each
    Users,
    Entities,
    Instructors,   \* which of them are rows of wcs_instructors
    Does,          \* what a writer may turn out to be: an ingest, an input, a recompose
    Writes,        \* the tables that the payload of an extraction or input writes
    Mentions,      \* the entities that it names
    Order,         \* the canonical tables in the order in which a view reads them
    Filtered,      \* those that the view of an entity limits to visible sources
    Instructed,    \* those with an instructor column
    Taught,        \* Taught[i]: the sources whose instructors_raw names instructor i
    Requests       \* what each reader may turn out to ask

EntityView     == [kind : {"entity"}, user : Users, entity : Entities]
InstructorView == [kind : {"instructor"}, user : Users, entity : Instructors]
SourceView     == [kind : {"source"}, user : Users, source : Ids]
SourceList     == [kind : {"list"}, user : Users]
AdminView      == [kind : {"admin_source"}, source : Ids]
AdminRead      == [kind : {"admin_list", "export"}]
Request == EntityView \cup InstructorView \cup SourceView \cup SourceList
             \cup AdminView \cup AdminRead

ASSUME ConstantsAssumption ==
    /\ IsFiniteSet(Ids)
    /\ Requests \in [Readers -> SUBSET Request]
    /\ Does \in [Ids -> SUBSET {"ingest", "input", "recompose"}]
    /\ Writes \in [Ids -> SUBSET Tables]
    /\ Mentions \in [Ids -> SUBSET Entities]
    /\ Order \in Seq(Tables)
    /\ Tables = {Order[i] : i \in DOMAIN Order}
    /\ Filtered \subseteq Tables
    /\ Instructors \subseteq Entities
    /\ Instructed \subseteq Filtered
    /\ Taught \in [Instructors -> SUBSET Ids]
    /\ None \notin Request

VARIABLES
    used,          \* the ids that writers have taken
    visible,       \* the sources that are default-visible
    grants,        \* wcs_source_grants, [user, source]
    entities,      \* wcs_entities and wcs_instructors not merged away: none ever leaves
    req, pc, answer,
    got,           \* what a reader has read so far
    since          \* history: what was visible to it, and published, since it began

store == <<stored, given, rows, used, visible, grants, entities>>
vars == <<store, req, pc, answer, got, since>>

Label == {"idle", "find", "visible", "count", "sources", "tables", "entities", "done"}

Nothing == [visible |-> {}, sources |-> {}, total |-> 0, next |-> 1, rows |-> {},
            entities |-> {}]
NoHistory == [visible |-> {}, published |-> {}, created |-> {}]

Init ==
    /\ LayerInit
    /\ used = {}
    /\ visible = {}
    /\ grants = {}
    /\ entities = {}
    /\ req = [v \in Readers |-> None]
    /\ pc = [v \in Readers |-> "idle"]
    /\ answer = [v \in Readers |-> "none"]
    /\ got = [v \in Readers |-> Nothing]
    /\ since = [v \in Readers |-> NoHistory]

-----------------------------------------------------------------------------
Sources == {stored[e].source : e \in Stored}

(* The entities that a row is about.                                       *)
About(r) == UNION {Mentions[i] : i \in {r.ext} \cup r.inputs}

(* visible_source_ids_for_user, the rule of user_can_see_source as a query.*)
VisibleTo(u) == {s \in Sources : s \in visible \/ [user |-> u, source |-> s] \in grants}

Reading == {v \in Readers : pc[v] \notin {"idle", "done"}}
HasUser(r) == r.kind \in {"entity", "instructor", "source", "list"}
SeenBy(r) == IF HasUser(r) THEN VisibleTo(r.user) ELSE {}

(* Readers remember what was visible, published and created meanwhile.     *)
Remember(S, new) ==
    since' = [v \in Readers |->
        IF v \notin Reading THEN since[v]
        ELSE [visible |-> since[v].visible \cup SeenBy(req[v])',
              published |-> since[v].published \cup S,
              created |-> since[v].created \cup new]]

-----------------------------------------------------------------------------
(* The writers.                                                            *)

(* The commit of handler h leaves a composition in each source of S, and   *)
(* perhaps rows of compositions that overlapped it.                        *)
Rewrite(h, S) ==
    \E ext \in [S -> Stored'], I \in SUBSET Given', kept \in SUBSET {r \in rows : r.source \in S} :
        /\ \A s \in S : stored'[ext[s]].source = s
        /\ rows' = {r \in rows : r.source \notin S} \cup kept
                     \cup UNION {Composition(s, h, ext[s], I)' : s \in S}

Take(h, kind) ==
    /\ kind \in Does[h]
    /\ h \notin used
    /\ used' = used \cup {h}
    /\ entities' = entities \cup Mentions[h]

(* POST /v1/wcs/sources sets the visibility of the source it composes.     *)
Ingest(h) ==
    /\ Take(h, "ingest")
    /\ UNCHANGED <<req, pc, answer, got>>
    /\ \E s \in Sources \cup {h}, show \in BOOLEAN :
          /\ stored' = [stored EXCEPT ![h] = [source |-> s, tables |-> Writes[h]]]
          /\ given' = given
          /\ Rewrite(h, {s})
          /\ visible' = IF show THEN visible \cup {s} ELSE visible \ {s}
          /\ grants' = grants
          /\ Remember({s}, {s} \ Sources)

(* A correction or addition composes the sources it applies to, which is   *)
(* none when it is stored without a source.                                *)
GiveInput(h) ==
    /\ Take(h, "input")
    /\ UNCHANGED <<req, pc, answer, got>>
    /\ \E S \in SUBSET Sources :
          /\ given' = [given EXCEPT ![h] = Writes[h]]
          /\ stored' = stored
          /\ Rewrite(h, S)
          /\ UNCHANGED <<visible, grants>>
          /\ Remember(S, {})

Recompose(h) ==
    /\ Take(h, "recompose")
    /\ UNCHANGED <<req, pc, answer, got>>
    /\ UNCHANGED <<stored, given, visible, grants>>
    /\ \E s \in Sources : Rewrite(h, {s}) /\ Remember({s}, {})

(* PATCH .../sources/{id}/visibility, and is_default_visible of            *)
(* PATCH .../sources/{id}.                                                 *)
PatchVisibility(s) ==
    /\ s \in Sources
    /\ \E show \in BOOLEAN : visible' = IF show THEN visible \cup {s} ELSE visible \ {s}
    /\ UNCHANGED <<stored, given, rows, used, grants, entities, req, pc, answer, got>>
    /\ Remember({}, {})

(* No endpoint writes wcs_source_grants: an operator does.                 *)
ChangeGrant(u, s) ==
    /\ s \in Sources
    /\ LET g == [user |-> u, source |-> s]
       IN  grants' = IF g \in grants THEN grants \ {g} ELSE grants \cup {g}
    /\ UNCHANGED <<stored, given, rows, used, visible, entities, req, pc, answer, got>>
    /\ Remember({}, {})

-----------------------------------------------------------------------------
(* The readers.                                                            *)

Goto(v, label) == pc' = [pc EXCEPT ![v] = label]
Keep(v, g) == got' = [got EXCEPT ![v] = g]

EntryOf(r) ==
    CASE r.kind \in {"entity", "instructor", "source", "admin_source"} -> "find"
      [] r.kind = "list" -> "visible"
      [] r.kind = "admin_list" -> "count"
      [] r.kind = "export" -> "sources"

Begin(v) ==
    /\ pc[v] = "idle"
    /\ \E r \in Requests[v] :
          /\ req' = [req EXCEPT ![v] = r]
          /\ Goto(v, EntryOf(r))
          /\ since' = [since EXCEPT ![v].visible = SeenBy(r)]
    /\ UNCHANGED <<store, answer, got>>

End(v, code) ==
    /\ Goto(v, "done")
    /\ answer' = [answer EXCEPT ![v] = code]

(* The entity or instructor by slug, or the source by id.                  *)
Find(v) ==
    /\ pc[v] = "find"
    /\ IF \/ req[v].kind \in {"entity", "instructor"} /\ req[v].entity \in entities
          \/ req[v].kind \in {"source", "admin_source"} /\ req[v].source \in Sources
       THEN /\ Goto(v, IF req[v].kind = "admin_source" THEN "tables" ELSE "visible")
            /\ answer' = answer
       ELSE End(v, "404")
    /\ UNCHANGED <<store, req, got, since>>

ReadVisible(v) ==
    /\ pc[v] = "visible"
    /\ LET ids == VisibleTo(req[v].user)
       IN  /\ Keep(v, [got[v] EXCEPT !.visible = ids])
           /\ IF req[v].kind = "source" /\ req[v].source \notin ids
              THEN End(v, "404")
              ELSE /\ Goto(v, IF req[v].kind = "list" THEN "count" ELSE "tables")
                   /\ answer' = answer
    /\ UNCHANGED <<store, req, since>>

(* The total and the items of a list are two statements.                   *)
Listed(v) == IF req[v].kind = "list" THEN Sources \cap got[v].visible ELSE Sources

Count(v) ==
    /\ pc[v] = "count"
    /\ Keep(v, [got[v] EXCEPT !.total = Cardinality(Listed(v))])
    /\ Goto(v, "sources")
    /\ UNCHANGED <<store, req, answer, since>>

ReadSources(v) ==
    /\ pc[v] = "sources"
    /\ Keep(v, [got[v] EXCEPT !.sources = Listed(v)])
    /\ IF req[v].kind = "export"
       THEN Goto(v, "tables") /\ answer' = answer
       ELSE End(v, "200")
    /\ UNCHANGED <<store, req, since>>

(* get_entity_view filters by the ids it has read, except the relations.   *)
EntityRows_Unfiltered(v, r) == req[v].entity \in About(r)
EntityRows(v, r) ==
    /\ req[v].entity \in About(r)
    /\ r.table \in Filtered => r.source \in got[v].visible

(* get_instructor_view: rows of the instructor, and rows of nobody in      *)
(* sources taught by them, as far as they are visible.                     *)
InstructorRows(v, r) ==
    /\ r.table \in Instructed
    /\ r.source \in got[v].visible
    /\ \/ req[v].entity \in About(r)
       \/ About(r) \cap Instructors = {} /\ r.source \in Taught[req[v].entity]

Selected(v, r) ==
    CASE req[v].kind = "entity" -> EntityRows(v, r)
      [] req[v].kind = "instructor" -> InstructorRows(v, r)
      [] req[v].kind \in {"source", "admin_source"} -> r.source = req[v].source
      [] req[v].kind = "export" -> TRUE

AllRead_OneShort(v) == got[v].next >= Len(Order)
AllRead(v) == got[v].next > Len(Order)

ReadTable(v) ==
    /\ pc[v] = "tables"
    /\ ~AllRead(v)
    /\ Keep(v, [got[v] EXCEPT
          !.rows = @ \cup {r \in rows : r.table = Order[got[v].next] /\ Selected(v, r)},
          !.next = @ + 1])
    /\ UNCHANGED <<store, req, pc, answer, since>>

EndTables(v) ==
    /\ pc[v] = "tables"
    /\ AllRead(v)
    /\ IF req[v].kind = "export"
       THEN Goto(v, "entities") /\ answer' = answer
       ELSE End(v, "200")
    /\ UNCHANGED <<store, req, got, since>>

ReadEntities_OfAttributions(v) ==
    /\ pc[v] = "entities"
    /\ Keep(v, [got[v] EXCEPT !.entities = UNION {About(r) : r \in {q \in rows : q.table = Order[1]}}])
    /\ End(v, "200")
    /\ UNCHANGED <<store, req, since>>

ReadEntities(v) ==
    /\ pc[v] = "entities"
    /\ Keep(v, [got[v] EXCEPT !.entities = entities])
    /\ End(v, "200")
    /\ UNCHANGED <<store, req, since>>

Step(v) == \/ Find(v) \/ ReadVisible(v) \/ Count(v) \/ ReadSources(v)
           \/ ReadTable(v) \/ EndTables(v) \/ ReadEntities(v)
Write == \/ \E h \in Ids : Ingest(h) \/ GiveInput(h) \/ Recompose(h) \/ PatchVisibility(h)
         \/ \E u \in Users, s \in Ids : ChangeGrant(u, s)

Next == (\E v \in Readers : Begin(v) \/ Step(v)) \/ Write
Spec == Init /\ [][Next]_vars

-----------------------------------------------------------------------------
(* Properties.                                                             *)

TypeOK ==
    /\ LayerTypeOK
    /\ used \subseteq Ids
    /\ visible \subseteq Ids
    /\ grants \subseteq [user : Users, source : Ids]
    /\ entities \subseteq Entities
    /\ req \in [Readers -> Request \cup {None}]
    /\ pc \in [Readers -> Label]
    /\ answer \in [Readers -> {"none", "200", "404"}]
    /\ got \in [Readers -> [visible : SUBSET Ids, sources : SUBSET Ids, total : Nat,
                            next : Nat, rows : SUBSET Row, entities : SUBSET Entities]]
    /\ since \in [Readers -> [visible : SUBSET Ids, published : SUBSET Ids,
                              created : SUBSET Ids]]

Answered(v) == pc[v] = "done" /\ answer[v] = "200"

(* A reader is shown only what it might have been shown at some moment     *)
(* since it began to read: every row that a view filters, and every source *)
(* it views or lists, stands in a source that was visible to it then,      *)
(* although sources are hidden, shown, granted and recomposed between the  *)
(* statement that reads the visible ids and those that read the rows.      *)
ShownWasVisible ==
    \A v \in Readers : Answered(v) /\ HasUser(req[v]) =>
        /\ got[v].sources \subseteq since[v].visible
        /\ \A r \in got[v].rows :
              req[v].kind = "source" \/ r.table \in Filtered => r.source \in since[v].visible

(* What a reader is shown of a source that nobody composed meanwhile is    *)
(* whole: a view of the source and the export show all its rows and only   *)
(* those, in all tables; and the total of a list of visible sources is the *)
(* number of its items, whatever happened between the two statements.      *)
Whole(v) ==
    /\ req[v].kind \in {"source", "admin_source"} /\ req[v].source \notin since[v].published =>
          got[v].rows = RowsOf(req[v].source)
    /\ req[v].kind = "export" =>
          \A s \in Sources \ since[v].published : {r \in got[v].rows : r.source = s} = RowsOf(s)
    /\ req[v].kind = "list" => got[v].total = Cardinality(got[v].sources)
ViewsWhole == [][\A v \in Readers : ~Answered(v) /\ Answered(v)' => Whole(v)']_vars

(* The export is closed: it holds every entity that a row in it names,     *)
(* because the entities are read last and none ever leaves; and the source *)
(* of a row is in it unless it was created after the export began to read. *)
(* The curator renders the bundle without asking again.                    *)
ExportClosed ==
    \A v \in Readers : Answered(v) /\ req[v].kind = "export" =>
        \A r \in got[v].rows :
            /\ About(r) \subseteq got[v].entities
            /\ r.source \in got[v].sources \cup since[v].created

(* list_uncomposed_sources finds, of these sources, those with an active   *)
(* extraction; the layer does not say which one is active, so this is said *)
(* of all sources without attributions, the table Order[1].  Since no      *)
(* reader sees a composition in part, one of their extractions has no      *)
(* attributions: none is listed because it was being recomposed.           *)
Uncomposed == {s \in Sources : \A r \in RowsOf(s) : r.table # Order[1]}
UncomposedHasNone ==
    \A s \in Uncomposed : \E e \in Stored : stored[e].source = s /\ Order[1] \notin stored[e].tables
=============================================================================
