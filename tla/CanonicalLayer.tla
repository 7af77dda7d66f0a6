--------------------------- MODULE CanonicalLayer ---------------------------
(***************************************************************************)
(* What the WCS pipeline promises of its canonical layer, without the      *)
(* statements, waits and failures it takes to keep it.                     *)
(*                                                                         *)
(* Extractions and inputs (corrections and additions) are only ever added. *)
(* The rows derived from them change by publications: one transaction      *)
(* composes some sources, and leaves in each a complete composition of a   *)
(* stored extraction of it with stored inputs.  Whatever else is in the    *)
(* source was there before.  An extraction is stored only together with a  *)
(* composition of its source.                                              *)
(***************************************************************************)
CONSTANTS
    Ids,       \* whoever inserts a row: also the ids of sources, extractions, inputs
    Tables,    \* the canonical tables
    None

VARIABLES
    stored,    \* stored[e]: the source of extraction e and the tables it writes
    given,     \* given[i]: the tables input i writes
    rows       \* the rows of the canonical tables

layerVars == <<stored, given, rows>>

Extraction == [source : Ids, tables : SUBSET Tables]
Row == [table : Tables, source : Ids, by : Ids, ext : Ids, inputs : SUBSET Ids]

Stored == {e \in Ids : stored[e] # None}
Given == {i \in Ids : given[i] # None}

(* The rows that composing source s from extraction e and inputs I yields. *)
Composition(s, h, e, I) ==
    {[table |-> k, source |-> s, by |-> h, ext |-> e, inputs |-> I] :
        k \in stored[e].tables \cup UNION {given[i] : i \in I}}

RowsOf(s) == {r \in rows : r.source = s}

(* A composition by h of source s is complete in the layer.                *)
Composed(h, s) ==
    \E e \in Stored, I \in SUBSET Given :
        stored[e].source = s /\ Composition(s, h, e, I) \subseteq rows

LayerInit ==
    /\ stored = [e \in Ids |-> None]
    /\ given = [i \in Ids |-> None]
    /\ rows = {}

(* Rows are never edited, and extractions and inputs never leave.          *)
Grows ==
    /\ \A e \in Ids : stored[e] # None => stored'[e] = stored[e]
    /\ \A i \in Ids : given[i] # None => given'[i] = given[i]

(* Transaction h replaces the rows of source s by a whole composition.  It *)
(* may leave rows that were there: those of compositions it overlapped.    *)
Replaces(h, s) ==
    \E e \in Stored', I \in SUBSET Given' :
        /\ stored'[e].source = s
        /\ Composition(s, h, e, I)' \subseteq rows'
        /\ RowsOf(s)' \subseteq RowsOf(s) \cup Composition(s, h, e, I)'

Publish(h) ==
    /\ stored' \in [Ids -> Extraction \cup {None}]
    /\ given' \in [Ids -> (SUBSET Tables) \cup {None}]
    /\ rows' \subseteq Row
    /\ Grows
    /\ \A s \in Ids :
          \/ Replaces(h, s)
          \/ /\ RowsOf(s)' = RowsOf(s)
             /\ \A e \in Stored' \ Stored : stored'[e].source # s

LayerNext == \E h \in Ids : Publish(h)

LayerSpec == LayerInit /\ [][LayerNext]_layerVars
-----------------------------------------------------------------------------
(* Every variable holds values of its kind.                                *)
LayerTypeOK ==
    /\ stored \in [Ids -> Extraction \cup {None}]
    /\ given \in [Ids -> (SUBSET Tables) \cup {None}]
    /\ rows \subseteq Row

(* Readers never find a source whose extraction has been stored with part  *)
(* of its rows gone: some composition of it is there in all its tables.    *)
LayerWhole ==
    \A e \in Stored : \E h \in Ids : Composed(h, stored[e].source)

(* Every row comes from a stored extraction of its source and stored       *)
(* inputs.                                                                 *)
LayerTraceable ==
    \A r \in rows : /\ r.ext \in Stored
                    /\ stored[r.ext].source = r.source
                    /\ r.inputs \subseteq Given
=============================================================================
