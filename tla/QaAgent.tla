------------------------------ MODULE QaAgent ------------------------------
(***************************************************************************)
(* POST /v1/wcs/ask: run_agent, the tool-use loop of the Q&A agent, with   *)
(* its budgets, its corrective retry and the enrichment of its citations,  *)
(* while other requests change what the viewer may see.                    *)
(*                                                                         *)
(* The model is external: any answer it can give is possible, and so is a  *)
(* failure of any call.  One session serves the whole ask.  It keeps the   *)
(* rows it has loaded for as long as they are not garbage collected, and   *)
(* then does not look at their columns again: the columns of a note or a   *)
(* profile may be read as they were at any time since the ask began.       *)
(*                                                                         *)
(* A note was made from a transcript.  What the transcript tools and the   *)
(* citations of a transcript's chunks say of that note, its title, people, *)
(* date and link (its label here), they say to the owner of the transcript *)
(* without asking who may see the note.                                    *)
(* Op_Fault is Op with a plausible bug; no action uses it.                 *)
(***************************************************************************)
EXTENDS NoteAccess

CONSTANTS
    MaxToolCallsDefault, MaxToolCallsLimit,      \* settings
    MaxInputTokensDefault, MaxInputTokensLimit,  \* settings
    MaxUsage,    \* the most tokens one call can use
    MaxUses,     \* bound: how many tools one answer asks for
    Transcripts,
    TranscriptOf  \* the transcript each note was made from

ASSUME AgentAssumption ==
    /\ {MaxToolCallsDefault, MaxToolCallsLimit} \subseteq Nat
    /\ {MaxInputTokensDefault, MaxInputTokensLimit} \subseteq Nat
    /\ MaxUsage \in Nat \ {0}
    /\ MaxUses \in Nat
    /\ Notes \cap Transcripts = {}
    /\ TranscriptOf \in [Notes -> Transcripts]

VARIABLES
    owned,        \* the transcripts whose owner_id is the caller
    pc,           \* where run_agent is
    calls,        \* history: calls of the model
    tokens,       \* cumulative_tokens
    toolCalls,    \* tool_calls_made
    ran,          \* history: tools really run
    asked,        \* tool_use blocks of the last answer still to handle
    open,         \* tool_use blocks of the conversation without a result
    exhausted,    \* budget_exhausted
    stop,         \* the stop reason that ended the loop
    text,         \* the text to return
    todo,         \* parsed citations still to enrich
    cited, dropped,
    answer,       \* the HTTP status
    attrs,        \* history: values of is_default_visible since the ask began
    roles,        \* history: the viewer's profiles since the ask began
    sighted,      \* history: the notes the viewer could see since then
    revealed,     \* history: the notes whose text tools have shown to the model
    labelled      \* history: the notes whose label was shown with a transcript

world == <<access, owned>>
budget == <<calls, tokens, toolCalls, ran>>
result == <<text, todo, cited, dropped, answer>>
history == <<attrs, roles, sighted>>
seen == <<revealed, labelled>>
vars == <<world, pc, budget, asked, open, exhausted, stop, result, history, seen>>

(* from_settings.                                                          *)
Least(a, b) == IF a <= b THEN a ELSE b
ToolCap == Least(MaxToolCallsDefault, MaxToolCallsLimit)
InputCap == Least(MaxInputTokensDefault, MaxInputTokensLimit)

(* What the model cites: a note, or a chunk, for which its transcript      *)
(* stands.  An id of nothing there is has the same end as another owner's. *)
Ids == Notes \cup Transcripts

(* What there is to say of a text: whether its citation block parses, and  *)
(* which ids the block then cites.                                         *)
NoBlock == [parsed |-> FALSE, cites |-> {}]
Text == [parsed : {TRUE}, cites : SUBSET Ids] \cup {NoBlock}

Init ==
    /\ AccessInit
    /\ owned \in SUBSET Transcripts
    /\ pc = "idle"
    /\ calls = 0 /\ tokens = 0 /\ toolCalls = 0 /\ ran = 0
    /\ asked = 0 /\ open = 0
    /\ exhausted = FALSE
    /\ stop = "none"
    /\ text = NoBlock /\ todo = {} /\ cited = {} /\ dropped = {}
    /\ answer = "none"
    /\ attrs = [n \in Notes |-> {}] /\ roles = {} /\ sighted = {}
    /\ revealed = {} /\ labelled = {}

(* Other requests, at any await of the ask.                                *)
OthersChange ==
    /\ ChangeAccess
    /\ IF pc = "idle"
       THEN UNCHANGED history
       ELSE /\ attrs' = [n \in Notes |-> attrs[n] \cup {n \in shown'}]
            /\ roles' = roles \cup {profile'}
            /\ sighted' = sighted \cup {n \in Notes : CanSee(n)'}
    /\ UNCHANGED <<owned, pc, budget, asked, open, exhausted, stop, result, seen>>

Begin ==
    /\ pc = "idle"
    /\ pc' = "ask"
    /\ attrs' = [n \in Notes |-> {n \in shown}]
    /\ roles' = {profile}
    /\ sighted' = {n \in Notes : CanSee(n)}
    /\ UNCHANGED <<world, budget, asked, open, exhausted, stop, result, seen>>

-----------------------------------------------------------------------------
OverBudget == tokens >= InputCap \/ toolCalls >= ToolCap

Exhaust_NoBreak ==
    /\ pc = "ask"
    /\ OverBudget
    /\ exhausted' = TRUE
    /\ UNCHANGED <<world, pc, budget, asked, open, stop, result, history, seen>>

Exhaust ==
    /\ pc = "ask"
    /\ OverBudget
    /\ exhausted' = TRUE
    /\ pc' = "final"
    /\ UNCHANGED <<world, budget, asked, open, stop, result, history, seen>>

(* One call of the model.  The API accepts only a conversation in which    *)
(* every tool_use has its result.                                          *)
CallModel ==
    /\ open = 0
    /\ calls' = calls + 1
    /\ \E used \in 0..MaxUsage : tokens' = tokens + used
    /\ UNCHANGED <<toolCalls, ran>>

(* The loop is over with text t: parse_citations_block.                    *)
Parse(t) ==
    /\ text' = t
    /\ todo' = t.cites
    /\ pc' = IF t.parsed THEN "enrich" ELSE "retry"

(* The model wants tools.                                                  *)
AskForTools ==
    /\ pc = "ask"
    /\ ~OverBudget
    /\ CallModel
    /\ \E n \in 1..MaxUses : asked' = n /\ open' = n
    /\ pc' = "tools"
    /\ UNCHANGED <<world, exhausted, stop, result, history, seen>>

(* The model has finished its turn, or it stops for another reason, which  *)
(* may leave tools it asked for (a turn cut off by max_tokens).            *)
AskForAnswer ==
    /\ pc = "ask"
    /\ ~OverBudget
    /\ CallModel
    /\ \E t \in Text : Parse(t)
    /\ \/ stop' = "end_turn" /\ open' = 0
       \/ stop' = "other" /\ open' \in 0..MaxUses
    /\ UNCHANGED <<world, asked, exhausted, cited, dropped, answer, history, seen>>

-----------------------------------------------------------------------------
(* The tool_use blocks of an answer, in order.                             *)

Handled ==
    /\ asked' = asked - 1
    /\ open' = open - 1
    /\ toolCalls' = toolCalls + 1

RefuseTool_Silently ==
    /\ pc = "tools" /\ asked > 0
    /\ toolCalls + 1 > ToolCap
    /\ asked' = asked - 1
    /\ toolCalls' = toolCalls + 1
    /\ UNCHANGED <<world, pc, calls, tokens, ran, open, exhausted, stop, result, history,
                   seen>>

(* Beyond the cap the call is answered by an error result.                 *)
RefuseTool ==
    /\ pc = "tools" /\ asked > 0
    /\ toolCalls + 1 > ToolCap
    /\ Handled
    /\ UNCHANGED <<world, pc, calls, tokens, ran, exhausted, stop, result, history, seen>>

(* What a note tool shows: search_notes any visible hits, get_note the     *)
(* note or a not_found.  Malformed inputs show nothing.                    *)
NoteIsSeen(n) == \E isShown \in attrs[n], role \in roles : Sees(isShown, role, n \in granted)
Shown ==
    {{}} \cup (UNION {SUBSET Searchable(role) : role \in roles})
         \cup {{n} : n \in {m \in Notes : NoteIsSeen(m)}}

(* What a transcript tool labels: search_transcripts any notes made from   *)
(* transcripts of the owner, get_transcript_window the note made from one  *)
(* of them or, unless there is exactly one, none.                          *)
MadeFrom(ts) == {n \in Notes : TranscriptOf[n] \in ts}
SoleNote(t) == {n \in Notes : MadeFrom({t}) = {n}}
Labels == (SUBSET MadeFrom(owned)) \cup {SoleNote(t) : t \in owned}

NoteTool == \E hits \in Shown : revealed' = revealed \cup hits /\ UNCHANGED labelled
TranscriptTool == \E hits \in Labels : labelled' = labelled \cup hits /\ UNCHANGED revealed

RunTool_Unchecked ==
    /\ pc = "tools" /\ asked > 0
    /\ Handled
    /\ ran' = ran + 1
    /\ NoteTool \/ TranscriptTool
    /\ UNCHANGED <<world, pc, calls, tokens, exhausted, stop, result, history>>

RunTool ==
    /\ pc = "tools" /\ asked > 0
    /\ toolCalls + 1 <= ToolCap
    /\ Handled
    /\ ran' = ran + 1
    /\ NoteTool \/ TranscriptTool
    /\ UNCHANGED <<world, pc, calls, tokens, exhausted, stop, result, history>>

ToolsDone ==
    /\ pc = "tools" /\ asked = 0
    /\ pc' = "ask"
    /\ UNCHANGED <<world, budget, asked, open, exhausted, stop, result, history, seen>>

-----------------------------------------------------------------------------
(* The turn after exhaustion: no tools are offered.                        *)
FinalTurn ==
    /\ pc = "final"
    /\ CallModel
    /\ \E t \in Text : Parse(t)
    /\ UNCHANGED <<world, asked, open, exhausted, stop, cited, dropped, answer, history,
                   seen>>

Retry_KeepsText ==
    /\ pc = "retry"
    /\ CallModel
    /\ \E t \in Text :
          /\ todo' = t.cites
          /\ IF t.parsed THEN pc' = "enrich" /\ UNCHANGED answer
                         ELSE pc' = "done" /\ answer' = "200"
    /\ UNCHANGED text
    /\ UNCHANGED <<world, asked, open, exhausted, stop, cited, dropped, history, seen>>

(* The corrective retry, once, without tools.  Its text is the answer,     *)
(* without citations when it does not parse either.                        *)
Retry ==
    /\ pc = "retry"
    /\ CallModel
    /\ \E t \in Text :
          /\ text' = t
          /\ todo' = t.cites
          /\ IF t.parsed THEN pc' = "enrich" /\ UNCHANGED answer
                         ELSE pc' = "done" /\ answer' = "200"
    /\ UNCHANGED <<world, asked, open, exhausted, stop, cited, dropped, history, seen>>

NoteResolves_Unseen(id) == id \in Notes

(* _resolve_note: not an id, no note, or not visible to the viewer.        *)
NoteResolves(id) == id \in Notes /\ NoteIsSeen(id)
Hides(id) ==
    id \in Notes => \E isShown \in attrs[id], role \in roles : ~Sees(isShown, role, id \in granted)

ChunkResolves_AnyOwner(id) == id \in Transcripts

(* _resolve_chunk: a chunk of the owner; it brings the label of the note   *)
(* made from its transcript, when there is exactly one.                    *)
ChunkResolves(id) == id \in owned

(* enrich_citations: one entry.  A chunk is dropped too when a refresh has *)
(* replaced the chunks of its transcript.                                  *)
Enrich ==
    /\ pc = "enrich"
    /\ \E id \in todo :
          /\ todo' = todo \ {id}
          /\ \/ NoteResolves(id) /\ cited' = cited \cup {id} /\ UNCHANGED <<dropped, labelled>>
             \/ /\ ChunkResolves(id)
                /\ cited' = cited \cup {id}
                /\ labelled' = labelled \cup SoleNote(id)
                /\ UNCHANGED dropped
             \/ Hides(id) /\ dropped' = dropped \cup {id} /\ UNCHANGED <<cited, labelled>>
    /\ UNCHANGED <<world, pc, budget, asked, open, exhausted, stop, text, answer, history,
                   revealed>>

Finish ==
    /\ pc = "enrich" /\ todo = {}
    /\ pc' = "done"
    /\ answer' = "200"
    /\ UNCHANGED <<world, budget, asked, open, exhausted, stop, text, todo, cited, dropped,
                   history, seen>>

FailWith500 ==
    /\ pc' = "done"
    /\ answer' = "500"
    /\ UNCHANGED <<world, budget, asked, open, exhausted, stop, text, todo, cited, dropped,
                   history, seen>>

(* The API refuses the retry of a conversation that leaves a tool open.    *)
RetryRefused == pc = "retry" /\ open # 0 /\ FailWith500

(* A call of the model, a tool's query or a citation's query raises        *)
(* something else than a ToolError, or the process stops.                  *)
Fail == pc \notin {"idle", "done"} /\ FailWith500

Step ==
    \/ Exhaust \/ AskForTools \/ AskForAnswer
    \/ RefuseTool \/ RunTool \/ ToolsDone
    \/ FinalTurn \/ Retry \/ RetryRefused
    \/ Enrich \/ Finish

Quiet ==
    /\ pc = "done"
    /\ UNCHANGED vars

Next == OthersChange \/ Begin \/ Step \/ Fail \/ Quiet

(* The event loop goes on with the ask, and every call of the model and    *)
(* every query ends, be it by an exception.  Nothing obliges anybody to    *)
(* ask.                                                                    *)
Fairness == WF_vars(Step)

Spec == Init /\ [][Next]_vars /\ Fairness

-----------------------------------------------------------------------------
(* Properties.                                                             *)

(* Every variable holds values of its kind.                                *)
TypeOK ==
    /\ AccessTypeOK
    /\ owned \in SUBSET Transcripts
    /\ pc \in {"idle", "ask", "tools", "final", "retry", "enrich", "done"}
    /\ {calls, tokens, toolCalls, ran, asked, open} \subseteq Nat
    /\ exhausted \in BOOLEAN
    /\ stop \in {"none", "end_turn", "other"}
    /\ text \in Text
    /\ todo \in SUBSET Ids
    /\ cited \in SUBSET Ids
    /\ dropped \in SUBSET Ids
    /\ answer \in {"none", "200", "500"}
    /\ attrs \in [Notes -> SUBSET BOOLEAN]
    /\ roles \in SUBSET Profile
    /\ sighted \in SUBSET Notes
    /\ revealed \in SUBSET Notes
    /\ labelled \in SUBSET Notes

(* What the budgets do promise, however the model answers: no tool runs    *)
(* beyond the tool cap, the model is called at most twice more than the    *)
(* cap allows tools, and the tokens go beyond the cap by less than three   *)
(* calls, the one that passes it, the final turn and the retry.            *)
BudgetKept ==
    /\ ran <= ToolCap
    /\ calls <= ToolCap + 2
    /\ tokens < InputCap + 3 * MaxUsage

(* The conversation sent to the model is one it accepts: each tool_use has *)
(* its result, the refused ones included.  Only an answer that stops for   *)
(* another reason than tools can leave one open, and then only the retry   *)
(* is refused.                                                             *)
ToolUsesAnswered ==
    /\ pc \in {"ask", "final"} => open = 0
    /\ pc = "retry" /\ open # 0 => stop = "other"

(* What a note says reaches the model only when the viewer could see the   *)
(* note at some time since the ask began, and so does a citation of it     *)
(* reach the reader, whatever the model cites and however access changes   *)
(* between the queries.  A label is shown only with a transcript of the    *)
(* viewer's own: it is all they get of a note the viewer could never see.  *)
OnlySightedShown ==
    /\ revealed \cup (cited \cap Notes) \subseteq sighted
    /\ labelled \subseteq MadeFrom(owned)
    /\ cited \cap Transcripts \subseteq owned

(* An answer and its citations come from one text: every id its block      *)
(* cites has been returned or dropped, and an answer whose block does not  *)
(* parse has none.                                                         *)
AnswerCoherent ==
    answer = "200" => cited \cup dropped = text.cites

(* The two forms of the visibility rule agree, although one asks for a     *)
(* profile before it looks at grants and the other does not: a grant never *)
(* exists without a profile.                                               *)
VisibilityRulesAgree == Searchable(profile) = {n \in Notes : CanSee(n)}

(* Every ask that starts is answered.                                      *)
AskEnds == pc = "ask" ~> pc = "done"

(* "a request can never exceed this regardless of input" (config.py, of    *)
(* the _LIMIT settings): the tokens of an ask stay within the limit.       *)
SpendWithinLimit == tokens <= MaxInputTokensLimit
=============================================================================
