--------------------------- MODULE QaAgentProofs ---------------------------
(***************************************************************************)
(* Proofs about QaAgent, for every cap, every set of notes and every way   *)
(* the model may answer.  The invariants are proved in three groups: the   *)
(* budgets and the conversation, the access rules, and the answer.         *)
(***************************************************************************)
EXTENDS QaAgent, TLAPS

USE AccessAssumption, AgentAssumption

LEMMA CapsAreNat == ToolCap \in Nat /\ InputCap \in Nat
BY DEF ToolCap, InputCap, Least

-----------------------------------------------------------------------------
(* The loop.                                                               *)

LoopTypeOK ==
    /\ pc \in {"idle", "ask", "tools", "final", "retry", "enrich", "done"}
    /\ calls \in Nat /\ tokens \in Nat /\ toolCalls \in Nat /\ ran \in Nat
    /\ asked \in Nat /\ open \in Nat
    /\ stop \in {"none", "end_turn", "other"}
    /\ exhausted \in BOOLEAN

Conversation ==
    /\ pc = "tools" => open = asked
    /\ pc \in {"idle", "ask", "final"} => open = 0
    /\ pc = "retry" /\ open # 0 => stop = "other"

(* Why the budgets hold: every call of the loop is paid for by a tool call,*)
(* made or still to handle, and the loop stops calling once it has passed  *)
(* a cap.                                                                  *)
Spending ==
    /\ ran <= toolCalls
    /\ pc \in {"idle", "ask", "tools", "final"} =>
          calls <= ToolCap /\ tokens < InputCap + MaxUsage
    /\ pc \in {"idle", "ask"} => calls <= toolCalls
    /\ pc = "tools" => calls <= toolCalls + asked
    /\ pc = "retry" => calls <= ToolCap + 1 /\ tokens < InputCap + 2 * MaxUsage

LoopInv == LoopTypeOK /\ Conversation /\ Spending /\ BudgetKept

LEMMA LoopInit == Init => LoopInv
<1>1. MaxUsage \in Nat /\ MaxUsage > 0
  OBVIOUS
<1>2. Init => /\ pc = "idle" /\ stop = "none" /\ exhausted \in BOOLEAN
              /\ calls = 0 /\ tokens = 0 /\ toolCalls = 0 /\ ran = 0 /\ asked = 0 /\ open = 0
  BY DEF Init
<1> SUFFICES ASSUME Init PROVE LoopInv
  OBVIOUS
<1>3. LoopTypeOK
  BY <1>2 DEF LoopTypeOK
<1>4. Conversation
  BY <1>2 DEF Conversation
<1>5. Spending
  BY <1>1, <1>2, CapsAreNat DEF Spending
<1>6. BudgetKept
  BY <1>1, <1>2, CapsAreNat DEF BudgetKept
<1> QED BY <1>3, <1>4, <1>5, <1>6 DEF LoopInv

LEMMA LoopStep ==
    ASSUME LoopInv, [Next]_vars
    PROVE  LoopInv'
<1> USE CapsAreNat DEF LoopInv, LoopTypeOK, Conversation, Spending, BudgetKept, budget
<1>1. CASE OthersChange \/ Quiet \/ UNCHANGED vars
  BY <1>1 DEF OthersChange, Quiet, vars
<1>2. CASE Begin
  BY <1>2 DEF Begin
<1>3. CASE Exhaust
  BY <1>3 DEF Exhaust
<1>4. CASE AskForTools
  <2>1. PICK used \in 0..MaxUsage, n \in 1..MaxUses :
           /\ tokens' = tokens + used /\ calls' = calls + 1
           /\ asked' = n /\ open' = n
    BY <1>4 DEF AskForTools, CallModel
  <2>2. /\ pc = "ask" /\ pc' = "tools" /\ tokens < InputCap /\ toolCalls < ToolCap
        /\ toolCalls' = toolCalls /\ ran' = ran /\ stop' = stop /\ exhausted' = exhausted
    BY <1>4 DEF AskForTools, CallModel, OverBudget
  <2> QED BY <2>1, <2>2
<1>5. CASE AskForAnswer
  <2>1. PICK used \in 0..MaxUsage : tokens' = tokens + used /\ calls' = calls + 1
    BY <1>5 DEF AskForAnswer, CallModel
  <2>2. /\ pc = "ask" /\ pc' \in {"retry", "enrich"}
        /\ tokens < InputCap /\ toolCalls < ToolCap
        /\ toolCalls' = toolCalls /\ ran' = ran /\ asked' = asked /\ exhausted' = exhausted
    BY <1>5 DEF AskForAnswer, CallModel, OverBudget, Parse
  <2>3. \/ stop' = "end_turn" /\ open' = 0
        \/ stop' = "other" /\ open' \in 0..MaxUses
    BY <1>5 DEF AskForAnswer
  <2> QED BY <2>1, <2>2, <2>3
<1>6. CASE RefuseTool
  BY <1>6 DEF RefuseTool, Handled
<1>7. CASE RunTool
  BY <1>7 DEF RunTool, Handled
<1>8. CASE ToolsDone
  BY <1>8 DEF ToolsDone
<1>9. CASE FinalTurn
  <2>1. PICK used \in 0..MaxUsage : tokens' = tokens + used /\ calls' = calls + 1
    BY <1>9 DEF FinalTurn, CallModel
  <2>2. /\ pc = "final" /\ pc' \in {"retry", "enrich"} /\ open' = open /\ stop' = stop
        /\ toolCalls' = toolCalls /\ ran' = ran /\ asked' = asked /\ exhausted' = exhausted
    BY <1>9 DEF FinalTurn, CallModel, Parse
  <2> QED BY <2>1, <2>2
<1>10. CASE Retry
  <2>1. PICK used \in 0..MaxUsage : tokens' = tokens + used /\ calls' = calls + 1
    BY <1>10 DEF Retry, CallModel
  <2>2. /\ pc = "retry" /\ pc' \in {"done", "enrich"} /\ open' = open /\ stop' = stop
        /\ toolCalls' = toolCalls /\ ran' = ran /\ asked' = asked /\ exhausted' = exhausted
    BY <1>10 DEF Retry, CallModel
  <2> QED BY <2>1, <2>2
<1>11. CASE Enrich \/ Finish
  BY <1>11 DEF Enrich, Finish
<1>12. CASE RetryRefused \/ Fail
  BY <1>12 DEF RetryRefused, Fail, FailWith500
<1> QED
  BY <1>1, <1>2, <1>3, <1>4, <1>5, <1>6, <1>7, <1>8, <1>9, <1>10, <1>11, <1>12 DEF Next, Step

(* No tool runs beyond the cap, the model is called at most twice more     *)
(* than that, and the tokens pass their cap by less than three calls:      *)
(* run_agent's two checks bound what it can spend.                         *)
THEOREM AgentBudget == Spec => []BudgetKept
<1>1. LoopInv => BudgetKept
  BY DEF LoopInv
<1> QED BY <1>1, LoopInit, LoopStep, PTL DEF Spec

(* Every tool_use is answered before the next call of the loop, so that    *)
(* the API can refuse no call but the retry of a turn that was cut off.    *)
THEOREM AgentConversation == Spec => []ToolUsesAnswered
<1>1. LoopInv => ToolUsesAnswered
  BY DEF LoopInv, Conversation, ToolUsesAnswered
<1> QED BY <1>1, LoopInit, LoopStep, PTL DEF Spec

-----------------------------------------------------------------------------
(* Access.                                                                 *)

GrantHasProfile == granted # {} => profile # "absent"
AccessInv == AccessTypeOK /\ GrantHasProfile

LEMMA AccessStep ==
    ASSUME AccessInv, [Next]_vars
    PROVE  AccessInv'
<1> USE DEF AccessInv, GrantHasProfile, AccessTypeOK, Profile
<1>1. CASE UNCHANGED access
  BY <1>1 DEF access
<1>2. CASE ChangeAccess
  <2>1. changes' \in 0..MaxChanges
    BY <1>2 DEF ChangeAccess
  <2>2. CASE UpsertMe \/ PatchUser
    BY <2>1, <2>2 DEF UpsertMe, PatchUser
  <2>3. ASSUME NEW n \in Notes, CreateGrant(n) \/ DeleteGrant(n) \/ PatchVisibility(n)
        PROVE  AccessInv'
    BY <2>1, <2>3 DEF CreateGrant, DeleteGrant, PatchVisibility
  <2> QED BY <1>2, <2>2, <2>3 DEF ChangeAccess
<1>3. ChangeAccess \/ UNCHANGED access
  BY DEF Next, OthersChange, Begin, Quiet, Step, Exhaust, AskForTools, AskForAnswer, RefuseTool,
         RunTool, ToolsDone, FinalTurn, Retry, RetryRefused, Enrich, Finish, Fail, FailWith500,
         vars, world
<1> QED BY <1>1, <1>2, <1>3

LEMMA AccessInvInit == Init => AccessInv
BY DEF Init, AccessInit, AccessInv, GrantHasProfile, AccessTypeOK, Profile

(* The search clause and the predicate admit the same notes in every       *)
(* reachable state, because a grant needs a profile.                       *)
THEOREM RulesAgree == Spec => []VisibilityRulesAgree
<1>1. AccessInv => VisibilityRulesAgree
  BY DEF AccessInv, GrantHasProfile, AccessTypeOK, VisibilityRulesAgree, Searchable, CanSee, Sees
<1> QED BY <1>1, AccessInvInit, AccessStep, PTL DEF Spec

-----------------------------------------------------------------------------
(* What is shown.                                                          *)

(* Whatever a read may return of a note or a profile, it was so since the  *)
(* ask began, and then the viewer could see what it allows.                *)
Sighting ==
    /\ pc = "idle" => revealed = {} /\ cited = {} /\ labelled = {}
    /\ pc # "idle" =>
          /\ \A n \in Notes : TRUE \in attrs[n] \/ CanSee(n) => n \in sighted
          /\ "admin" \in roles => sighted = Notes

SightTypeOK ==
    /\ owned \in SUBSET Transcripts
    /\ attrs \in [Notes -> SUBSET BOOLEAN]
    /\ roles \in SUBSET Profile
    /\ sighted \in SUBSET Notes
    /\ revealed \in SUBSET Notes
    /\ labelled \in SUBSET Notes
    /\ cited \in SUBSET Ids

SightInv == AccessInv /\ SightTypeOK /\ Sighting /\ OnlySightedShown

(* The predicate and the search let nothing through that was not sighted.  *)
LEMMA SeenIsSighted ==
    ASSUME SightInv, pc # "idle"
    PROVE  /\ \A n \in Notes : NoteIsSeen(n) => n \in sighted
           /\ \A role \in roles : Searchable(role) \subseteq sighted
<1> USE DEF SightInv, SightTypeOK, Sighting, AccessInv, GrantHasProfile, AccessTypeOK
<1>1. \A n \in granted \cup shown : n \in sighted
  BY DEF CanSee, Sees
<1>2. ASSUME NEW n \in Notes, NoteIsSeen(n) PROVE n \in sighted
  <2>1. PICK isShown \in attrs[n], role \in roles : Sees(isShown, role, n \in granted)
    BY <1>2 DEF NoteIsSeen
  <2>2. isShown \in BOOLEAN
    OBVIOUS
  <2>3. CASE isShown
    BY <2>2, <2>3
  <2>4. CASE role = "admin"
    BY <2>4
  <2>5. CASE n \in granted
    BY <1>1, <2>5
  <2> QED BY <2>1, <2>3, <2>4, <2>5 DEF Sees
<1>3. ASSUME NEW role \in roles PROVE Searchable(role) \subseteq sighted
  BY <1>1, <1>3 DEF Searchable
<1> QED BY <1>2, <1>3

(* The note whose label comes with a transcript was made from it.          *)
LEMMA SoleNoteIsMade ==
    ASSUME NEW t \in owned
    PROVE  SoleNote(t) \subseteq MadeFrom(owned)
BY DEF SoleNote, MadeFrom

LEMMA SightInit == Init => SightInv
<1> SUFFICES ASSUME Init PROVE SightInv
  OBVIOUS
<1>1. /\ owned \in SUBSET Transcripts
      /\ pc = "idle" /\ revealed = {} /\ cited = {} /\ labelled = {} /\ sighted = {} /\ roles = {}
      /\ attrs = [n \in Notes |-> {}]
  BY DEF Init
<1> QED BY <1>1, AccessInvInit DEF SightInv, SightTypeOK, Sighting, OnlySightedShown

LEMMA SightStep ==
    ASSUME SightInv, [Next]_vars
    PROVE  SightInv'
<1>0. AccessInv'
  BY AccessStep DEF SightInv
<1> USE DEF SightTypeOK, Sighting, OnlySightedShown, history, seen
<1>1. CASE UNCHANGED vars \/ Quiet
  BY <1>0, <1>1 DEF SightInv, vars, Quiet, world, access, result, CanSee
<1>2. CASE OthersChange
  <2>1. /\ pc' = pc /\ UNCHANGED <<revealed, labelled, owned>> /\ cited' = cited
    BY <1>2 DEF OthersChange, result
  <2>2. CASE pc = "idle"
    BY <1>0, <1>2, <2>1, <2>2 DEF SightInv, OthersChange
  <2>3. CASE pc # "idle"
    <3>1. /\ attrs' = [n \in Notes |-> attrs[n] \cup {n \in shown'}]
          /\ roles' = roles \cup {profile'}
          /\ sighted' = sighted \cup {n \in Notes : CanSee(n)'}
      BY <1>2, <2>3 DEF OthersChange
    <3>2. attrs' \in [Notes -> SUBSET BOOLEAN]
      BY <3>1 DEF SightInv
    <3>3. roles' \in SUBSET Profile
      BY <1>0, <3>1 DEF SightInv, AccessInv, AccessTypeOK
    <3>4. ASSUME NEW n \in Notes, TRUE \in attrs'[n] PROVE n \in sighted'
      BY <2>3, <3>1, <3>4 DEF SightInv, CanSee, Sees
    <3>5. "admin" \in roles' => sighted' = Notes
      BY <2>3, <3>1 DEF SightInv, CanSee, Sees
    <3>6. sighted \subseteq sighted' /\ sighted' \subseteq Notes
      BY <3>1 DEF SightInv
    <3>7. \A n \in Notes : CanSee(n)' => n \in sighted'
      BY <3>1
    <3> QED BY <1>0, <2>1, <2>3, <3>2, <3>3, <3>4, <3>5, <3>6, <3>7 DEF SightInv
  <2> QED BY <2>2, <2>3
<1>3. CASE Begin
  <2>1. /\ pc = "idle" /\ pc' = "ask" /\ UNCHANGED <<revealed, labelled, owned>> /\ cited' = cited
        /\ profile' = profile /\ shown' = shown /\ granted' = granted
        /\ attrs' = [n \in Notes |-> {n \in shown}] /\ roles' = {profile}
        /\ sighted' = {n \in Notes : CanSee(n)}
    BY <1>3 DEF Begin, result, world, access
  <2>2. SightTypeOK'
    BY <2>1 DEF SightInv, AccessInv, AccessTypeOK
  <2>3. \A n \in Notes : TRUE \in attrs'[n] \/ CanSee(n)' => n \in sighted'
    BY <2>1 DEF CanSee, Sees
  <2>4. "admin" \in roles' => sighted' = Notes
    BY <2>1 DEF CanSee, Sees
  <2> QED BY <1>0, <2>1, <2>2, <2>3, <2>4 DEF SightInv
<1>4. CASE RunTool
  <2>1. /\ pc = "tools" /\ pc' = pc /\ cited' = cited /\ UNCHANGED <<world, history>>
    BY <1>4 DEF RunTool, result
  <2>2. CASE NoteTool
    <3>1. PICK hits \in Shown : revealed' = revealed \cup hits
      BY <2>2 DEF NoteTool
    <3>2. hits \subseteq sighted
      <4>1. CASE \E role \in roles : hits \subseteq Searchable(role)
        BY <2>1, <4>1, SeenIsSighted
      <4>2. CASE \E n \in Notes : hits = {n} /\ NoteIsSeen(n)
        BY <2>1, <4>2, SeenIsSighted
      <4>3. \/ hits = {}
            \/ \E role \in roles : hits \subseteq Searchable(role)
            \/ \E n \in Notes : hits = {n} /\ NoteIsSeen(n)
        BY <3>1 DEF Shown
      <4> QED BY <4>1, <4>2, <4>3
    <3>3. labelled' = labelled
      BY <2>2 DEF NoteTool
    <3> QED BY <1>0, <2>1, <3>1, <3>2, <3>3 DEF SightInv, world, access, CanSee
  <2>3. CASE TranscriptTool
    <3>1. PICK hits \in Labels : labelled' = labelled \cup hits /\ revealed' = revealed
      BY <2>3 DEF TranscriptTool
    <3>2. hits \subseteq MadeFrom(owned)
      <4>1. CASE hits \in SUBSET MadeFrom(owned)
        BY <4>1
      <4>2. CASE \E t \in owned : hits = SoleNote(t)
        BY <4>2, SoleNoteIsMade
      <4> QED BY <3>1, <4>1, <4>2 DEF Labels
    <3>3. MadeFrom(owned) \subseteq Notes
      BY DEF MadeFrom
    <3> QED BY <1>0, <2>1, <3>1, <3>2, <3>3 DEF SightInv, world, access, CanSee
  <2> QED BY <1>4, <2>2, <2>3 DEF RunTool
<1>5. CASE Enrich
  <2>1. /\ pc = "enrich" /\ pc' = pc /\ revealed' = revealed /\ UNCHANGED <<world, history>>
    BY <1>5 DEF Enrich
  <2>2. \/ cited' = cited /\ labelled' = labelled
        \/ \E n \in Notes : NoteIsSeen(n) /\ cited' = cited \cup {n} /\ labelled' = labelled
        \/ \E t \in owned : cited' = cited \cup {t} /\ labelled' = labelled \cup SoleNote(t)
    BY <1>5 DEF Enrich, NoteResolves, ChunkResolves
  <2>3. CASE cited' = cited /\ labelled' = labelled
    BY <1>0, <2>1, <2>3 DEF SightInv, world, access, CanSee
  <2>4. ASSUME NEW n \in Notes, NoteIsSeen(n), cited' = cited \cup {n}, labelled' = labelled
        PROVE  SightInv'
    <3>1. n \in sighted /\ n \notin Transcripts /\ n \in Ids
      BY <2>1, <2>4, SeenIsSighted DEF Ids
    <3> QED BY <1>0, <2>1, <2>4, <3>1 DEF SightInv, world, access, CanSee
  <2>5. ASSUME NEW t \in owned, cited' = cited \cup {t}, labelled' = labelled \cup SoleNote(t)
        PROVE  SightInv'
    <3>1. t \notin Notes /\ t \in Ids
      BY DEF SightInv, Ids
    <3>2. SoleNote(t) \subseteq MadeFrom(owned) /\ MadeFrom(owned) \subseteq Notes
      BY SoleNoteIsMade DEF MadeFrom
    <3> QED BY <1>0, <2>1, <2>5, <3>1, <3>2 DEF SightInv, world, access, CanSee
  <2> QED BY <2>2, <2>3, <2>4, <2>5
<1>6. CASE \/ Exhaust \/ AskForTools \/ AskForAnswer \/ RefuseTool \/ ToolsDone \/ FinalTurn
           \/ Retry \/ RetryRefused \/ Finish \/ Fail
  <2>1. /\ pc # "idle" /\ pc' # "idle" /\ UNCHANGED <<revealed, labelled>> /\ cited' = cited
        /\ UNCHANGED <<world, history>>
    BY <1>6 DEF Exhaust, AskForTools, AskForAnswer, RefuseTool, ToolsDone, FinalTurn, Retry,
                RetryRefused, Finish, Fail, FailWith500, Parse, result
  <2> QED BY <1>0, <2>1 DEF SightInv, world, access, CanSee
<1> QED BY <1>1, <1>2, <1>3, <1>4, <1>5, <1>6 DEF Next, Step

(* A note's text reaches the model, and a citation of a note the reader,   *)
(* only if the viewer could see that note at some time since the ask       *)
(* began, although rules, grants and profiles are read one after the other *)
(* and some of them as they were before.  The label of a note is shown     *)
(* with no such check, but only with a transcript of the viewer's own from *)
(* which the note was made.                                                *)
THEOREM AgentShowsSighted == Spec => []OnlySightedShown
<1>1. SightInv => OnlySightedShown
  BY DEF SightInv
<1> QED BY <1>1, SightInit, SightStep, PTL DEF Spec

-----------------------------------------------------------------------------
(* The answer.                                                             *)

(* Until an answer is returned there is none; while its citations are      *)
(* looked up, those still to do and those done are what its block cites.   *)
Answering ==
    /\ pc # "done" => answer = "none"
    /\ pc \in {"idle", "ask", "tools", "final", "retry"} => cited = {} /\ dropped = {}
    /\ pc = "enrich" => cited \cup dropped \cup todo = text.cites

AnswerInv == Answering /\ AnswerCoherent

LEMMA AnswerInit == Init => AnswerInv
BY DEF Init, AnswerInv, Answering, AnswerCoherent

LEMMA AnswerStep ==
    ASSUME AnswerInv, [Next]_vars
    PROVE  AnswerInv'
<1> USE DEF AnswerInv, Answering, AnswerCoherent
<1>1. CASE UNCHANGED vars \/ Quiet \/ OthersChange \/ Begin \/ Exhaust \/ AskForTools
           \/ RefuseTool \/ RunTool \/ ToolsDone
  BY <1>1 DEF vars, result, Quiet, OthersChange, Begin, Exhaust, AskForTools, RefuseTool, RunTool,
              ToolsDone
<1>2. CASE AskForAnswer \/ FinalTurn
  <2>1. /\ pc \in {"ask", "final"} /\ cited' = cited /\ dropped' = dropped /\ answer' = answer
        /\ pc' \in {"retry", "enrich"} /\ todo' = text'.cites
    BY <1>2 DEF AskForAnswer, FinalTurn, Parse
  <2> QED BY <2>1
<1>3. CASE Retry
  <2>1. PICK t \in Text : /\ text' = t /\ todo' = t.cites
                          /\ IF t.parsed THEN pc' = "enrich" /\ answer' = answer
                                         ELSE pc' = "done" /\ answer' = "200"
    BY <1>3 DEF Retry
  <2>2. pc = "retry" /\ cited' = cited /\ dropped' = dropped
    BY <1>3 DEF Retry
  <2>3. ~t.parsed => t.cites = {}
    <3>1. CASE t = NoBlock
      BY <3>1 DEF NoBlock
    <3>2. CASE t \in [parsed : {TRUE}, cites : SUBSET Ids]
      <4>1. t.parsed = TRUE
        BY <3>2
      <4> QED BY <4>1
    <3> QED BY <3>1, <3>2 DEF Text
  <2> QED BY <2>1, <2>2, <2>3
<1>4. CASE Enrich
  <2>1. PICK id \in todo : /\ todo' = todo \ {id}
                           /\ \/ cited' = cited \cup {id} /\ dropped' = dropped
                              \/ dropped' = dropped \cup {id} /\ cited' = cited
    BY <1>4 DEF Enrich
  <2>2. pc = "enrich" /\ pc' = pc /\ text' = text /\ answer' = answer
    BY <1>4 DEF Enrich
  <2> QED BY <2>1, <2>2
<1>5. CASE Finish
  BY <1>5 DEF Finish
<1>6. CASE RetryRefused \/ Fail
  BY <1>6 DEF RetryRefused, Fail, FailWith500
<1> QED BY <1>1, <1>2, <1>3, <1>4, <1>5, <1>6 DEF Next, Step

(* An answer returns or drops every id its own citation block names, and   *)
(* has no citation when its block does not parse.                          *)
THEOREM AgentAnswerCoherent == Spec => []AnswerCoherent
<1>1. AnswerInv => AnswerCoherent
  BY DEF AnswerInv
<1> QED BY <1>1, AnswerInit, AnswerStep, PTL DEF Spec
=============================================================================
