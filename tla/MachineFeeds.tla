---------------------------- MODULE MachineFeeds ----------------------------
(***************************************************************************)
(* What machines push to the service: evaluation findings, Prefect flow    *)
(* states, live plays and playlist snapshots, with the flag that switches  *)
(* the plays off, and the paged list of findings that the site reads.      *)
(*                                                                         *)
(* Delivery is at least once: an answer may be lost after the commit, the  *)
(* process may stop before it, and the sender then posts the same again:   *)
(* several handlers of a workload may carry the same message.              *)
(* A delivery is a handler with one session, as in WcsPipeline.            *)
(*                                                                         *)
(* An operator named Op_Fault is Op with a plausible bug, used by no       *)
(* action.                                                                 *)
(***************************************************************************)
EXTENDS Naturals, Sequences, FiniteSets, SequencesExt

CONSTANTS
    Handlers,      \* deliveries, re-deliveries and walks through the list
    Plans, PlanOf, \* the workloads that may turn out to be delivered
    Repos, Sources, Runs, Severities,
    FlowRepo,      \* _FLOW_REPO_MAP
    UnknownRepo,   \* the repo of a flow the map lacks
    Webhook,       \* the source prefect_webhook
    Plays,         \* live plays: (owner, title, artist, played_at) keys
    Playlists,     \* playlist ids
    Snapshots, Bodies,
    Limit,         \* the page size of the walks
    Ids,           \* bound: the uuids of findings, in the order of their values
    MaxTime,       \* bound: now() takes at most the values 1..MaxTime
    Null           \* SQL NULL: no run, no source, no snapshot, no row

Finding == [repo : Repos, source : Sources \cup {Null}, run : Runs \cup {Null},
            severity : Severities]
Row == [finding : Finding, id : Ids, at : 1..MaxTime]
Item == [id : Playlists, snapshot : Snapshots \cup {Null}, body : Bodies]

EvaluationPost == [kind : {"evaluation"}, finding : Finding]
WebhookPost    == [kind : {"webhook"}, flow : DOMAIN FlowRepo \cup {Null},
                   state : {"CRASHED", "FAILED", "OTHER"}, run : Runs \cup {Null}]
PlaysPost      == [kind : {"plays"}, plays : Seq(Plays)]
PlaylistsPost  == [kind : {"playlists"}, items : Seq(Item)]
FlagPatch      == [kind : {"flag"}, enabled : BOOLEAN]
Walk           == [kind : {"walk"}, repos : SUBSET Repos, run : Runs \cup {Null}]
Request == EvaluationPost \cup WebhookPost \cup PlaysPost \cup PlaylistsPost
             \cup FlagPatch \cup Walk

(* A workload: the flag before it, what a handler may turn out to serve,   *)
(* how many are in flight at once, and how far the clock runs meanwhile.   *)
Plan == [flag : BOOLEAN \cup {Null}, requests : [Handlers -> SUBSET Request],
         width : Nat, until : 1..MaxTime]

ASSUME ConstantsAssumption ==
    /\ IsFiniteSet(Handlers)
    /\ PlanOf \in [Plans -> Plan]
    /\ FlowRepo \in [DOMAIN FlowRepo -> Repos]
    /\ UnknownRepo \in Repos
    /\ Webhook \in Sources
    /\ {"ERROR", "WARN", "INFO"} \subseteq Severities
    /\ Ids \subseteq Nat
    /\ Limit \in Nat \ {0}
    /\ MaxTime \in Nat \ {0}

VARIABLES
    plan,          \* the workload being delivered
    now,           \* the database clock
    evaluations,   \* pipeline_evaluations
    plays,         \* live_plays, each with the delivery that inserted it
    playlists,     \* spotify_playlists by id, Null when absent
    flag,          \* flags.deejay_api.live_plays_enabled, Null when absent
    req, pc, answer, txn,
    work           \* local variables: counters, pages, the transaction's now()

db == <<plan, evaluations, plays, playlists, flag>>
vars == <<db, now, req, pc, answer, txn, work>>

Label == {"idle", "store", "count", "page", "answer", "read_flag", "insert_play",
          "upsert", "find_flag", "save_flag", "done"}

NoTxn == [plays |-> {}, items |-> <<>>]
NoWork == [at |-> 1, next |-> 1, written |-> 0, kept |-> 0, total |-> 0,
           pages |-> <<>>, then |-> {}]

Init ==
    /\ plan \in Plans
    /\ now = 1
    /\ evaluations = {}
    /\ plays = {}
    /\ playlists = [p \in Playlists |-> Null]
    /\ flag = PlanOf[plan].flag
    /\ req = [h \in Handlers |-> Null]
    /\ pc = [h \in Handlers |-> "idle"]
    /\ answer = [h \in Handlers |-> "none"]
    /\ txn = [h \in Handlers |-> NoTxn]
    /\ work = [h \in Handlers |-> NoWork]

-----------------------------------------------------------------------------
(***************************************************************************)
(* _eligible_latest_evaluation_ids_subquery.  The time of a row is         *)
(* coalesce(evaluated_at, created_at).  SQL equality is never true of      *)
(* NULL, so a row without a source joins with nothing.                     *)
(***************************************************************************)
SameKey(r, q) ==
    /\ r.finding.repo = q.finding.repo
    /\ r.finding.source # Null
    /\ r.finding.source = q.finding.source

Newest_OfAll(S) == {r \in S : SameKey(r, r) /\ \A q \in S : q.at <= r.at}
Newest(S) == {r \in S : SameKey(r, r) /\ \A q \in S : SameKey(r, q) => q.at <= r.at}
LatestRuns(S) == {r \in Newest(S) : r.finding.run # Null}

ByRun_AtLatestOnly(S) == LatestRuns(S)
ByRun(S) == {r \in S : \E q \in LatestRuns(S) : SameKey(r, q) /\ r.finding.run = q.finding.run}
ByTime(S) == {r \in Newest(S) : \A q \in LatestRuns(S) : ~SameKey(r, q)}

Eligible(S) == ByRun(S) \cup ByTime(S)

(* _csv_filter: a parameter that is absent or blank filters nothing.       *)
Matches(r, w) ==
    /\ w.repos = {} \/ r.finding.repo \in w.repos
    /\ w.run = Null \/ r.finding.run = w.run

Listed(S, w) == {r \in Eligible(S) : Matches(r, w)}

(* ORDER BY coalesce(evaluated_at, created_at) DESC, id DESC.              *)
Before_NoTieBreak(r, q) == r.at > q.at
Before(r, q) == r.at > q.at \/ (r.at = q.at /\ r.id > q.id)

Orders(S) == {s \in SetToSeqs(S) : \A i, j \in DOMAIN s : i < j => ~Before(s[j], s[i])}

-----------------------------------------------------------------------------
(* Sessions.                                                               *)

Others(h) == Handlers \ {h}
InFlight == {h \in Handlers : pc[h] \notin {"idle", "done"}}

(* The play or playlist that the handler's next statement writes.          *)
NextPlay(h) == req[h].plays[work[h].next]
NextItem(h) == req[h].items[work[h].next]

(* ON CONFLICT waits for the transaction that has written the key; DO      *)
(* UPDATE locks the row also where its WHERE turns out false.              *)
BlockedBy(h) ==
    CASE pc[h] = "insert_play" /\ work[h].next <= Len(req[h].plays) ->
           {g \in Others(h) : NextPlay(h) \in txn[g].plays}
      [] pc[h] = "upsert" /\ work[h].next <= Len(req[h].items) ->
           {g \in Others(h) : \E i \in DOMAIN txn[g].items : txn[g].items[i].id = NextItem(h).id}
      [] OTHER -> {}

WaitsWithin(S) == S # {} /\ \A h \in S : BlockedBy(h) \cap S # {}
Deadlocked(h) ==
    BlockedBy(h) # {} /\ \E S \in SUBSET Handlers :
        /\ h \in S
        /\ WaitsWithin(S)
        /\ \A R \in SUBSET S : WaitsWithin(R) => R = S

Goto(h, label) == pc' = [pc EXCEPT ![h] = label]

EndWith_KeepsLocks(h, code) ==
    /\ Goto(h, "done")
    /\ answer' = [answer EXCEPT ![h] = code]
    /\ UNCHANGED <<db, now, req, txn, work>>

(* The handler ends without committing: its session is rolled back.        *)
EndWith(h, code) ==
    /\ Goto(h, "done")
    /\ answer' = [answer EXCEPT ![h] = code]
    /\ txn' = [txn EXCEPT ![h] = NoTxn]
    /\ work' = [work EXCEPT ![h] = NoWork]
    /\ UNCHANGED <<db, now, req>>

(* The handler has committed and answers 200; the sender, who may not      *)
(* receive it, may post the same again all the same.                       *)
Answer(h) ==
    /\ Goto(h, "done")
    /\ answer' = [answer EXCEPT ![h] = "200"]
    /\ txn' = [txn EXCEPT ![h] = NoTxn]
    /\ work' = [work EXCEPT ![h] = NoWork]
    /\ UNCHANGED <<plan, now, req>>

EntryOf(r) ==
    CASE r.kind \in {"evaluation", "webhook"} -> "store"
      [] r.kind = "plays" -> "read_flag"
      [] r.kind = "playlists" -> "upsert"
      [] r.kind = "flag" -> "find_flag"
      [] r.kind = "walk" -> "count"

(* now() is the time the transaction started, not the time of the row's    *)
(* insertion or of the commit.                                             *)
Begin(h) ==
    /\ pc[h] = "idle"
    /\ Cardinality(InFlight) < PlanOf[plan].width
    /\ \E r \in PlanOf[plan].requests[h] :
          /\ req' = [req EXCEPT ![h] = r]
          /\ Goto(h, EntryOf(r))
    /\ work' = [work EXCEPT ![h].at = now,
                            ![h].then = IF req'[h].kind = "walk" THEN evaluations ELSE {}]
    /\ UNCHANGED <<db, now, answer, txn>>

-----------------------------------------------------------------------------
(* POST /v1/evaluations and POST /v1/prefect-webhook.                      *)

SeverityForState(state) ==
    CASE state = "CRASHED" -> "ERROR"
      [] state = "FAILED" -> "WARN"
      [] OTHER -> "INFO"

WebhookFinding(r) ==
    [repo |-> IF r.flow \in DOMAIN FlowRepo THEN FlowRepo[r.flow] ELSE UnknownRepo,
     source |-> Webhook, run |-> r.run, severity |-> SeverityForState(r.state)]

FindingOf(r) == IF r.kind = "webhook" THEN WebhookFinding(r) ELSE r.finding

(* Insert, flush and commit, with a random uuid: nothing says that the     *)
(* same finding has been delivered before.                                 *)
Store(h) ==
    /\ pc[h] = "store"
    /\ \E id \in Ids :
          /\ \A r \in evaluations : r.id # id
          /\ evaluations' = evaluations \cup
                {[finding |-> FindingOf(req[h]), id |-> id, at |-> work[h].at]}
    /\ Answer(h)
    /\ UNCHANGED <<plays, playlists, flag>>

(* GET /v1/evaluations, page after page until the total is reached: every  *)
(* page is a count and a select, each with a snapshot of its own.          *)
Count(h) ==
    /\ pc[h] = "count"
    /\ work' = [work EXCEPT ![h].total = Cardinality(Listed(evaluations, req[h]))]
    /\ Goto(h, "page")
    /\ UNCHANGED <<db, now, req, answer, txn>>

Page(h) ==
    /\ pc[h] = "page"
    /\ \E order \in Orders(Listed(evaluations, req[h])) :
          LET last == Min({work[h].next + Limit - 1, Len(order)})
              page == SubSeq(order, work[h].next, last)
          IN  work' = [work EXCEPT ![h].pages = @ \o page, ![h].next = @ + Limit]
    /\ Goto(h, IF work[h].next + Limit > work[h].total THEN "answer" ELSE "count")
    /\ UNCHANGED <<db, now, req, answer, txn>>

EndWalk(h) ==
    /\ pc[h] = "answer"
    /\ Answer(h)
    /\ UNCHANGED <<evaluations, plays, playlists, flag>>

-----------------------------------------------------------------------------
(* POST /v1/live-plays, and PATCH /v1/flags/{name}.                        *)

(* is_enabled: a flag that does not exist is open.                         *)
IsEnabled(f) == f # FALSE

ReadFlag(h) ==
    /\ pc[h] = "read_flag"
    /\ IF IsEnabled(flag)
       THEN Goto(h, "insert_play") /\ UNCHANGED <<db, now, req, answer, txn, work>>
       ELSE EndWith(h, "503")

(* The unique key (owner_id, title, artist, played_at).                    *)
Conflicts(h, play) == play \in txn[h].plays \/ \E r \in plays : r.play = play

(* INSERT ... ON CONFLICT DO NOTHING.                                      *)
InsertPlay(h) ==
    /\ pc[h] = "insert_play"
    /\ work[h].next <= Len(req[h].plays)
    /\ BlockedBy(h) = {}
    /\ IF Conflicts(h, NextPlay(h))
       THEN /\ work' = [work EXCEPT ![h].next = @ + 1, ![h].kept = @ + 1]
            /\ UNCHANGED txn
       ELSE /\ work' = [work EXCEPT ![h].next = @ + 1, ![h].written = @ + 1]
            /\ txn' = [txn EXCEPT ![h].plays = @ \cup {NextPlay(h)}]
    /\ UNCHANGED <<db, now, req, pc, answer>>

CommitPlays(h) ==
    /\ pc[h] = "insert_play"
    /\ work[h].next > Len(req[h].plays)
    /\ plays' = plays \cup {[play |-> p, by |-> h] : p \in txn[h].plays}
    /\ Answer(h)
    /\ UNCHANGED <<evaluations, playlists, flag>>

(* The row is found and written, or not found, by name.                    *)
FindFlag(h) ==
    /\ pc[h] = "find_flag"
    /\ IF flag = Null
       THEN EndWith(h, "404")
       ELSE Goto(h, "save_flag") /\ UNCHANGED <<db, now, req, answer, txn, work>>

SaveFlag(h) ==
    /\ pc[h] = "save_flag"
    /\ flag' = req[h].enabled
    /\ Answer(h)
    /\ UNCHANGED <<evaluations, plays, playlists>>

-----------------------------------------------------------------------------
(* POST /v1/spotify/playlists.                                             *)

(* The row as the handler's statement sees it: its own last write or the   *)
(* committed one.                                                          *)
LastOf(items, p) == CHOOSE i \in DOMAIN items :
    items[i].id = p /\ \A j \in DOMAIN items : items[j].id = p => j <= i

StoredItem(h, p) ==
    LET own == txn[h].items
    IN  IF \E i \in DOMAIN own : own[i].id = p THEN own[LastOf(own, p)] ELSE playlists[p]

IsDistinct_SqlUnequal(old, new) == old # Null /\ new # Null /\ old # new
(* IS DISTINCT FROM, of snapshot ids that may be NULL.                     *)
IsDistinct(old, new) == old # new

(* INSERT ... ON CONFLICT DO UPDATE ... WHERE the snapshot is distinct.    *)
Upsert(h) ==
    /\ pc[h] = "upsert"
    /\ work[h].next <= Len(req[h].items)
    /\ BlockedBy(h) = {}
    /\ LET item == NextItem(h)
           old == StoredItem(h, item.id)
       IN  IF old = Null \/ IsDistinct(old.snapshot, item.snapshot)
           THEN /\ txn' = [txn EXCEPT ![h].items = Append(@, item)]
                /\ work' = [work EXCEPT ![h].next = @ + 1, ![h].written = @ + 1]
           ELSE /\ txn' = [txn EXCEPT ![h].items = Append(@, old)]
                /\ work' = [work EXCEPT ![h].next = @ + 1, ![h].kept = @ + 1]
    /\ UNCHANGED <<db, now, req, pc, answer>>

CommitPlaylists(h) ==
    /\ pc[h] = "upsert"
    /\ work[h].next > Len(req[h].items)
    /\ playlists' = [p \in Playlists |-> StoredItem(h, p)]
    /\ Answer(h)
    /\ UNCHANGED <<evaluations, plays, flag>>

-----------------------------------------------------------------------------
(* The environment.                                                        *)

Tick == now < PlanOf[plan].until /\ now' = now + 1 /\ UNCHANGED <<db, req, pc, answer, txn, work>>
Crash(h) == pc[h] \notin {"idle", "done"} /\ EndWith(h, "crashed")
BreakDeadlock(h) == Deadlocked(h) /\ EndWith(h, "500")
Quiet == InFlight = {} /\ UNCHANGED vars

Step(h) ==
    \/ Store(h) \/ Count(h) \/ Page(h) \/ EndWalk(h)
    \/ ReadFlag(h) \/ InsertPlay(h) \/ CommitPlays(h) \/ FindFlag(h) \/ SaveFlag(h)
    \/ Upsert(h) \/ CommitPlaylists(h)

Next ==
    \/ \E h \in Handlers : Begin(h) \/ Step(h) \/ BreakDeadlock(h) \/ Crash(h)
    \/ Tick
    \/ Quiet

Fairness == \A h \in Handlers : WF_vars(Step(h) \/ BreakDeadlock(h))
Spec == Init /\ [][Next]_vars /\ Fairness

-----------------------------------------------------------------------------
(* Properties.                                                             *)

TypeOK ==
    /\ plan \in Plans
    /\ now \in 1..MaxTime
    /\ evaluations \subseteq Row
    /\ plays \subseteq [play : Plays, by : Handlers]
    /\ playlists \in [Playlists -> Item \cup {Null}]
    /\ flag \in BOOLEAN \cup {Null}
    /\ req \in [Handlers -> Request \cup {Null}]
    /\ pc \in [Handlers -> Label]
    /\ answer \in [Handlers -> {"none", "200", "404", "500", "503", "crashed"}]
    /\ \A h \in Handlers :
          /\ txn[h].plays \subseteq Plays
          /\ txn[h].items \in Seq(Item)
          /\ work[h].pages \in Seq(Row)
          /\ work[h].then \subseteq Row

(* The list shows, of every repo and source, the newest finding, and of a  *)
(* run whose findings it shows it shows all, the earlier ones included:    *)
(* "return all rows with that run_id for the repo+source".                 *)
RunsListedWhole ==
    \A r \in evaluations :
        /\ r \in Newest(evaluations) /\ r.finding.run # Null => r \in Eligible(evaluations)
        /\ r \in Eligible(evaluations) /\ r.finding.run # Null =>
              \A q \in evaluations :
                  SameKey(r, q) /\ q.finding.run = r.finding.run => q \in Eligible(evaluations)
        /\ r.finding.source # Null => \E q \in Eligible(evaluations) : SameKey(r, q)

(* A finding that is listed stops being listed only when a finding of      *)
(* another run of its repo and source, started at the same time or later,  *)
(* is stored: no finding of another repo, no late commit of an earlier     *)
(* transaction and no redelivery of its own run hides it.                  *)
ShownUntilOutrun ==
    [][\A r \in Eligible(evaluations) \ Eligible(evaluations') :
          \E q \in evaluations' \ evaluations :
              /\ SameKey(r, q)
              /\ q.at >= r.at
              /\ q.finding.run = Null \/ q.finding.run # r.finding.run]_evaluations

(* A walk through the pages during which no finding was stored sees every  *)
(* finding that the filters match exactly once, in the order of the list,  *)
(* although rows may share a timestamp and each page is sorted anew.       *)
QuietWalkIsComplete ==
    \A h \in Handlers : pc[h] = "answer" /\ work[h].then = evaluations =>
        LET seen == work[h].pages
        IN  /\ {seen[i] : i \in DOMAIN seen} = Listed(evaluations, req[h])
            /\ Len(seen) = work[h].total
            /\ \A i, j \in DOMAIN seen : i < j => seen[i].at >= seen[j].at

(* Whatever is delivered twice, at once or in any order: no play has two   *)
(* rows, an answered delivery has each of its plays stored and counted     *)
(* once, and at its commit each of its playlists is at the snapshot it     *)
(* carried last.                                                           *)
Committed(h) == answer[h] = "none" /\ answer'[h] = "200"
FeedsStoredOnce ==
    [][\A h \in Handlers : Committed(h) =>
          /\ req[h].kind = "plays" =>
                /\ \A i \in DOMAIN req[h].plays :
                      Cardinality({r \in plays' : r.play = req[h].plays[i]}) = 1
                /\ Cardinality({r \in plays' : r.by = h}) = work[h].written
                /\ work[h].written + work[h].kept = Len(req[h].plays)
          /\ req[h].kind = "playlists" =>
                \A i \in DOMAIN req[h].items :
                    LET p == req[h].items[i].id
                    IN  playlists'[p].snapshot = req[h].items[LastOf(req[h].items, p)].snapshot]_vars

(* Every delivery and every walk ends: plays and playlists posted in       *)
(* opposite orders wait for each other only until the deadlock is broken.  *)
EveryDeliveryEnds == <>[](InFlight = {})

=============================================================================
