------------------------- MODULE MachineFeedsProofs -------------------------
(* Theorems about MachineFeeds, for any deliveries, any number of them in  *)
(* flight, any clock and any interleaving of redeliveries, walks, crashes  *)
(* and deadlocks.                                                          *)
EXTENDS MachineFeeds, FiniteSetTheorems, TLAPS

-----------------------------------------------------------------------------
(* A set of naturals with an upper bound has a greatest element: its least *)
(* upper bound.                                                            *)
LEMMA GreatestExists ==
    ASSUME NEW S \in SUBSET Nat, S # {}, NEW n \in Nat, \A k \in S : k <= n
    PROVE  \E m \in S : \A k \in S : k <= m
<1> DEFINE Bounds == {b \in Nat : \A k \in S : k <= b}
<1>1. Bounds \subseteq Nat /\ Bounds # {}
  BY DEF Bounds
<1>2. PICK b \in Bounds : \A c \in Bounds : ~ (<<c, b>> \in OpToRel(<, Nat))
  BY <1>1, NatLessThanWellFounded, WFMin
<1>p. \A c \in Bounds : c \in Nat => ~(c < b)
  BY <1>1, <1>2, Zenon DEF OpToRel
<1>3. \A c \in Bounds : b <= c
  BY <1>1, <1>p
<1>4. CASE b \in S
  BY <1>4 DEF Bounds
<1>5. CASE b \notin S
  <2>1. PICK k \in S : TRUE
    OBVIOUS
  <2>2. b # 0 /\ b \in Nat /\ b - 1 \in Nat
    BY <2>1, <1>5 DEF Bounds
  <2>3. b - 1 \in Bounds
    BY <2>2, <1>5 DEF Bounds
  <2> HIDE DEF Bounds
  <2> QED BY <2>2, <2>3, <1>3
<1> QED BY <1>4, <1>5

(* And a set of naturals has a least one.                                  *)
LEMMA LeastExists ==
    ASSUME NEW S \in SUBSET Nat, S # {}
    PROVE  \E m \in S : \A k \in S : m <= k
<1>1. PICK m \in S : \A c \in S : ~ (<<c, m>> \in OpToRel(<, Nat))
  BY NatLessThanWellFounded, WFMin
<1>2. \A c \in S : ~(c < m)
  BY <1>1, Zenon DEF OpToRel
<1> QED BY <1>2

(* The last item with a given id, where there is one.                      *)
LEMMA LastOfItems ==
    ASSUME NEW items \in Seq(Item), NEW p, \E i \in DOMAIN items : items[i].id = p
    PROVE  /\ LastOf(items, p) \in DOMAIN items
           /\ items[LastOf(items, p)].id = p
           /\ \A j \in DOMAIN items : items[j].id = p => j <= LastOf(items, p)
<1> DEFINE At == {i \in DOMAIN items : items[i].id = p}
<1>1. At \in SUBSET Nat /\ At # {} /\ Len(items) \in Nat /\ \A k \in At : k <= Len(items)
  OBVIOUS
<1>2. \E m \in At : \A k \in At : k <= m
  BY <1>1, GreatestExists
<1>3. \E i \in DOMAIN items :
          items[i].id = p /\ \A j \in DOMAIN items : items[j].id = p => j <= i
  BY <1>2
<1> QED BY <1>3 DEF LastOf

(* The least of two naturals.                                              *)
LEMMA MinOfTwo ==
    ASSUME NEW a \in Nat, NEW b \in Nat
    PROVE  Min({a, b}) = IF a <= b THEN a ELSE b
BY DEF Min

(* A page ends within the list.                                            *)
LEMMA PageBound ==
    ASSUME NEW n \in Nat \ {0}, NEW len \in Nat
    PROVE  /\ Min({n + Limit - 1, len}) \in Nat
           /\ Min({n + Limit - 1, len}) = IF n + Limit - 1 <= len THEN n + Limit - 1 ELSE len
<1>1. PICK a \in Nat : a = n + Limit - 1
  BY ConstantsAssumption
<1> QED BY <1>1, MinOfTwo

-----------------------------------------------------------------------------
(* The list of findings, whatever rows it is made from.                    *)

(* Among the rows of a repo and source one is the newest.                  *)
LEMMA NewestExists ==
    ASSUME NEW S \in SUBSET Row, NEW r \in S, r.finding.source # Null
    PROVE  \E q \in Newest(S) : SameKey(r, q)
<1> USE ConstantsAssumption
<1> DEFINE Times == {q.at : q \in {x \in S : SameKey(r, x)}}
<1>1. Times \in SUBSET Nat /\ \A k \in Times : k <= MaxTime
  BY DEF Row
<1>2. r.at \in Times
  BY DEF SameKey
<1>3. PICK m \in Times : \A k \in Times : k <= m
  <2> HIDE DEF Times
  <2> QED BY <1>1, <1>2, GreatestExists
<1>4. PICK q \in S : SameKey(r, q) /\ q.at = m
  OBVIOUS
<1>5. SameKey(q, q) /\ \A x \in S : SameKey(q, x) => SameKey(r, x)
  BY <1>4 DEF SameKey
<1>6. \A x \in S : SameKey(q, x) => x.at <= q.at
  BY <1>3, <1>4, <1>5
<1> QED BY <1>4, <1>5, <1>6 DEF Newest

(* What RunsListedWhole says of the rows stored now holds for any rows.    *)
LEMMA ListIsWhole ==
    ASSUME NEW S \in SUBSET Row, NEW r \in S
    PROVE  /\ r \in Newest(S) /\ r.finding.run # Null => r \in Eligible(S)
           /\ r \in Eligible(S) /\ r.finding.run # Null =>
                 \A q \in S : SameKey(r, q) /\ q.finding.run = r.finding.run => q \in Eligible(S)
           /\ r.finding.source # Null => \E q \in Eligible(S) : SameKey(r, q)
<1>1. r \in Newest(S) /\ r.finding.run # Null => r \in Eligible(S)
  BY DEF Newest, Eligible, ByRun, LatestRuns
<1>2. ASSUME r \in Eligible(S), r.finding.run # Null,
             NEW q \in S, SameKey(r, q), q.finding.run = r.finding.run
      PROVE  q \in Eligible(S)
  <2>1. r \in ByRun(S)
    BY <1>2 DEF Eligible, ByTime, LatestRuns, Newest
  <2>2. PICK x \in LatestRuns(S) : SameKey(r, x) /\ r.finding.run = x.finding.run
    BY <2>1 DEF ByRun
  <2>3. SameKey(q, x)
    BY <2>2, <1>2 DEF SameKey
  <2> QED BY <2>2, <2>3, <1>2 DEF Eligible, ByRun
<1>3. ASSUME r.finding.source # Null
      PROVE  \E q \in Eligible(S) : SameKey(r, q)
  <2>1. PICK q \in Newest(S) : SameKey(r, q)
    BY <1>3, NewestExists
  <2>2. CASE \E x \in LatestRuns(S) : SameKey(q, x)
    <3>1. PICK x \in LatestRuns(S) : SameKey(q, x)
      BY <2>2
    <3>2. SameKey(r, x) /\ SameKey(x, x) /\ x \in S
      BY <3>1, <2>1 DEF SameKey, LatestRuns, Newest
    <3> QED BY <3>1, <3>2 DEF Eligible, ByRun
  <2>3. CASE ~ \E x \in LatestRuns(S) : SameKey(q, x)
    BY <2>1, <2>3 DEF Eligible, ByTime
  <2> QED BY <2>2, <2>3
<1> QED BY <1>1, <1>2, <1>3

(* One more finding takes a row off the list only when it is at least as   *)
(* new, of the same repo and source and of another run.                    *)
LEMMA OnlyOutrunRowsGo ==
    ASSUME NEW S \in SUBSET Row, NEW x \in Row, x \notin S,
           NEW r \in Eligible(S), r \notin Eligible(S \cup {x})
    PROVE  /\ SameKey(r, x)
           /\ x.at >= r.at
           /\ x.finding.run = Null \/ x.finding.run # r.finding.run
<1> USE ConstantsAssumption
<1> DEFINE T == S \cup {x}
<1>0. T \in SUBSET Row /\ r \in S /\ r \notin ByRun(T) /\ r \notin ByTime(T)
  BY DEF Eligible, ByRun, ByTime, Newest
<1>t. \A q \in T : q.at \in Nat
  BY <1>0 DEF Row
<1>1. CASE r \in ByRun(S)
  <2>1. PICK q \in LatestRuns(S) : SameKey(r, q) /\ r.finding.run = q.finding.run
    BY <1>1 DEF ByRun
  <2>2. q \in S /\ q \in Newest(S) /\ q.finding.run # Null
    BY <2>1 DEF LatestRuns, Newest
  <2>3. q \notin Newest(T)
    BY <2>1, <2>2, <1>0 DEF ByRun, LatestRuns
  <2>4. SameKey(q, x) /\ x.at > q.at
    <3>1. SameKey(q, q) /\ \A y \in S : SameKey(q, y) => y.at <= q.at
      BY <2>2 DEF Newest
    <3> QED BY <3>1, <2>2, <2>3, <1>t DEF Newest
  <2>5. SameKey(r, x) /\ SameKey(x, x) /\ SameKey(x, r)
    BY <2>1, <2>4 DEF SameKey
  <2>6. r.at <= q.at
    BY <2>2, <2>1, <1>0 DEF Newest, SameKey
  <2>7. x \in Newest(T)
    <3>1. \A y \in S : SameKey(x, y) => y.at <= q.at
      BY <2>2, <2>4 DEF Newest, SameKey
    <3>2. \A y \in T : SameKey(x, y) => y.at <= x.at
      BY <3>1, <2>4, <2>2, <1>t
    <3> QED BY <3>2, <2>5 DEF Newest
  <2>8. x.finding.run = r.finding.run => x.finding.run = Null
    BY <2>5, <2>7, <1>0 DEF ByRun, LatestRuns
  <2> QED BY <2>4, <2>5, <2>6, <2>8, <2>2, <1>0, <1>t
<1>2. CASE r \in ByTime(S)
  <2>1. r \in Newest(S) /\ SameKey(r, r) /\ \A q \in LatestRuns(S) : ~SameKey(r, q)
    BY <1>2 DEF ByTime, Newest
  <2>2. r.finding.run = Null
    BY <2>1 DEF LatestRuns
  <2>3. CASE r \notin Newest(T)
    <3>1. SameKey(r, x) /\ x.at > r.at
      BY <2>1, <2>3, <1>0, <1>t DEF Newest
    <3> QED BY <3>1, <2>2, <1>0, <1>t
  <2>4. CASE r \in Newest(T)
    <3>1. PICK q \in LatestRuns(T) : SameKey(r, q)
      BY <2>4, <1>0 DEF ByTime
    <3>2. q = x
      <4>1. q \in S => q \in LatestRuns(S)
        BY <3>1 DEF LatestRuns, Newest
      <4> QED BY <4>1, <3>1, <2>1 DEF LatestRuns, Newest
    <3>3. x \in Newest(T) /\ SameKey(x, r)
      BY <3>1, <3>2 DEF LatestRuns, SameKey
    <3>4. x.at >= r.at
      BY <3>3, <1>0, <1>t DEF Newest
    <3> QED BY <3>1, <3>2, <3>4, <2>2
  <2> QED BY <2>3, <2>4
<1> QED BY <1>1, <1>2 DEF Eligible

-----------------------------------------------------------------------------
(* Types.                                                                  *)

Local == [at : 1..MaxTime, next : Nat \ {0}, written : Nat, kept : Nat, total : Nat,
          pages : Seq(Row), then : SUBSET Row]
Pending == [plays : SUBSET Plays, items : Seq(Item)]

(* A handler is only where the handler of its request's kind can be.       *)
Station(r, label) ==
    /\ label # "idle" => r \in Request
    /\ label = "store" => r.kind \in {"evaluation", "webhook"}
    /\ label \in {"count", "page", "answer"} => r.kind = "walk"
    /\ label \in {"read_flag", "insert_play"} => r.kind = "plays"
    /\ label = "upsert" => r.kind = "playlists"
    /\ label \in {"find_flag", "save_flag"} => r.kind = "flag"

(* TypeOK by itself is not inductive: what SaveFlag writes is a Boolean    *)
(* because the request it serves is a patch of the flag.                   *)
IType ==
    /\ TypeOK
    /\ IsFiniteSet(evaluations)
    /\ txn \in [Handlers -> Pending]
    /\ work \in [Handlers -> Local]
    /\ \A h \in Handlers : Station(req[h], pc[h])

LEMMA RequestKinds ==
    ASSUME NEW r \in Request
    PROVE  /\ r.kind \in {"evaluation", "webhook", "plays", "playlists", "flag", "walk"}
           /\ r.kind = "evaluation" => r.finding \in Finding
           /\ r.kind = "webhook" => r.run \in Runs \cup {Null}
           /\ r.kind = "plays" => r.plays \in Seq(Plays)
           /\ r.kind = "playlists" => r.items \in Seq(Item)
           /\ r.kind = "flag" => r.enabled \in BOOLEAN
BY DEF Request, EvaluationPost, WebhookPost, PlaysPost, PlaylistsPost, FlagPatch, Walk

LEMMA EntryStation ==
    ASSUME NEW r \in Request
    PROVE  EntryOf(r) \in Label /\ EntryOf(r) # "idle" /\ Station(r, EntryOf(r))
BY RequestKinds DEF EntryOf, Station, Label

LEMMA FindingType ==
    ASSUME NEW r \in Request, r.kind \in {"evaluation", "webhook"}
    PROVE  FindingOf(r) \in Finding
<1>1. CASE r.kind = "evaluation"
  BY <1>1, RequestKinds DEF FindingOf
<1>2. CASE r.kind = "webhook"
  <2>1. SeverityForState(r.state) \in Severities
    BY ConstantsAssumption DEF SeverityForState
  <2>2. r.flow \in DOMAIN FlowRepo => FlowRepo[r.flow] \in Repos
    BY ConstantsAssumption
  <2> QED BY <1>2, <2>1, <2>2, RequestKinds, ConstantsAssumption
          DEF FindingOf, WebhookFinding, Finding
<1> QED BY <1>1, <1>2

LEMMA NoWorkType == NoWork \in Local /\ NoTxn \in Pending
BY ConstantsAssumption DEF NoWork, Local, NoTxn, Pending

(* What the handler's statement finds of a playlist is a row of it.        *)
LEMMA StoredItemType ==
    ASSUME IType, NEW h \in Handlers, NEW p \in Playlists
    PROVE  StoredItem(h, p) \in Item \cup {Null}
<1>1. txn[h].items \in Seq(Item)
  BY DEF IType, Pending
<1>2. PICK own \in Seq(Item) : own = txn[h].items
  BY <1>1
<1>3. CASE \E i \in DOMAIN own : own[i].id = p
  <2>1. LastOf(own, p) \in DOMAIN own
    BY <1>3, LastOfItems
  <2>2. own[LastOf(own, p)] \in Item
    BY <2>1
  <2> QED BY <2>2, <1>2, <1>3 DEF StoredItem
<1>4. CASE ~ \E i \in DOMAIN own : own[i].id = p
  BY <1>4, <1>2 DEF StoredItem, IType, TypeOK
<1> QED BY <1>3, <1>4

LEMMA TypeInit ==
    ASSUME Init
    PROVE  IType
<1>1. TypeOK
  <2>1. flag \in BOOLEAN \cup {Null} /\ now \in 1..MaxTime
    BY ConstantsAssumption DEF Init, Plan
  <2>2. \A h \in Handlers : txn[h] = NoTxn /\ work[h] = NoWork
    BY DEF Init
  <2>3. \A h \in Handlers :
            /\ txn[h].plays \subseteq Plays
            /\ txn[h].items \in Seq(Item)
            /\ work[h].pages \in Seq(Row)
            /\ work[h].then \subseteq Row
    BY <2>2, NoWorkType DEF Pending, Local
  <2> QED BY <2>1, <2>3 DEF Init, TypeOK, Label
<1>2. IsFiniteSet(evaluations)
  BY FS_EmptySet DEF Init
<1>3. txn \in [Handlers -> Pending] /\ work \in [Handlers -> Local]
  BY NoWorkType DEF Init
<1>4. \A h \in Handlers : Station(req[h], pc[h])
  BY DEF Init, Station
<1> QED BY <1>1, <1>2, <1>3, <1>4 DEF IType

(* The types of the handlers' own variables, from those of the functions.  *)
LEMMA TypeFromFunctions ==
    ASSUME NEW t \in [Handlers -> Pending], NEW w \in [Handlers -> Local]
    PROVE  \A h \in Handlers :
              /\ t[h].plays \subseteq Plays
              /\ t[h].items \in Seq(Item)
              /\ w[h].pages \in Seq(Row)
              /\ w[h].then \subseteq Row
<1>1. \A h \in Handlers : t[h] \in Pending /\ w[h] \in Local
  OBVIOUS
<1> QED BY <1>1 DEF Pending, Local

(* The updates that the actions make to the local variables of a handler.  *)
LEMMA LocalBegin ==
    ASSUME NEW w \in [Handlers -> Local], NEW h \in Handlers,
           NEW a \in 1..MaxTime, NEW t \in SUBSET Row
    PROVE  [w EXCEPT ![h].at = a, ![h].then = t] \in [Handlers -> Local]
BY DEF Local

LEMMA LocalPage ==
    ASSUME NEW w \in [Handlers -> Local], NEW h \in Handlers,
           NEW q \in Seq(Row), NEW n \in Nat \ {0}
    PROVE  [w EXCEPT ![h].pages = q, ![h].next = n] \in [Handlers -> Local]
BY DEF Local

LEMMA LocalItem ==
    ASSUME NEW w \in [Handlers -> Local], NEW h \in Handlers,
           NEW n \in Nat \ {0}, NEW k \in Nat
    PROVE  /\ [w EXCEPT ![h].next = n, ![h].kept = k] \in [Handlers -> Local]
           /\ [w EXCEPT ![h].next = n, ![h].written = k] \in [Handlers -> Local]
BY DEF Local

LEMMA PendingPlay ==
    ASSUME NEW t \in [Handlers -> Pending], NEW h \in Handlers, NEW p \in Plays
    PROVE  [t EXCEPT ![h].plays = @ \cup {p}] \in [Handlers -> Pending]
BY DEF Pending

LEMMA PageType ==
    ASSUME NEW q \in Seq(Row), NEW n \in Nat \ {0}, NEW m \in Nat, m <= Len(q)
    PROVE  SubSeq(q, n, m) \in Seq(Row)
OBVIOUS

LEMMA LocalNumbers ==
    ASSUME work \in [Handlers -> Local], NEW h \in Handlers
    PROVE  /\ work[h].next \in Nat \ {0} /\ work[h].next + 1 \in Nat \ {0}
           /\ work[h].kept + 1 \in Nat /\ work[h].written + 1 \in Nat
<1>1. work[h] \in Local
  OBVIOUS
<1> QED BY <1>1 DEF Local

(* A handler that ends, with or without a commit, leaves its own variables *)
(* as they must be.                                                        *)
LEMMA TypeOfEnd ==
    ASSUME IType, NEW h \in Handlers, Goto(h, "done"), UNCHANGED req,
           req[h] \in Request,
           txn' = [txn EXCEPT ![h] = NoTxn], work' = [work EXCEPT ![h] = NoWork]
    PROVE  /\ pc' \in [Handlers -> Label]
           /\ txn' \in [Handlers -> Pending]
           /\ work' \in [Handlers -> Local]
           /\ \A g \in Handlers : Station(req'[g], pc'[g])
<1>1. pc \in [Handlers -> Label] /\ "done" \in Label
  BY DEF IType, TypeOK, Label
<1>2. pc' \in [Handlers -> Label]
  BY <1>1 DEF Goto
<1>3. \A g \in Handlers : Station(req'[g], pc'[g])
  BY <1>1 DEF Goto, Station, IType
<1> QED BY <1>2, <1>3, NoWorkType DEF IType

(* Every variable keeps its type.                                          *)
LEMMA TypeStep ==
    ASSUME IType, [Next]_vars
    PROVE  IType'
<1>a. /\ pc \in [Handlers -> Label] /\ req \in [Handlers -> Request \cup {Null}]
      /\ answer \in [Handlers -> {"none", "200", "404", "500", "503", "crashed"}]
      /\ txn \in [Handlers -> Pending] /\ work \in [Handlers -> Local]
      /\ now \in 1..MaxTime /\ plan \in Plans /\ flag \in BOOLEAN \cup {Null}
      /\ evaluations \subseteq Row /\ IsFiniteSet(evaluations)
      /\ plays \subseteq [play : Plays, by : Handlers]
      /\ playlists \in [Playlists -> Item \cup {Null}]
  BY DEF IType, TypeOK
<1>b. \A h \in Handlers : pc[h] # "idle" => req[h] \in Request
  BY DEF IType, Station
<1>e. ASSUME NEW h \in Handlers, pc[h] # "idle",
             NEW code \in {"404", "500", "503", "crashed"}, EndWith(h, code)
      PROVE  IType'
  <2>1. Goto(h, "done") /\ UNCHANGED <<db, now, req>>
    BY <1>e DEF EndWith
  <2>2. /\ pc' \in [Handlers -> Label]
        /\ txn' \in [Handlers -> Pending]
        /\ work' \in [Handlers -> Local]
        /\ \A g \in Handlers : Station(req'[g], pc'[g])
    BY <1>e, <1>b, <2>1, TypeOfEnd DEF EndWith
  <2>3. answer' \in [Handlers -> {"none", "200", "404", "500", "503", "crashed"}]
    BY <1>e, <1>a DEF EndWith
  <2> QED BY <2>1, <2>2, <2>3, <1>a, TypeFromFunctions DEF IType, TypeOK, db
<1>w. ASSUME NEW h \in Handlers, pc[h] # "idle", Answer(h)
      PROVE  /\ pc' \in [Handlers -> Label]
             /\ txn' \in [Handlers -> Pending]
             /\ work' \in [Handlers -> Local]
             /\ \A g \in Handlers : Station(req'[g], pc'[g])
             /\ answer' \in [Handlers -> {"none", "200", "404", "500", "503", "crashed"}]
             /\ UNCHANGED <<plan, now, req>>
  <2>1. Goto(h, "done") /\ UNCHANGED <<plan, now, req>>
    BY <1>w DEF Answer
  <2>2. /\ pc' \in [Handlers -> Label]
        /\ txn' \in [Handlers -> Pending]
        /\ work' \in [Handlers -> Local]
        /\ \A g \in Handlers : Station(req'[g], pc'[g])
    BY <1>w, <1>b, <2>1, TypeOfEnd DEF Answer
  <2>3. answer' \in [Handlers -> {"none", "200", "404", "500", "503", "crashed"}]
    BY <1>w, <1>a DEF Answer
  <2> QED BY <2>1, <2>2, <2>3
<1>1. ASSUME NEW h \in Handlers, Begin(h) PROVE IType'
  <2>1. PICK r \in PlanOf[plan].requests[h] :
            /\ req' = [req EXCEPT ![h] = r]
            /\ Goto(h, EntryOf(r))
    BY <1>1 DEF Begin
  <2>2. r \in Request
    BY <1>a, <2>1, ConstantsAssumption DEF Plan
  <2>3. /\ req' \in [Handlers -> Request \cup {Null}] /\ pc' \in [Handlers -> Label]
        /\ \A g \in Handlers : Station(req'[g], pc'[g])
    BY <2>1, <2>2, <1>a, EntryStation DEF Goto, IType
  <2>4. UNCHANGED <<db, now, answer, txn>>
    BY <1>1 DEF Begin
  <2>5. work' \in [Handlers -> Local]
    <3>1. PICK t \in SUBSET Row :
              work' = [work EXCEPT ![h].at = now, ![h].then = t]
      BY <1>1, <1>a DEF Begin
    <3> QED BY <3>1, <1>a, LocalBegin
  <2> QED BY <2>3, <2>4, <2>5, <1>a, TypeFromFunctions DEF IType, TypeOK, db
<1>2. ASSUME NEW h \in Handlers, Store(h) PROVE IType'
  <2>1. pc[h] = "store" /\ Answer(h) /\ UNCHANGED <<plays, playlists, flag>>
    BY <1>2 DEF Store
  <2>2. FindingOf(req[h]) \in Finding
    BY <2>1, FindingType DEF IType, Station
  <2>3. PICK id \in Ids :
            evaluations' = evaluations \cup
                {[finding |-> FindingOf(req[h]), id |-> id, at |-> work[h].at]}
    BY <1>2 DEF Store
  <2>4. PICK x \in Row : evaluations' = evaluations \cup {x}
    BY <2>2, <2>3, <1>a DEF Row, Local
  <2>5. IsFiniteSet(evaluations')
    BY <2>4, <1>a, FS_AddElement
  <2> QED BY <2>1, <2>4, <2>5, <1>w, <1>a, TypeFromFunctions DEF IType, TypeOK
<1>3. ASSUME NEW h \in Handlers, Count(h) PROVE IType'
  <2>1. Cardinality(Listed(evaluations, req[h])) \in Nat
    <3>1. Listed(evaluations, req[h]) \in SUBSET evaluations
      BY DEF Listed, Eligible, ByRun, ByTime, Newest
    <3> QED BY <3>1, <1>a, FS_Subset, FS_CardinalityType
  <2>2. work' \in [Handlers -> Local]
    BY <1>3, <2>1, <1>a DEF Count, Local
  <2>3. pc' \in [Handlers -> Label] /\ \A g \in Handlers : Station(req'[g], pc'[g])
    BY <1>3, <1>a DEF Count, Goto, IType, Station, Label
  <2> QED BY <1>3, <2>2, <2>3, <1>a, TypeFromFunctions DEF IType, TypeOK, Count, db
<1>4. ASSUME NEW h \in Handlers, Page(h) PROVE IType'
  <2>1. PICK order \in Orders(Listed(evaluations, req[h])) :
            LET last == Min({work[h].next + Limit - 1, Len(order)})
                page == SubSeq(order, work[h].next, last)
            IN  work' = [work EXCEPT ![h].pages = @ \o page, ![h].next = @ + Limit]
    BY <1>4 DEF Page
  <2>2. order \in Seq(Row)
    <3>1. Listed(evaluations, req[h]) \subseteq Row
      BY <1>a DEF Listed, Eligible, ByRun, ByTime, Newest
    <3>2. IsFiniteSet(Listed(evaluations, req[h]))
      BY <1>a, FS_Subset DEF Listed, Eligible, ByRun, ByTime, Newest
    <3>3. Cardinality(Listed(evaluations, req[h])) \in Nat
      BY <3>2, FS_CardinalityType
    <3>4. order \in [1..Cardinality(Listed(evaluations, req[h])) ->
                        Listed(evaluations, req[h])]
      BY <2>1 DEF Orders, SetToSeqs
    <3> QED BY <3>1, <3>3, <3>4
  <2>3. PICK n \in Nat \ {0} : n = work[h].next
    BY <1>a DEF Local
  <2>4. n + Limit - 1 \in Nat /\ Len(order) \in Nat
    BY <2>2, <2>3, ConstantsAssumption
  <2>5. PICK m \in Nat : m = Min({n + Limit - 1, Len(order)}) /\ m <= Len(order)
    BY <2>3, <2>4, PageBound
  <2>6. PICK page : /\ page = SubSeq(order, n, m)
                    /\ work' = [work EXCEPT ![h].pages = @ \o page, ![h].next = @ + Limit]
    BY <2>1, <2>3, <2>5
  <2>7. page \in Seq(Row)
    BY <2>2, <2>3, <2>5, <2>6, PageType
  <2>8. work' \in [Handlers -> Local]
    <3>1. work[h].pages \o page \in Seq(Row) /\ work[h].next + Limit \in Nat \ {0}
      <4>1. work[h].pages \in Seq(Row) /\ work[h].next \in Nat \ {0}
        BY <1>a DEF Local
      <4> QED BY <4>1, <2>7, ConstantsAssumption
    <3>2. PICK q \in Seq(Row), k \in Nat \ {0} :
              work' = [work EXCEPT ![h].pages = q, ![h].next = k]
      BY <3>1, <2>6
    <3> QED BY <3>2, <1>a, LocalPage
  <2>9. pc' \in [Handlers -> Label] /\ \A g \in Handlers : Station(req'[g], pc'[g])
    BY <1>4, <1>a DEF Page, Goto, IType, Station, Label
  <2> QED BY <1>4, <2>8, <2>9, <1>a, TypeFromFunctions DEF IType, TypeOK, Page, db
<1>5. ASSUME NEW h \in Handlers, EndWalk(h) PROVE IType'
  BY <1>5, <1>w, <1>a, TypeFromFunctions DEF EndWalk, IType, TypeOK
<1>6. ASSUME NEW h \in Handlers, ReadFlag(h) PROVE IType'
  <2>1. CASE EndWith(h, "503")
    BY <2>1, <1>6, <1>e DEF ReadFlag
  <2>2. CASE Goto(h, "insert_play") /\ UNCHANGED <<db, now, req, answer, txn, work>>
    <3>1. pc' \in [Handlers -> Label] /\ \A g \in Handlers : Station(req'[g], pc'[g])
      BY <1>6, <2>2, <1>a DEF ReadFlag, Goto, IType, Station, Label
    <3> QED BY <2>2, <3>1, <1>a, TypeFromFunctions DEF IType, TypeOK, db
  <2> QED BY <1>6, <2>1, <2>2 DEF ReadFlag
<1>7. ASSUME NEW h \in Handlers, InsertPlay(h) PROVE IType'
  <2>1. NextPlay(h) \in Plays
    <3>1. PICK q \in Seq(Plays) : q = req[h].plays
      BY <1>7, RequestKinds DEF InsertPlay, IType, Station
    <3>2. work[h].next \in 1..Len(q)
      BY <1>7, <3>1, <1>a DEF InsertPlay, Local
    <3> QED BY <3>1, <3>2 DEF NextPlay
  <2>2. txn' \in [Handlers -> Pending]
    BY <1>7, <2>1, <1>a, PendingPlay DEF InsertPlay
  <2>3. work' \in [Handlers -> Local]
    <3>1. PICK n \in Nat \ {0}, k \in Nat :
              \/ work' = [work EXCEPT ![h].next = n, ![h].kept = k]
              \/ work' = [work EXCEPT ![h].next = n, ![h].written = k]
      BY <1>7, LocalNumbers, <1>a DEF InsertPlay
    <3>2. CASE work' = [work EXCEPT ![h].next = n, ![h].kept = k]
      BY <3>2, <1>a, LocalItem
    <3>3. CASE work' = [work EXCEPT ![h].next = n, ![h].written = k]
      BY <3>3, <1>a, LocalItem
    <3> QED BY <3>1, <3>2, <3>3
  <2> QED BY <1>7, <2>2, <2>3, <1>a, TypeFromFunctions DEF InsertPlay, IType, TypeOK, db
<1>8. ASSUME NEW h \in Handlers, CommitPlays(h) PROVE IType'
  <2>1. plays' \subseteq [play : Plays, by : Handlers]
    BY <1>8, <1>a DEF CommitPlays, Pending
  <2> QED BY <1>8, <2>1, <1>w, <1>a, TypeFromFunctions DEF CommitPlays, IType, TypeOK
<1>9. ASSUME NEW h \in Handlers, FindFlag(h) PROVE IType'
  <2>1. CASE EndWith(h, "404")
    BY <2>1, <1>9, <1>e DEF FindFlag
  <2>2. CASE Goto(h, "save_flag") /\ UNCHANGED <<db, now, req, answer, txn, work>>
    <3>1. pc' \in [Handlers -> Label] /\ \A g \in Handlers : Station(req'[g], pc'[g])
      BY <1>9, <2>2, <1>a DEF FindFlag, Goto, IType, Station, Label
    <3> QED BY <2>2, <3>1, <1>a, TypeFromFunctions DEF IType, TypeOK, db
  <2> QED BY <1>9, <2>1, <2>2 DEF FindFlag
<1>10. ASSUME NEW h \in Handlers, SaveFlag(h) PROVE IType'
  <2>1. flag' \in BOOLEAN
    BY <1>10, RequestKinds DEF SaveFlag, IType, Station
  <2> QED BY <1>10, <2>1, <1>w, <1>a, TypeFromFunctions DEF SaveFlag, IType, TypeOK
<1>11. ASSUME NEW h \in Handlers, Upsert(h) PROVE IType'
  <2>1. NextItem(h) \in Item
    <3>1. PICK q \in Seq(Item) : q = req[h].items
      BY <1>11, RequestKinds DEF Upsert, IType, Station
    <3>2. work[h].next \in 1..Len(q)
      BY <1>11, <3>1, <1>a DEF Upsert, Local
    <3> QED BY <3>1, <3>2 DEF NextItem
  <2>2. PICK old : old = StoredItem(h, NextItem(h).id)
    OBVIOUS
  <2>3. old \in Item \cup {Null}
    BY <2>1, <2>2, StoredItemType DEF Item
  <2>4. PICK i \in Item : txn' = [txn EXCEPT ![h].items = Append(@, i)]
    BY <1>11, <2>1, <2>2, <2>3 DEF Upsert
  <2>5. txn' \in [Handlers -> Pending] /\ work' \in [Handlers -> Local]
    <3>1. Append(txn[h].items, i) \in Seq(Item)
      BY <1>a DEF Pending
    <3>2. txn' \in [Handlers -> Pending]
      BY <2>4, <3>1, <1>a DEF Pending
    <3>3. PICK n \in Nat \ {0}, k \in Nat :
              \/ work' = [work EXCEPT ![h].next = n, ![h].kept = k]
              \/ work' = [work EXCEPT ![h].next = n, ![h].written = k]
      BY <1>11, LocalNumbers, <1>a DEF Upsert
    <3>4. CASE work' = [work EXCEPT ![h].next = n, ![h].kept = k]
      BY <3>4, <3>2, <1>a, LocalItem
    <3>5. CASE work' = [work EXCEPT ![h].next = n, ![h].written = k]
      BY <3>5, <3>2, <1>a, LocalItem
    <3> QED BY <3>3, <3>4, <3>5
  <2> QED BY <1>11, <2>5, <1>a, TypeFromFunctions DEF Upsert, IType, TypeOK, db
<1>12. ASSUME NEW h \in Handlers, CommitPlaylists(h) PROVE IType'
  <2>1. playlists' \in [Playlists -> Item \cup {Null}]
    BY <1>12, StoredItemType DEF CommitPlaylists
  <2> QED BY <1>12, <2>1, <1>w, <1>a, TypeFromFunctions DEF CommitPlaylists, IType, TypeOK
<1>13. ASSUME NEW h \in Handlers, BreakDeadlock(h) PROVE IType'
  <2>1. pc[h] # "idle"
    BY <1>13 DEF BreakDeadlock, Deadlocked, BlockedBy
  <2> QED BY <2>1, <1>13, <1>e DEF BreakDeadlock
<1>14. ASSUME NEW h \in Handlers, Crash(h) PROVE IType'
  BY <1>14, <1>e DEF Crash
<1>15. CASE Tick
  <2>1. now' \in 1..MaxTime
    BY <1>15, <1>a, ConstantsAssumption DEF Tick, Plan
  <2> QED BY <1>15, <2>1, <1>a, TypeFromFunctions DEF Tick, IType, TypeOK, db
<1>16. CASE UNCHANGED vars
  BY <1>16 DEF IType, TypeOK, vars, db
<1> QED
  BY <1>1, <1>2, <1>3, <1>4, <1>5, <1>6, <1>7, <1>8, <1>9, <1>10, <1>11, <1>12, <1>13,
     <1>14, <1>15, <1>16 DEF Next, Step, Quiet

-----------------------------------------------------------------------------
(* The list of findings.                                                   *)

(* Every finding has an id of its own, which the order of the list needs.  *)
IdsUnique == \A r, q \in evaluations : r.id = q.id => r = q

(* Nothing but Store changes the findings, and Store adds one.             *)
LEMMA FindingsStep ==
    ASSUME IType, IType', [Next]_vars
    PROVE  \/ UNCHANGED evaluations
           \/ \E x \in Row : /\ x \notin evaluations
                             /\ evaluations' = evaluations \cup {x}
                             /\ \A r \in evaluations : r.id # x.id
<1>1. ASSUME NEW h \in Handlers, Store(h)
      PROVE  \E x \in Row : /\ x \notin evaluations
                            /\ evaluations' = evaluations \cup {x}
                            /\ \A r \in evaluations : r.id # x.id
  <2>1. PICK id \in Ids :
            /\ \A r \in evaluations : r.id # id
            /\ evaluations' = evaluations \cup
                 {[finding |-> FindingOf(req[h]), id |-> id, at |-> work[h].at]}
    BY <1>1 DEF Store
  <2>2. PICK x : x = [finding |-> FindingOf(req[h]), id |-> id, at |-> work[h].at]
    OBVIOUS
  <2>3. x \in evaluations' /\ evaluations' \subseteq Row
    BY <2>1, <2>2 DEF IType, TypeOK
  <2>4. x.id = id
    BY <2>2
  <2> QED BY <2>1, <2>2, <2>3, <2>4
<1>2. ASSUME NEW h \in Handlers, \/ Begin(h) \/ Count(h) \/ Page(h) \/ EndWalk(h) \/ ReadFlag(h)
             \/ InsertPlay(h) \/ CommitPlays(h) \/ FindFlag(h) \/ SaveFlag(h) \/ Upsert(h)
             \/ CommitPlaylists(h) \/ BreakDeadlock(h) \/ Crash(h)
      PROVE  UNCHANGED evaluations
  BY <1>2 DEF Begin, Count, Page, EndWalk, ReadFlag, InsertPlay, CommitPlays, FindFlag,
              SaveFlag, Upsert, CommitPlaylists, BreakDeadlock, Crash, EndWith, db
<1>3. Tick \/ UNCHANGED vars => UNCHANGED evaluations
  BY DEF Tick, vars, db
<1> QED BY <1>1, <1>2, <1>3 DEF Next, Step, Quiet

LEMMA IdsStep ==
    ASSUME IType, IType', IdsUnique, [Next]_vars
    PROVE  IdsUnique'
BY FindingsStep DEF IdsUnique

(* Every variable of the feeds keeps its type.                             *)
THEOREM TypeCorrect == Spec => []TypeOK
<1>1. Init => IType
  BY TypeInit
<1>2. IType /\ [Next]_vars => IType'
  BY TypeStep
<1>3. IType => TypeOK
  BY DEF IType
<1> QED BY <1>1, <1>2, <1>3, PTL DEF Spec

(* Whatever is pushed, redelivered or lost and in whatever order the       *)
(* commits come, the list shows whole runs and the newest of every repo    *)
(* and source.                                                             *)
THEOREM ListsWholeRuns == Spec => []RunsListedWhole
<1>1. Init => IType
  BY TypeInit
<1>2. IType /\ [Next]_vars => IType'
  BY TypeStep
<1>3. IType => RunsListedWhole
  <2> SUFFICES ASSUME IType PROVE RunsListedWhole
    OBVIOUS
  <2>1. evaluations \in SUBSET Row
    BY DEF IType, TypeOK
  <2> QED BY <2>1, ListIsWhole DEF RunsListedWhole
<1> QED BY <1>1, <1>2, <1>3, PTL DEF Spec

(* A listed finding goes only when another run of its repo and source, at  *)
(* least as new, is stored.                                                *)
THEOREM ListedUntilOutrun == Spec => ShownUntilOutrun
<1> DEFINE Outrun == \A r \in Eligible(evaluations) \ Eligible(evaluations') :
                         \E q \in evaluations' \ evaluations :
                             /\ SameKey(r, q)
                             /\ q.at >= r.at
                             /\ q.finding.run = Null \/ q.finding.run # r.finding.run
<1>1. Init => IType
  BY TypeInit
<1>2. IType /\ [Next]_vars => IType'
  BY TypeStep
<1>3. IType /\ IType' /\ [Next]_vars => [Outrun]_evaluations
  <2> SUFFICES ASSUME IType, IType', [Next]_vars, ~UNCHANGED evaluations
               PROVE  Outrun
    OBVIOUS
  <2>1. PICK x \in Row : x \notin evaluations /\ evaluations' = evaluations \cup {x}
    BY FindingsStep
  <2>2. PICK S \in SUBSET Row : S = evaluations
    BY DEF IType, TypeOK
  <2>3. x \notin S /\ evaluations' = S \cup {x}
    BY <2>1, <2>2
  <2>4. ASSUME NEW r \in Eligible(S), r \notin Eligible(S \cup {x})
        PROVE  \E q \in (S \cup {x}) \ S :
                  /\ SameKey(r, q)
                  /\ q.at >= r.at
                  /\ q.finding.run = Null \/ q.finding.run # r.finding.run
    BY <2>3, <2>4, OnlyOutrunRowsGo
  <2> QED BY <2>2, <2>3, <2>4
<1> QED BY <1>1, <1>2, <1>3, PTL DEF Spec, ShownUntilOutrun

-----------------------------------------------------------------------------
(* Walks through the pages.                                                *)

(* An order of a finite set lists each of its members once.                *)
LEMMA OrderListsAll ==
    ASSUME NEW L \in SUBSET Row, IsFiniteSet(L), NEW s \in Orders(L)
    PROVE  /\ Cardinality(L) \in Nat
           /\ s \in [1..Cardinality(L) -> L]
           /\ s \in Seq(L)
           /\ Len(s) = Cardinality(L)
           /\ DOMAIN s = 1..Cardinality(L)
           /\ \A i, j \in 1..Cardinality(L) : s[i] = s[j] => i = j
           /\ \A x \in L : \E i \in 1..Cardinality(L) : s[i] = x
           /\ \A i, j \in 1..Cardinality(L) : i < j => ~Before(s[j], s[i])
<1>1. PICK n \in Nat : n = Cardinality(L)
  BY FS_CardinalityType
<1>2. s \in [1..n -> L] /\ \A i, j \in 1..n : i # j => s[i] # s[j]
  BY <1>1 DEF Orders, SetToSeqs
<1>3. s \in Seq(L) /\ Len(s) = n /\ DOMAIN s = 1..n
  BY <1>2
<1>4. \A i, j \in 1..n : i < j => ~Before(s[j], s[i])
  BY <1>3 DEF Orders
<1>5. s \in Injection(1..n, L)
  BY <1>2 DEF Injection, IsInjective
<1>6. IsFiniteSet(1..n) /\ Cardinality(1..n) = n
  BY FS_Interval
<1>7. s \in Surjection(1..n, L)
  BY <1>1, <1>5, <1>6, FS_Injection
<1>8. \A x \in L : \E i \in 1..n : s[i] = x
  BY <1>7 DEF Surjection
<1> QED BY <1>1, <1>2, <1>3, <1>4, <1>8

(* The ids break the ties: rows with ids of their own have one order only, *)
(* the reason why pages sorted anew fit together.                          *)
LEMMA OneOrder ==
    ASSUME NEW L \in SUBSET Row, IsFiniteSet(L), \A r, q \in L : r.id = q.id => r = q,
           NEW s \in Orders(L), NEW t \in Orders(L)
    PROVE  s = t
<1>1. PICK n \in Nat : n = Cardinality(L)
  BY FS_CardinalityType
<1>2. /\ s \in [1..n -> L]
      /\ \A i, j \in 1..n : s[i] = s[j] => i = j
      /\ \A x \in L : \E i \in 1..n : s[i] = x
      /\ \A i, j \in 1..n : i < j => ~Before(s[j], s[i])
  BY <1>1, OrderListsAll
<1>3. /\ t \in [1..n -> L]
      /\ \A i, j \in 1..n : t[i] = t[j] => i = j
      /\ \A x \in L : \E i \in 1..n : t[i] = x
      /\ \A i, j \in 1..n : i < j => ~Before(t[j], t[i])
  BY <1>1, OrderListsAll
<1>4. SUFFICES ASSUME s # t PROVE FALSE
  OBVIOUS
<1> DEFINE Differ == {i \in 1..n : s[i] # t[i]}
<1>5. Differ \in SUBSET Nat /\ Differ # {}
  <2>1. s \in [1..n -> L] /\ t \in [1..n -> L]
    BY <1>2, <1>3
  <2>2. \E i \in 1..n : s[i] # t[i]
    BY <2>1, <1>4
  <2> QED BY <2>2
<1>6. PICK i \in Differ : \A k \in Differ : i <= k
  BY <1>5, LeastExists
<1>7. i \in 1..n /\ s[i] # t[i] /\ \A k \in 1..n : k < i => s[k] = t[k]
  BY <1>6
<1> HIDE DEF Differ
<1>8. PICK j \in 1..n : t[j] = s[i]
  BY <1>2, <1>3, <1>7
<1>9. PICK k \in 1..n : s[k] = t[i]
  BY <1>2, <1>3, <1>7
<1>10. i < j
  BY <1>2, <1>7, <1>8
<1>11. i < k
  BY <1>3, <1>7, <1>9
<1>12. ~Before(s[i], t[i]) /\ ~Before(t[i], s[i])
  BY <1>2, <1>3, <1>7, <1>8, <1>9, <1>10, <1>11
<1>13. s[i] \in Row /\ t[i] \in Row /\ s[i] \in L /\ t[i] \in L
  BY <1>2, <1>3, <1>7
<1>14. s[i].id = t[i].id
  BY <1>12, <1>13, ConstantsAssumption DEF Before, Row
<1> QED BY <1>7, <1>13, <1>14

LEMMA Joined ==
    ASSUME NEW L, NEW a \in Seq(L), NEW b \in Seq(L)
    PROVE  /\ a \o b \in Seq(L)
           /\ Len(a \o b) = Len(a) + Len(b)
           /\ \A i \in 1..(Len(a) + Len(b)) :
                 (a \o b)[i] = IF i <= Len(a) THEN a[i] ELSE b[i - Len(a)]
OBVIOUS

(* Two adjacent stretches of a sequence make one.                          *)
LEMMA Stretches ==
    ASSUME NEW L, NEW s \in Seq(L), NEW n \in Nat \ {0}, NEW m \in Nat,
           n - 1 <= m, m <= Len(s)
    PROVE  SubSeq(s, 1, n - 1) \o SubSeq(s, n, m) = SubSeq(s, 1, m)
<1> DEFINE a == SubSeq(s, 1, n - 1)
           b == SubSeq(s, n, m)
           c == SubSeq(s, 1, m)
<1>1. a \in Seq(L) /\ Len(a) = n - 1 /\ \A i \in 1..(n - 1) : a[i] = s[i]
  OBVIOUS
<1>2. b \in Seq(L) /\ Len(b) = m - n + 1 /\ \A i \in 1..(m - n + 1) : b[i] = s[n + i - 1]
  OBVIOUS
<1>3. c \in Seq(L) /\ Len(c) = m /\ \A i \in 1..m : c[i] = s[i]
  OBVIOUS
<1> HIDE DEF a, b, c
<1>4. /\ a \o b \in Seq(L) /\ Len(a \o b) = m
      /\ \A i \in 1..m : (a \o b)[i] = IF i <= n - 1 THEN a[i] ELSE b[i - (n - 1)]
  <2>1. Len(a) + Len(b) = m
    BY <1>1, <1>2
  <2>2. /\ a \o b \in Seq(L) /\ Len(a \o b) = Len(a) + Len(b)
        /\ \A i \in 1..(Len(a) + Len(b)) :
              (a \o b)[i] = IF i <= Len(a) THEN a[i] ELSE b[i - Len(a)]
    <3>1. a \in Seq(L) /\ b \in Seq(L)
      BY <1>1, <1>2
    <3> QED BY <3>1, Joined
  <2>3. Len(a) = n - 1
    BY <1>1
  <2> QED BY <2>1, <2>2, <2>3
<1>5. \A i \in 1..m : (a \o b)[i] = c[i]
  <2>1. ASSUME NEW i \in 1..m, i <= n - 1 PROVE (a \o b)[i] = c[i]
    BY <2>1, <1>1, <1>3, <1>4
  <2>2. ASSUME NEW i \in 1..m, ~(i <= n - 1) PROVE (a \o b)[i] = c[i]
    <3>1. i - (n - 1) \in 1..(m - n + 1) /\ n + (i - (n - 1)) - 1 = i
      BY <2>2
    <3>2. b[i - (n - 1)] = s[i]
      BY <3>1, <1>2
    <3> QED BY <2>2, <3>2, <1>3, <1>4
  <2> QED BY <2>1, <2>2
<1>6. a \o b = c
  BY <1>3, <1>4, <1>5
<1> QED BY <1>6 DEF a, b, c

(* While no finding is stored, a walk has read what comes first in the     *)
(* order of the list, up to its next page, and all of it at its end.       *)
Reading(h) ==
    LET L == Listed(evaluations, req[h])
    IN  /\ pc[h] \in {"page", "answer"} => work[h].total = Cardinality(L)
        /\ pc[h] \in {"count", "page"} =>
              /\ work[h].next - 1 <= Cardinality(L)
              /\ \A order \in Orders(L) : work[h].pages = SubSeq(order, 1, work[h].next - 1)
        /\ pc[h] = "answer" => work[h].pages \in Orders(L)

IWalks ==
    \A h \in Handlers :
        /\ pc[h] = "idle" => work[h] = NoWork
        /\ pc[h] \in {"count", "page", "answer"} =>
              /\ work[h].then \subseteq evaluations
              /\ work[h].then = evaluations => Reading(h)

LEMMA ListedFinite ==
    ASSUME IType, NEW r
    PROVE  /\ Listed(evaluations, r) \in SUBSET Row
           /\ Listed(evaluations, r) \subseteq evaluations
           /\ IsFiniteSet(Listed(evaluations, r))
           /\ Cardinality(Listed(evaluations, r)) \in Nat
<1>1. Listed(evaluations, r) \in SUBSET evaluations
  BY DEF Listed, Eligible, ByRun, ByTime, Newest
<1>2. evaluations \subseteq Row /\ IsFiniteSet(evaluations)
  BY DEF IType, TypeOK
<1> QED BY <1>1, <1>2, FS_Subset, FS_CardinalityType

(* A handler with nothing of its own changed has read what it had.         *)
LEMMA WalkKept ==
    ASSUME NEW h, Reading(h), UNCHANGED evaluations,
           req'[h] = req[h], pc'[h] = pc[h], work'[h] = work[h]
    PROVE  Reading(h)'
BY DEF Reading

LEMMA WalksStep ==
    ASSUME IType, IType', IdsUnique, IWalks, [Next]_vars
    PROVE  IWalks'
<1>a. /\ pc \in [Handlers -> Label] /\ req \in [Handlers -> Request \cup {Null}]
      /\ work \in [Handlers -> Local] /\ evaluations \subseteq Row
  BY DEF IType, TypeOK
<1> DEFINE Kept(h) == /\ pc'[h] = "idle" => work'[h] = NoWork
                      /\ pc'[h] \in {"count", "page", "answer"} =>
                            /\ work'[h].then \subseteq evaluations'
                            /\ work'[h].then = evaluations' => Reading(h)'
<1>o. ASSUME NEW g \in Handlers, req'[g] = req[g], pc'[g] = pc[g], work'[g] = work[g]
      PROVE  Kept(g)
  <2>1. CASE UNCHANGED evaluations
    <3>1. Reading(g) => Reading(g)'
      BY <1>o, <2>1, WalkKept
    <3> QED BY <1>o, <2>1, <3>1 DEF IWalks
  <2>2. CASE \E x \in Row : x \notin evaluations /\ evaluations' = evaluations \cup {x}
    <3>1. work[g].then \subseteq evaluations =>
            work[g].then \subseteq evaluations' /\ work[g].then # evaluations'
      BY <2>2
    <3> QED BY <1>o, <3>1 DEF IWalks
  <2> QED BY <2>1, <2>2, FindingsStep
<1>d. ASSUME NEW h \in Handlers, Goto(h, "done") PROVE Kept(h)
  <2>1. pc'[h] = "done"
    BY <1>d, <1>a DEF Goto
  <2> QED BY <2>1
<1>1. ASSUME NEW h \in Handlers, Begin(h) PROVE IWalks'
  <2>0. UNCHANGED evaluations /\ pc[h] = "idle" /\ work[h] = NoWork
    BY <1>1 DEF Begin, db, IWalks
  <2>1. PICK r : r \in PlanOf[plan].requests[h]
                 /\ req' = [req EXCEPT ![h] = r] /\ Goto(h, EntryOf(r))
    BY <1>1 DEF Begin
  <2>2. r \in Request
    BY <1>a, <2>1, ConstantsAssumption DEF Plan, IType, TypeOK
  <2>3. req'[h] = r /\ pc'[h] = EntryOf(r) /\ pc'[h] # "idle"
    BY <2>1, <2>2, <1>a, EntryStation DEF Goto
  <2>4. Kept(h)
    <3>1. SUFFICES ASSUME pc'[h] \in {"count", "page", "answer"}
                   PROVE  /\ work'[h].then \subseteq evaluations'
                          /\ work'[h].then = evaluations' => Reading(h)'
      BY <2>3
    <3>2. r.kind = "walk" /\ pc'[h] = "count"
      BY <2>2, <2>3, <3>1, RequestKinds DEF EntryOf
    <3>3. PICK w \in Local : w = work[h] /\ w.next = 1 /\ w.pages = <<>>
      BY <1>a, <2>0 DEF NoWork
    <3>4. work' = [work EXCEPT ![h].at = now, ![h].then = evaluations]
      BY <1>1, <2>3, <3>2 DEF Begin
    <3>5. work'[h].then = evaluations /\ work'[h].next = 1 /\ work'[h].pages = <<>>
      BY <3>3, <3>4, <1>a DEF Local
    <3>6. Reading(h)'
      <4>1. PICK L : L = Listed(evaluations', req'[h])
        OBVIOUS
      <4>2. Cardinality(L) \in Nat /\ L \in SUBSET Row /\ IsFiniteSet(L)
        BY <2>0, <4>1, ListedFinite
      <4>3. ASSUME NEW order \in Orders(L) PROVE SubSeq(order, 1, 0) = <<>>
        <5>1. order \in Seq(L)
          BY <4>2, <4>3, OrderListsAll
        <5> QED BY <5>1
      <4> QED BY <3>2, <3>5, <4>1, <4>2, <4>3 DEF Reading
    <3> QED BY <3>5, <3>6, <2>0
  <2>5. \A g \in Handlers \ {h} : req'[g] = req[g] /\ pc'[g] = pc[g] /\ work'[g] = work[g]
    BY <1>1, <2>1, <1>a DEF Begin, Goto
  <2> QED BY <2>4, <2>5, <1>o DEF IWalks
<1>2. ASSUME NEW h \in Handlers, Count(h) PROVE IWalks'
  <2>1. /\ pc[h] = "count" /\ pc'[h] = "page" /\ UNCHANGED <<evaluations, req>>
        /\ \A g \in Handlers \ {h} : req'[g] = req[g] /\ pc'[g] = pc[g] /\ work'[g] = work[g]
    BY <1>2, <1>a DEF Count, Goto, db
  <2>2. PICK w \in Local : w = work[h]
    BY <1>a
  <2>3. PICK n : n = Cardinality(Listed(evaluations, req[h]))
    OBVIOUS
  <2>4. work' = [work EXCEPT ![h].total = n]
    BY <1>2, <2>3 DEF Count
  <2>5. /\ work'[h].total = n /\ work'[h].then = w.then
        /\ work'[h].next = w.next /\ work'[h].pages = w.pages
    BY <2>2, <2>4, <1>a DEF Local
  <2>6. Kept(h)
    <3>1. w.then \subseteq evaluations /\ (w.then = evaluations => Reading(h))
      BY <2>1, <2>2 DEF IWalks
    <3>2. Reading(h) => Reading(h)'
      BY <2>1, <2>2, <2>3, <2>5 DEF Reading
    <3> QED BY <3>1, <3>2, <2>1, <2>5
  <2> QED BY <2>1, <2>6, <1>o DEF IWalks
<1>3. ASSUME NEW h \in Handlers, Page(h) PROVE IWalks'
  <2>1. /\ pc[h] = "page" /\ UNCHANGED <<evaluations, req>>
        /\ pc'[h] = IF work[h].next + Limit > work[h].total THEN "answer" ELSE "count"
        /\ \A g \in Handlers \ {h} : req'[g] = req[g] /\ pc'[g] = pc[g] /\ work'[g] = work[g]
    BY <1>3, <1>a DEF Page, Goto, db
  <2>2. PICK L \in SUBSET Row : L = Listed(evaluations, req[h]) /\ IsFiniteSet(L)
                                /\ L \subseteq evaluations /\ Cardinality(L) \in Nat
    BY ListedFinite
  <2>3. PICK w \in Local : w = work[h]
    BY <1>a
  <2>4. PICK order \in Orders(L) :
            LET last == Min({w.next + Limit - 1, Len(order)})
                page == SubSeq(order, w.next, last)
            IN  work' = [work EXCEPT ![h].pages = @ \o page, ![h].next = @ + Limit]
    BY <1>3, <2>2, <2>3 DEF Page
  <2>5. PICK size \in Nat : size = Cardinality(L) /\ Len(order) = size /\ order \in Seq(L)
    BY <2>2, OrderListsAll
  <2>6. w.next \in Nat \ {0} /\ w.pages \in Seq(Row) /\ w.total \in Nat
    BY DEF Local
  <2>7. PICK m \in Nat : /\ m = Min({w.next + Limit - 1, Len(order)})
                         /\ m = IF w.next + Limit - 1 <= size THEN w.next + Limit - 1 ELSE size
    BY <2>5, <2>6, PageBound
  <2>8. PICK q : q = w.pages \o SubSeq(order, w.next, m)
    OBVIOUS
  <2>9. PICK n : n = w.next + Limit
    OBVIOUS
  <2>10. work' = [work EXCEPT ![h].pages = q, ![h].next = n]
    BY <2>3, <2>4, <2>7, <2>8, <2>9
  <2>11. /\ work'[h].pages = q /\ work'[h].next = n
         /\ work'[h].then = w.then /\ work'[h].total = w.total
    BY <2>3, <2>10, <1>a DEF Local
  <2>12. Kept(h)
    <3>1. w.then \subseteq evaluations /\ (w.then = evaluations => Reading(h))
      BY <2>1, <2>3 DEF IWalks
    <3>2. ASSUME Reading(h) PROVE Reading(h)'
      <4>1. /\ w.total = size /\ w.next - 1 <= size
            /\ w.pages = SubSeq(order, 1, w.next - 1)
        BY <3>2, <2>1, <2>2, <2>3, <2>5 DEF Reading
      <4>2. w.next - 1 <= m /\ m <= Len(order)
        BY <4>1, <2>5, <2>6, <2>7, ConstantsAssumption
      <4>3. q = SubSeq(order, 1, m)
        BY <4>1, <4>2, <2>5, <2>6, <2>8, Stretches
      <4>4. L = Listed(evaluations', req'[h])
        BY <2>1, <2>2
      <4>5. CASE w.next + Limit > w.total
        <5>1. m = size
          BY <4>1, <4>5, <2>6, <2>7, ConstantsAssumption
        <5>2. q = order
          BY <4>3, <5>1, <2>5
        <5>3. pc'[h] = "answer"
          BY <4>5, <2>1, <2>3
        <5> QED BY <5>2, <5>3, <4>1, <4>4, <2>4, <2>5, <2>11 DEF Reading
      <4>6. CASE ~(w.next + Limit > w.total)
        <5>1. m = n - 1 /\ n - 1 <= size
          BY <4>1, <4>6, <2>6, <2>7, <2>9, ConstantsAssumption
        <5>2. pc'[h] = "count"
          BY <4>6, <2>1, <2>3
        <5>3. \A r, x \in L : r.id = x.id => r = x
          BY <2>2 DEF IdsUnique
        <5>4. \A o \in Orders(L) : o = order
          BY <2>2, <5>3, OneOrder
        <5>5. \A o \in Orders(L) : q = SubSeq(o, 1, n - 1)
          BY <5>1, <5>4, <4>3
        <5> QED BY <5>1, <5>2, <5>5, <4>4, <2>5, <2>11 DEF Reading
      <4> QED BY <4>5, <4>6
    <3> QED BY <3>1, <3>2, <2>1, <2>11
  <2> QED BY <2>1, <2>12, <1>o DEF IWalks
<1>4. ASSUME NEW h \in Handlers, \/ (ReadFlag(h) /\ ~EndWith(h, "503"))
                                 \/ (FindFlag(h) /\ ~EndWith(h, "404"))
      PROVE  IWalks'
  <2>1. /\ pc'[h] \in {"insert_play", "save_flag"}
        /\ \A g \in Handlers \ {h} : req'[g] = req[g] /\ pc'[g] = pc[g] /\ work'[g] = work[g]
    BY <1>4, <1>a DEF ReadFlag, FindFlag, Goto
  <2>2. Kept(h)
    BY <2>1
  <2> QED BY <2>1, <2>2, <1>o DEF IWalks
<1>5. ASSUME NEW h \in Handlers, InsertPlay(h) \/ Upsert(h) PROVE IWalks'
  <2>1. /\ pc[h] \in {"insert_play", "upsert"} /\ pc'[h] = pc[h]
        /\ \A g \in Handlers \ {h} : req'[g] = req[g] /\ pc'[g] = pc[g] /\ work'[g] = work[g]
    BY <1>5, <1>a DEF InsertPlay, Upsert
  <2>2. Kept(h)
    BY <2>1
  <2> QED BY <2>1, <2>2, <1>o DEF IWalks
<1>6. ASSUME NEW h \in Handlers,
             \/ Answer(h) \/ EndWith(h, "503") \/ EndWith(h, "404") \/ EndWith(h, "500")
             \/ EndWith(h, "crashed")
      PROVE  IWalks'
  <2>1. /\ Goto(h, "done")
        /\ \A g \in Handlers \ {h} : req'[g] = req[g] /\ pc'[g] = pc[g] /\ work'[g] = work[g]
    BY <1>6, <1>a DEF Answer, EndWith, Goto
  <2> QED BY <2>1, <1>d, <1>o DEF IWalks
<1>7. CASE Tick \/ UNCHANGED vars
  <2>1. \A g \in Handlers : req'[g] = req[g] /\ pc'[g] = pc[g] /\ work'[g] = work[g]
    BY <1>7 DEF Tick, vars
  <2> QED BY <2>1, <1>o DEF IWalks
<1>8. ASSUME NEW h \in Handlers,
             Store(h) \/ EndWalk(h) \/ CommitPlays(h) \/ SaveFlag(h) \/ CommitPlaylists(h)
      PROVE  Answer(h)
  BY <1>8 DEF Store, EndWalk, CommitPlays, SaveFlag, CommitPlaylists
<1>9. ASSUME NEW h \in Handlers, BreakDeadlock(h) \/ Crash(h)
      PROVE  EndWith(h, "500") \/ EndWith(h, "crashed")
  BY <1>9 DEF BreakDeadlock, Crash
<1> QED BY <1>1, <1>2, <1>3, <1>4, <1>5, <1>6, <1>7, <1>8, <1>9 DEF Next, Step, Quiet

(* A walk during which nothing is stored shows every finding of its filter *)
(* once and in order, although every page is a query of its own.           *)
THEOREM QuietWalks == Spec => []QuietWalkIsComplete
<1>1. Init => IType /\ IdsUnique /\ IWalks
  BY TypeInit DEF Init, IdsUnique, IWalks
<1>2. IType /\ IdsUnique /\ IWalks /\ [Next]_vars => IType' /\ IdsUnique' /\ IWalks'
  BY TypeStep, IdsStep, WalksStep
<1>3. IType /\ IdsUnique /\ IWalks => QuietWalkIsComplete
  <2> SUFFICES ASSUME IType, IdsUnique, IWalks, NEW h \in Handlers,
                      pc[h] = "answer", work[h].then = evaluations
               PROVE  /\ {work[h].pages[i] : i \in DOMAIN work[h].pages}
                           = Listed(evaluations, req[h])
                      /\ Len(work[h].pages) = work[h].total
                      /\ \A i, j \in DOMAIN work[h].pages :
                            i < j => work[h].pages[i].at >= work[h].pages[j].at
    BY DEF QuietWalkIsComplete
  <2>1. PICK L \in SUBSET Row : L = Listed(evaluations, req[h]) /\ IsFiniteSet(L)
    BY ListedFinite
  <2>2. PICK s \in Orders(L) : s = work[h].pages /\ work[h].total = Cardinality(L)
    BY <2>1 DEF IWalks, Reading
  <2>3. PICK n \in Nat : /\ n = Cardinality(L) /\ Len(s) = n /\ DOMAIN s = 1..n
                         /\ s \in [1..n -> L]
                         /\ \A x \in L : \E i \in 1..n : s[i] = x
                         /\ \A i, j \in 1..n : i < j => ~Before(s[j], s[i])
    BY <2>1, OrderListsAll
  <2>4. {s[i] : i \in DOMAIN s} = L
    BY <2>3
  <2>5. ASSUME NEW i \in 1..n, NEW j \in 1..n, i < j PROVE s[i].at >= s[j].at
    <3>1. s[i].at \in Nat /\ s[j].at \in Nat
      BY <2>3, ConstantsAssumption DEF Row
    <3> QED BY <3>1, <2>3, <2>5 DEF Before
  <2> QED BY <2>1, <2>2, <2>3, <2>4, <2>5
<1> QED BY <1>1, <1>2, <1>3, PTL DEF Spec

-----------------------------------------------------------------------------
(* Plays and playlists.                                                    *)

(* Of every play there is one row at most, and what transactions in flight *)
(* have inserted is neither stored nor another's: this is what waiting on  *)
(* the unique key is for.                                                  *)
OneRowPerPlay ==
    /\ \A r, q \in plays : r.play = q.play => r = q
    /\ \A h \in Handlers : \A r \in plays : r.play \notin txn[h].plays
    /\ \A g, h \in Handlers : g # h => txn[g].plays \cap txn[h].plays = {}

(* The delivery of plays so far, its counters included.                    *)
Delivering(h) ==
    /\ pc[h] # "insert_play" => txn[h].plays = {}
    /\ pc[h] # "done" => \A r \in plays : r.by # h
    /\ pc[h] = "idle" => work[h] = NoWork /\ txn[h] = NoTxn
    /\ pc[h] = "read_flag" => work[h].next = 1 /\ work[h].written = 0 /\ work[h].kept = 0
    /\ pc[h] = "insert_play" =>
          /\ IsFiniteSet(txn[h].plays)
          /\ Cardinality(txn[h].plays) = work[h].written
          /\ work[h].written + work[h].kept = work[h].next - 1
          /\ work[h].next - 1 <= Len(req[h].plays)
          /\ \A i \in 1..(work[h].next - 1) :
                req[h].plays[i] \in txn[h].plays \cup {r.play : r \in plays}

(* The delivery of playlists so far: what its transaction holds is, item   *)
(* by item, at the snapshot that was posted.                               *)
Upserting(h) ==
    pc[h] = "upsert" =>
        /\ Len(txn[h].items) = work[h].next - 1
        /\ work[h].next - 1 <= Len(req[h].items)
        /\ \A i \in 1..(work[h].next - 1) :
              /\ txn[h].items[i].id = req[h].items[i].id
              /\ txn[h].items[i].snapshot = req[h].items[i].snapshot

IFeeds ==
    /\ OneRowPerPlay
    /\ \A h \in Handlers : Delivering(h) /\ Upserting(h)
    /\ \A p \in Playlists : playlists[p] # Null => playlists[p].id = p

LEMMA StoredItemId ==
    ASSUME IType, IFeeds, NEW h \in Handlers, NEW p \in Playlists, StoredItem(h, p) # Null
    PROVE  StoredItem(h, p).id = p
<1>1. PICK own \in Seq(Item) : own = txn[h].items
  BY DEF IType, Pending
<1>2. CASE \E i \in DOMAIN own : own[i].id = p
  BY <1>1, <1>2, LastOfItems DEF StoredItem
<1>3. CASE ~ \E i \in DOMAIN own : own[i].id = p
  BY <1>1, <1>3 DEF StoredItem, IFeeds
<1> QED BY <1>2, <1>3

(* Other handlers' deliveries go on as they were while rows of plays come  *)
(* from elsewhere.                                                         *)
LEMMA DeliveryKept ==
    ASSUME NEW h, Delivering(h), Upserting(h), plays \subseteq plays',
           \A r \in plays' \ plays : r.by # h,
           req'[h] = req[h], pc'[h] = pc[h], work'[h] = work[h], txn'[h] = txn[h]
    PROVE  Delivering(h)' /\ Upserting(h)'
<1>1. Upserting(h)'
  BY DEF Upserting
<1>2. {r.play : r \in plays} \subseteq {r.play : r \in plays'}
  OBVIOUS
<1>3. PICK n : n = work[h].next - 1
  OBVIOUS
<1>4. pc[h] = "insert_play" =>
          \A i \in 1..n : req[h].plays[i] \in txn[h].plays \cup {r.play : r \in plays'}
  BY <1>2, <1>3 DEF Delivering
<1>5. pc[h] # "done" => \A r \in plays' : r.by # h
  BY DEF Delivering
<1>6. Delivering(h)'
  BY <1>3, <1>4, <1>5 DEF Delivering
<1> QED BY <1>1, <1>6

(* Steps that leave the plays and the playlists alone, and of which the    *)
(* handler, if one moves, is neither storing plays nor playlists after it. *)
LEMMA FeedsElsewhere ==
    ASSUME IType, IFeeds, NEW h \in Handlers, UNCHANGED <<plays, playlists>>,
           \A g \in Handlers \ {h} : /\ req'[g] = req[g] /\ pc'[g] = pc[g]
                                     /\ work'[g] = work[g] /\ txn'[g] = txn[g],
           txn'[h].plays = {}, pc[h] # "done", Delivering(h)', Upserting(h)'
    PROVE  IFeeds'
<1>1. OneRowPerPlay'
  BY DEF OneRowPerPlay, IFeeds
<1>2. \A g \in Handlers \ {h} : Delivering(g)' /\ Upserting(g)'
  BY DeliveryKept DEF IFeeds
<1> QED BY <1>1, <1>2 DEF IFeeds

(* A handler that ends keeps nothing that was not committed.               *)
LEMMA FeedsEnd ==
    ASSUME IType, IFeeds, NEW h \in Handlers, pc[h] # "done", UNCHANGED <<plays, playlists, req>>,
           Goto(h, "done"), txn' = [txn EXCEPT ![h] = NoTxn], work' = [work EXCEPT ![h] = NoWork]
    PROVE  IFeeds'
<1>1. /\ pc'[h] = "done" /\ txn'[h].plays = {}
      /\ \A g \in Handlers \ {h} : /\ req'[g] = req[g] /\ pc'[g] = pc[g]
                                   /\ work'[g] = work[g] /\ txn'[g] = txn[g]
  BY DEF Goto, IType, TypeOK, NoTxn
<1>2. Delivering(h)' /\ Upserting(h)'
  BY <1>1 DEF Delivering, Upserting
<1> QED BY <1>1, <1>2, FeedsElsewhere

LEMMA FeedsInsert ==
    ASSUME IType, IFeeds, NEW h \in Handlers, InsertPlay(h)
    PROVE  IFeeds'
<1>1. PICK q \in Seq(Plays) : q = req[h].plays
  BY RequestKinds DEF InsertPlay, IType, Station
<1>2. PICK w \in Local : w = work[h]
  BY DEF IType
<1>3. PICK n \in Nat \ {0} : n = w.next /\ n <= Len(q)
  BY <1>1, <1>2 DEF InsertPlay, Local
<1>4. PICK p \in Plays : p = q[n] /\ p = NextPlay(h)
  BY <1>1, <1>2, <1>3 DEF NextPlay
<1>5. PICK P \in SUBSET Plays : P = txn[h].plays
  BY DEF IType, Pending
<1>6. /\ pc[h] = "insert_play" /\ UNCHANGED <<plays, playlists, req, pc>>
      /\ w.written \in Nat /\ w.kept \in Nat
      /\ IsFiniteSet(P) /\ Cardinality(P) = w.written /\ w.written + w.kept = n - 1
      /\ \A i \in 1..(n - 1) : q[i] \in P \cup {r.play : r \in plays}
      /\ \A r \in plays : r.by # h
  BY <1>1, <1>2, <1>3, <1>5 DEF InsertPlay, db, Local, IFeeds, Delivering
<1>s. w.written + w.kept = n - 1 /\ w.written \in Nat /\ w.kept \in Nat
  BY <1>6
<1>n. \A i \in 1..n : i = n \/ i \in 1..(n - 1)
  OBVIOUS
<1>7. \A g \in Handlers \ {h} : work'[g] = work[g] /\ txn'[g] = txn[g]
  BY DEF InsertPlay, IType
<1>8. CASE Conflicts(h, p)
  <2>1. UNCHANGED txn /\ work' = [work EXCEPT ![h].next = @ + 1, ![h].kept = @ + 1]
    BY <1>4, <1>8 DEF InsertPlay
  <2>2. work'[h].next = n + 1 /\ work'[h].kept = w.kept + 1 /\ work'[h].written = w.written
    BY <2>1, <1>2, <1>3 DEF IType, Local
  <2>3. p \in P \cup {r.play : r \in plays}
    BY <1>8, <1>5 DEF Conflicts
  <2>4. \A i \in 1..n : q[i] \in P \cup {r.play : r \in plays}
    BY <2>3, <1>6, <1>4, <1>n
  <2>5. Delivering(h)' /\ Upserting(h)'
    <3>1. w.written + (w.kept + 1) = (n + 1) - 1 /\ (n + 1) - 1 = n
      BY <1>6
    <3> QED BY <2>1, <2>2, <2>4, <3>1, <1>1, <1>3, <1>5, <1>6 DEF Delivering, Upserting
  <2>6. OneRowPerPlay'
    BY <2>1, <1>6 DEF OneRowPerPlay, IFeeds
  <2>7. \A g \in Handlers \ {h} : Delivering(g)' /\ Upserting(g)'
    BY <1>6, <1>7, DeliveryKept DEF IFeeds
  <2> QED BY <2>5, <2>6, <2>7, <1>6 DEF IFeeds
<1>9. CASE ~Conflicts(h, p)
  <2>1. /\ work' = [work EXCEPT ![h].next = @ + 1, ![h].written = @ + 1]
        /\ txn' = [txn EXCEPT ![h].plays = @ \cup {p}]
    BY <1>4, <1>9 DEF InsertPlay
  <2>2. work'[h].next = n + 1 /\ work'[h].kept = w.kept /\ work'[h].written = w.written + 1
    BY <2>1, <1>2, <1>3 DEF IType, Local
  <2>3. txn'[h].plays = P \cup {p}
    BY <2>1, <1>5 DEF IType, Pending
  <2>4. p \notin P /\ \A r \in plays : r.play # p
    BY <1>9, <1>5 DEF Conflicts
  <2>5. IsFiniteSet(P \cup {p}) /\ Cardinality(P \cup {p}) = w.written + 1
    BY <2>4, <1>6, FS_AddElement
  <2>6. \A i \in 1..n : q[i] \in (P \cup {p}) \cup {r.play : r \in plays}
    BY <1>6, <1>4, <1>n
  <2>7. Delivering(h)' /\ Upserting(h)'
    <3>1. (w.written + 1) + w.kept = (n + 1) - 1 /\ (n + 1) - 1 = n
      BY <1>s
    <3> QED BY <2>2, <2>3, <2>5, <2>6, <3>1, <1>1, <1>3, <1>6 DEF Delivering, Upserting
  <2>8. \A g \in Handlers \ {h} : p \notin txn[g].plays
    <3>1. BlockedBy(h) = {g \in Others(h) : p \in txn[g].plays}
      BY <1>1, <1>2, <1>3, <1>4, <1>6 DEF BlockedBy
    <3> QED BY <3>1 DEF InsertPlay, Others
  <2>9. OneRowPerPlay'
    <3>1. \A g \in Handlers : txn'[g].plays = IF g = h THEN P \cup {p} ELSE txn[g].plays
      BY <2>3, <1>7
    <3> QED BY <3>1, <2>4, <2>8, <1>5, <1>6 DEF OneRowPerPlay, IFeeds
  <2>10. \A g \in Handlers \ {h} : Delivering(g)' /\ Upserting(g)'
    BY <1>6, <1>7, DeliveryKept DEF IFeeds
  <2> QED BY <2>7, <2>9, <2>10, <1>6 DEF IFeeds
<1> QED BY <1>8, <1>9

LEMMA Appended ==
    ASSUME NEW s \in Seq(Item), NEW e \in Item
    PROVE  /\ Append(s, e) \in Seq(Item)
           /\ Len(Append(s, e)) = Len(s) + 1
           /\ \A i \in 1..(Len(s) + 1) : Append(s, e)[i] = IF i = Len(s) + 1 THEN e ELSE s[i]
OBVIOUS

LEMMA FeedsUpsert ==
    ASSUME IType, IFeeds, NEW h \in Handlers, Upsert(h)
    PROVE  IFeeds'
<1>1. PICK q \in Seq(Item) : q = req[h].items
  BY RequestKinds DEF Upsert, IType, Station
<1>2. PICK w \in Local : w = work[h]
  BY DEF IType
<1>3. PICK n \in Nat \ {0} : n = w.next /\ n <= Len(q)
  BY <1>1, <1>2 DEF Upsert, Local
<1>4. PICK item \in Item : item = q[n] /\ item = NextItem(h)
  BY <1>1, <1>2, <1>3 DEF NextItem
<1>5. PICK own \in Seq(Item) : own = txn[h].items
  BY DEF IType, Pending
<1>6. /\ pc[h] = "upsert" /\ UNCHANGED <<plays, playlists, req, pc>>
      /\ Len(own) = n - 1
      /\ \A i \in 1..(n - 1) : own[i].id = q[i].id /\ own[i].snapshot = q[i].snapshot
  BY <1>1, <1>2, <1>3, <1>5 DEF Upsert, db, IFeeds, Upserting
<1>7. item.id \in Playlists
  BY DEF Item
<1>8. PICK old \in Item \cup {Null} : old = StoredItem(h, item.id) /\ (old # Null => old.id = item.id)
  BY <1>7, StoredItemType, StoredItemId
<1>9. PICK new \in Item : /\ txn' = [txn EXCEPT ![h].items = Append(@, new)]
                          /\ new.id = item.id /\ new.snapshot = item.snapshot
  <2>1. CASE old = Null \/ IsDistinct(old.snapshot, item.snapshot)
    BY <2>1, <1>4, <1>8 DEF Upsert
  <2>2. CASE ~(old = Null \/ IsDistinct(old.snapshot, item.snapshot))
    BY <2>2, <1>4, <1>8 DEF Upsert, IsDistinct
  <2> QED BY <2>1, <2>2
<1>10. txn'[h].items = Append(own, new) /\ txn'[h].plays = txn[h].plays
  BY <1>5, <1>9 DEF IType, Pending
<1>11. work'[h].next = n + 1
  BY <1>2, <1>3 DEF Upsert, IType, Local
<1>12. \A g \in Handlers \ {h} : work'[g] = work[g] /\ txn'[g] = txn[g]
  BY DEF Upsert, IType
<1>13. Upserting(h)'
  <2>1. PICK more \in Seq(Item) : /\ more = Append(own, new) /\ Len(more) = Len(own) + 1
                                  /\ \A i \in 1..(Len(own) + 1) :
                                        more[i] = IF i = Len(own) + 1 THEN new ELSE own[i]
    BY Appended
  <2>2. Len(more) = n /\ \A i \in 1..n : more[i] = IF i = n THEN new ELSE own[i]
    <3>1. Len(own) + 1 = n
      BY <1>6
    <3> QED BY <2>1, <3>1
  <2>3. \A i \in 1..n : more[i].id = q[i].id /\ more[i].snapshot = q[i].snapshot
    <3>1. ASSUME NEW i \in 1..n, i # n
          PROVE  more[i].id = q[i].id /\ more[i].snapshot = q[i].snapshot
      <4>1. i \in 1..(n - 1)
        BY <3>1
      <4> QED BY <4>1, <3>1, <2>2, <1>6
    <3>2. more[n].id = q[n].id /\ more[n].snapshot = q[n].snapshot
      BY <2>2, <1>4, <1>9
    <3> QED BY <3>1, <3>2
  <2>4. (n + 1) - 1 = n
    OBVIOUS
  <2> QED BY <2>1, <2>2, <2>3, <2>4, <1>1, <1>3, <1>6, <1>10, <1>11 DEF Upserting
<1>14. txn'[h].plays = {} /\ Delivering(h)'
  <2>1. txn[h].plays = {} /\ \A r \in plays : r.by # h
    BY <1>6 DEF IFeeds, Delivering
  <2> QED BY <2>1, <1>6, <1>10 DEF Delivering
<1> QED BY <1>6, <1>12, <1>13, <1>14, FeedsElsewhere

LEMMA FeedsCommit ==
    ASSUME IType, IFeeds, NEW h \in Handlers, CommitPlays(h)
    PROVE  IFeeds'
<1>1. PICK P : P = txn[h].plays
  OBVIOUS
<1>2. plays' = plays \cup {[play |-> p, by |-> h] : p \in P} /\ UNCHANGED <<playlists, req>>
  BY <1>1 DEF CommitPlays, Answer
<1>3. /\ pc'[h] = "done" /\ txn'[h].plays = {}
      /\ \A g \in Handlers \ {h} : /\ req'[g] = req[g] /\ pc'[g] = pc[g]
                                   /\ work'[g] = work[g] /\ txn'[g] = txn[g]
  BY DEF CommitPlays, Answer, Goto, IType, TypeOK, NoTxn
<1>4. Delivering(h)' /\ Upserting(h)'
  BY <1>3 DEF Delivering, Upserting
<1>5. \A g \in Handlers \ {h} : Delivering(g)' /\ Upserting(g)'
  <2>1. \A r \in plays' \ plays : r.by = h
    BY <1>2
  <2> QED BY <2>1, <1>2, <1>3, DeliveryKept DEF IFeeds
<1>6. OneRowPerPlay'
  <2>1. \A r \in plays' : r \in plays \/ (r.play \in P /\ r = [play |-> r.play, by |-> h])
    BY <1>2
  <2>2. \A r \in plays : r.play \notin P
    BY <1>1 DEF IFeeds, OneRowPerPlay
  <2>3. \A r, q \in plays' : r.play = q.play => r = q
    BY <2>1, <2>2 DEF IFeeds, OneRowPerPlay
  <2>4. \A g \in Handlers \ {h} : txn[g].plays \cap P = {}
    BY <1>1 DEF IFeeds, OneRowPerPlay
  <2>5. \A g \in Handlers : \A r \in plays' : r.play \notin txn'[g].plays
    BY <2>1, <2>4, <1>3 DEF IFeeds, OneRowPerPlay
  <2>6. \A f, g \in Handlers : f # g => txn'[f].plays \cap txn'[g].plays = {}
    BY <1>3 DEF IFeeds, OneRowPerPlay
  <2> QED BY <2>3, <2>5, <2>6 DEF OneRowPerPlay
<1> QED BY <1>2, <1>4, <1>5, <1>6 DEF IFeeds

LEMMA FeedsCommitPlaylists ==
    ASSUME IType, IFeeds, NEW h \in Handlers, CommitPlaylists(h)
    PROVE  IFeeds'
<1>1. /\ pc[h] = "upsert" /\ pc'[h] = "done" /\ txn'[h].plays = {} /\ UNCHANGED <<plays, req>>
      /\ \A g \in Handlers \ {h} : /\ req'[g] = req[g] /\ pc'[g] = pc[g]
                                   /\ work'[g] = work[g] /\ txn'[g] = txn[g]
  BY DEF CommitPlaylists, Answer, Goto, IType, TypeOK, NoTxn
<1>2. Delivering(h)' /\ Upserting(h)'
  BY <1>1 DEF Delivering, Upserting
<1>3. \A g \in Handlers \ {h} : Delivering(g)' /\ Upserting(g)'
  BY <1>1, DeliveryKept DEF IFeeds
<1>4. OneRowPerPlay'
  BY <1>1 DEF OneRowPerPlay, IFeeds
<1>5. \A p \in Playlists : playlists'[p] # Null => playlists'[p].id = p
  BY StoredItemId DEF CommitPlaylists
<1> QED BY <1>2, <1>3, <1>4, <1>5 DEF IFeeds

LEMMA FeedsBegin ==
    ASSUME IType, IFeeds, NEW h \in Handlers, Begin(h)
    PROVE  IFeeds'
<1>1. PICK r \in Request : req'[h] = r /\ pc'[h] = EntryOf(r)
  BY ConstantsAssumption DEF Begin, Goto, IType, TypeOK, Plan
<1>2. /\ pc[h] = "idle" /\ work[h] = NoWork /\ txn'[h] = NoTxn /\ UNCHANGED <<plays, playlists>>
      /\ \A p \in plays : p.by # h
      /\ \A g \in Handlers \ {h} : /\ req'[g] = req[g] /\ pc'[g] = pc[g]
                                   /\ work'[g] = work[g] /\ txn'[g] = txn[g]
  BY DEF Begin, Goto, IType, TypeOK, db, IFeeds, Delivering
<1>3. /\ work'[h].next = 1 /\ work'[h].written = 0 /\ work'[h].kept = 0
  <2>1. PICK t : work' = [work EXCEPT ![h].at = now, ![h].then = t]
    BY DEF Begin
  <2>2. PICK w \in Local : w = work[h] /\ w.next = 1 /\ w.written = 0 /\ w.kept = 0
    BY <1>2 DEF IType, NoWork
  <2> QED BY <2>1, <2>2 DEF IType, Local
<1>4. pc'[h] \notin {"idle", "insert_play", "done"}
  BY <1>1, RequestKinds DEF EntryOf
<1>5. Delivering(h)'
  BY <1>2, <1>3, <1>4 DEF Delivering, NoTxn
<1>6. Upserting(h)'
  <2>1. SUFFICES ASSUME pc'[h] = "upsert" PROVE Upserting(h)'
    BY DEF Upserting
  <2>2. r.kind = "playlists"
    BY <2>1, <1>1, RequestKinds DEF EntryOf
  <2>3. r.items \in Seq(Item)
    BY <2>2, RequestKinds
  <2>4. Len(r.items) \in Nat
    BY <2>3
  <2> QED BY <2>4, <1>1, <1>2, <1>3 DEF Upserting, NoTxn
<1>7. pc[h] # "done" /\ txn'[h].plays = {}
  BY <1>2 DEF NoTxn
<1> QED BY <1>2, <1>5, <1>6, <1>7, FeedsElsewhere

LEMMA FeedsStep ==
    ASSUME IType, IType', IFeeds, [Next]_vars
    PROVE  IFeeds'
<1>1. ASSUME NEW h \in Handlers,
             \/ Store(h) \/ EndWalk(h) \/ SaveFlag(h) \/ BreakDeadlock(h) \/ Crash(h)
             \/ (ReadFlag(h) /\ EndWith(h, "503")) \/ (FindFlag(h) /\ EndWith(h, "404"))
      PROVE  IFeeds'
  <2>1. /\ pc[h] # "done" /\ UNCHANGED <<plays, playlists, req>> /\ Goto(h, "done")
        /\ txn' = [txn EXCEPT ![h] = NoTxn] /\ work' = [work EXCEPT ![h] = NoWork]
    BY <1>1 DEF Store, EndWalk, SaveFlag, BreakDeadlock, Deadlocked, BlockedBy, Crash, ReadFlag,
                FindFlag, EndWith, Answer, db
  <2> QED BY <2>1, FeedsEnd
<1>2. ASSUME NEW h \in Handlers,
             \/ Count(h) \/ Page(h)
             \/ (ReadFlag(h) /\ ~EndWith(h, "503")) \/ (FindFlag(h) /\ ~EndWith(h, "404"))
      PROVE  IFeeds'
  <2>1. /\ UNCHANGED <<plays, playlists, req, txn>>
        /\ \A g \in Handlers \ {h} : pc'[g] = pc[g] /\ work'[g] = work[g]
    BY <1>2 DEF Count, Page, ReadFlag, FindFlag, Goto, IType, TypeOK, db
  <2>2. /\ pc[h] \in {"count", "page", "read_flag", "find_flag"}
        /\ pc'[h] \in {"count", "page", "answer", "insert_play", "save_flag"}
        /\ pc'[h] = "insert_play" => pc[h] = "read_flag" /\ UNCHANGED work
    BY <1>2 DEF Count, Page, ReadFlag, FindFlag, Goto, IType, TypeOK
  <2>3. txn'[h].plays = {} /\ \A r \in plays : r.by # h
    BY <2>1, <2>2 DEF IFeeds, Delivering
  <2>4. ASSUME pc'[h] = "insert_play"
        PROVE  /\ IsFiniteSet(txn'[h].plays) /\ Cardinality(txn'[h].plays) = work'[h].written
               /\ work'[h].next = 1 /\ work'[h].written = 0 /\ work'[h].kept = 0
               /\ Len(req'[h].plays) \in Nat
    <3>1. work[h].next = 1 /\ work[h].written = 0 /\ work[h].kept = 0
      BY <2>2, <2>4 DEF IFeeds, Delivering
    <3>2. req[h].plays \in Seq(Plays)
      BY <2>2, <2>4, RequestKinds DEF IType, Station
    <3>3. Len(req[h].plays) \in Nat
      BY <3>2
    <3> QED BY <3>1, <3>3, <2>1, <2>2, <2>3, <2>4, FS_EmptySet
  <2>5. Delivering(h)'
    BY <2>1, <2>2, <2>3, <2>4 DEF Delivering
  <2>6. Upserting(h)'
    BY <2>2 DEF Upserting
  <2>7. pc[h] # "done"
    BY <2>2
  <2> QED BY <2>1, <2>3, <2>5, <2>6, <2>7, FeedsElsewhere
<1>3. CASE Tick \/ UNCHANGED vars
  <2>1. UNCHANGED <<plays, playlists, req, pc, txn, work>>
    BY <1>3 DEF Tick, vars, db
  <2>2. \A g \in Handlers : Delivering(g)' /\ Upserting(g)'
    BY <2>1, DeliveryKept DEF IFeeds
  <2> QED BY <2>1, <2>2 DEF IFeeds, OneRowPerPlay
<1>4. ASSUME NEW h \in Handlers, Begin(h) PROVE IFeeds'
  BY <1>4, FeedsBegin
<1>5. ASSUME NEW h \in Handlers, InsertPlay(h) PROVE IFeeds'
  BY <1>5, FeedsInsert
<1>6. ASSUME NEW h \in Handlers, CommitPlays(h) PROVE IFeeds'
  BY <1>6, FeedsCommit
<1>7. ASSUME NEW h \in Handlers, Upsert(h) PROVE IFeeds'
  BY <1>7, FeedsUpsert
<1>8. ASSUME NEW h \in Handlers, CommitPlaylists(h) PROVE IFeeds'
  BY <1>8, FeedsCommitPlaylists
<1>9. ASSUME NEW h \in Handlers, Step(h) PROVE IFeeds'
  <2>1. CASE ReadFlag(h) \/ FindFlag(h)
    <3>1. CASE (ReadFlag(h) /\ EndWith(h, "503")) \/ (FindFlag(h) /\ EndWith(h, "404"))
      BY <3>1, <1>1
    <3>2. CASE (ReadFlag(h) /\ ~EndWith(h, "503")) \/ (FindFlag(h) /\ ~EndWith(h, "404"))
      BY <3>2, <1>2
    <3> QED BY <2>1, <3>1, <3>2
  <2>2. CASE Store(h) \/ EndWalk(h) \/ SaveFlag(h) \/ Count(h) \/ Page(h)
    BY <2>2, <1>1, <1>2
  <2> QED BY <2>1, <2>2, <1>5, <1>6, <1>7, <1>8, <1>9 DEF Step
<1> QED BY <1>1, <1>3, <1>4, <1>9 DEF Next, Quiet

(* At the commit of a delivery of plays each of its plays has one row, and *)
(* its counters are right.                                                 *)
LEMMA PlaysCommitted ==
    ASSUME IType, IFeeds, IFeeds', NEW h \in Handlers, CommitPlays(h)
    PROVE  /\ \A i \in DOMAIN req[h].plays :
                 Cardinality({r \in plays' : r.play = req[h].plays[i]}) = 1
           /\ Cardinality({r \in plays' : r.by = h}) = work[h].written
           /\ work[h].written + work[h].kept = Len(req[h].plays)
<1>1. PICK q \in Seq(Plays) : q = req[h].plays
  BY RequestKinds DEF CommitPlays, IType, Station
<1>2. PICK w \in Local : w = work[h]
  BY DEF IType
<1>3. PICK P : P = txn[h].plays
  OBVIOUS
<1>4. /\ plays' = plays \cup {[play |-> p, by |-> h] : p \in P}
      /\ IsFiniteSet(P) /\ Cardinality(P) = w.written /\ w.written + w.kept = w.next - 1
      /\ w.next - 1 <= Len(q) /\ w.next > Len(q)
      /\ \A i \in 1..(w.next - 1) : q[i] \in P \cup {r.play : r \in plays}
      /\ \A r \in plays : r.by # h
  BY <1>1, <1>2, <1>3 DEF CommitPlays, IFeeds, Delivering
<1>5. w.next - 1 = Len(q) /\ DOMAIN q = 1..Len(q)
  <2>1. w.next \in Nat /\ Len(q) \in Nat
    BY DEF Local
  <2> QED BY <2>1, <1>4
<1>6. ASSUME NEW i \in DOMAIN q PROVE Cardinality({r \in plays' : r.play = q[i]}) = 1
  <2>0. q[i] \in P \cup {r.play : r \in plays}
    BY <1>4, <1>5, <1>6
  <2>1. PICK x \in plays' : x.play = q[i]
    <3>1. CASE q[i] \in P
      <4>1. PICK x : x = [play |-> q[i], by |-> h]
        OBVIOUS
      <4> QED BY <4>1, <3>1, <1>4
    <3>2. CASE q[i] \in {r.play : r \in plays}
      BY <3>2, <1>4
    <3> QED BY <2>0, <3>1, <3>2
  <2>2. \A r \in plays' : r.play = q[i] => r = x
    BY <2>1 DEF IFeeds, OneRowPerPlay
  <2>3. {r \in plays' : r.play = q[i]} = {x}
    BY <2>1, <2>2
  <2> QED BY <2>3, FS_Singleton
<1>7. Cardinality({r \in plays' : r.by = h}) = w.written
  <2>1. PICK T : T = {[play |-> p, by |-> h] : p \in P}
    OBVIOUS
  <2>2. {r \in plays' : r.by = h} = T
    BY <2>1, <1>4
  <2>3. PICK f : f = [p \in P |-> [play |-> p, by |-> h]]
    OBVIOUS
  <2>4. f \in Bijection(P, T)
    BY <2>1, <2>3 DEF Bijection, Injection, Surjection, IsInjective
  <2>5. ExistsBijection(P, T)
    BY <2>4 DEF ExistsBijection
  <2>6. Cardinality(T) = Cardinality(P)
    BY <2>5, <1>4, FS_Bijection
  <2> QED BY <2>2, <2>6, <1>4
<1> QED BY <1>1, <1>2, <1>4, <1>5, <1>6, <1>7

(* At the commit of a delivery of playlists each is at the snapshot that   *)
(* the delivery carried last.                                              *)
LEMMA PlaylistsCommitted ==
    ASSUME IType, IFeeds, NEW h \in Handlers, CommitPlaylists(h), NEW i \in DOMAIN req[h].items
    PROVE  LET p == req[h].items[i].id
           IN  playlists'[p].snapshot = req[h].items[LastOf(req[h].items, p)].snapshot
<1>1. PICK q \in Seq(Item) : q = req[h].items
  BY RequestKinds DEF CommitPlaylists, IType, Station
<1>2. PICK w \in Local : w = work[h]
  BY DEF IType
<1>3. PICK own \in Seq(Item) : own = txn[h].items
  BY DEF IType, Pending
<1>4. /\ Len(own) = w.next - 1 /\ w.next - 1 <= Len(q) /\ w.next > Len(q)
      /\ \A k \in 1..(w.next - 1) : own[k].id = q[k].id /\ own[k].snapshot = q[k].snapshot
  BY <1>1, <1>2, <1>3 DEF CommitPlaylists, IFeeds, Upserting
<1>5. DOMAIN own = DOMAIN q
      /\ \A k \in DOMAIN q : own[k].id = q[k].id /\ own[k].snapshot = q[k].snapshot
  <2>1. w.next \in Nat /\ Len(q) \in Nat
    BY DEF Local
  <2>2. w.next - 1 = Len(q)
    BY <2>1, <1>4
  <2> QED BY <2>2, <1>4
<1>6. PICK p \in Playlists : p = q[i].id
  <2>1. q[i] \in Item
    BY <1>1
  <2> QED BY <2>1 DEF Item
<1>7. i \in DOMAIN q /\ i \in DOMAIN own /\ own[i].id = p
  BY <1>1, <1>5, <1>6
<1>8. PICK a \in DOMAIN q : /\ a = LastOf(q, p) /\ q[a].id = p
                            /\ \A k \in DOMAIN q : q[k].id = p => k <= a
  BY <1>6, <1>7, LastOfItems
<1>9. PICK b \in DOMAIN own : /\ b = LastOf(own, p) /\ own[b].id = p
                              /\ \A k \in DOMAIN own : own[k].id = p => k <= b
  BY <1>7, LastOfItems
<1>10. a = b
  <2>1. a \in Nat /\ b \in Nat
    BY <1>1, <1>3
  <2>2. a <= b /\ b <= a
    BY <1>5, <1>8, <1>9
  <2> QED BY <2>1, <2>2
<1>11. playlists'[p] = own[b]
  BY <1>3, <1>7, <1>9 DEF CommitPlaylists, StoredItem
<1> QED BY <1>1, <1>5, <1>6, <1>8, <1>10, <1>11

(* Whatever is redelivered, at once or in any order: one row per play, the *)
(* counters right, and every playlist as it was posted.                    *)
THEOREM StoredOnce == Spec => FeedsStoredOnce
<1> DEFINE Stored ==
      \A h \in Handlers : Committed(h) =>
          /\ req[h].kind = "plays" =>
                /\ \A i \in DOMAIN req[h].plays :
                      Cardinality({r \in plays' : r.play = req[h].plays[i]}) = 1
                /\ Cardinality({r \in plays' : r.by = h}) = work[h].written
                /\ work[h].written + work[h].kept = Len(req[h].plays)
          /\ req[h].kind = "playlists" =>
                \A i \in DOMAIN req[h].items :
                    LET p == req[h].items[i].id
                    IN  playlists'[p].snapshot = req[h].items[LastOf(req[h].items, p)].snapshot
<1>1. Init => IType /\ IFeeds
  <2> SUFFICES ASSUME Init PROVE IType /\ IFeeds
    OBVIOUS
  <2>1. OneRowPerPlay
    BY DEF Init, OneRowPerPlay, NoTxn
  <2>2. \A h \in Handlers : Delivering(h) /\ Upserting(h)
    BY DEF Init, Delivering, Upserting, NoTxn
  <2>3. \A p \in Playlists : playlists[p] = Null
    BY DEF Init
  <2> QED BY <2>1, <2>2, <2>3, TypeInit DEF IFeeds
<1>2. IType /\ IFeeds /\ [Next]_vars => IType' /\ IFeeds'
  BY TypeStep, FeedsStep
<1>3. IType /\ IFeeds /\ IFeeds' /\ [Next]_vars => [Stored]_vars
  <2> SUFFICES ASSUME IType, IFeeds, IFeeds', Next, NEW h \in Handlers, Committed(h)
               PROVE
                 /\ req[h].kind = "plays" =>
                      /\ \A i \in DOMAIN req[h].plays :
                            Cardinality({r \in plays' : r.play = req[h].plays[i]}) = 1
                      /\ Cardinality({r \in plays' : r.by = h}) = work[h].written
                      /\ work[h].written + work[h].kept = Len(req[h].plays)
                 /\ req[h].kind = "playlists" =>
                      \A i \in DOMAIN req[h].items :
                          LET p == req[h].items[i].id
                          IN  playlists'[p].snapshot
                                = req[h].items[LastOf(req[h].items, p)].snapshot
    OBVIOUS
  <2>1. CommitPlays(h) \/ CommitPlaylists(h) \/ Store(h) \/ EndWalk(h) \/ SaveFlag(h)
    <3>1. answer[h] = "none" /\ answer'[h] = "200"
      BY DEF Committed
    <3>2. answer \in [Handlers -> {"none", "200", "404", "500", "503", "crashed"}]
      BY DEF IType, TypeOK
    <3>3. ~Tick /\ ~Quiet
      BY <3>1 DEF Tick, Quiet, vars
    <3>4. PICK g \in Handlers : Begin(g) \/ Step(g) \/ BreakDeadlock(g) \/ Crash(g)
      BY <3>3 DEF Next
    <3>5. \/ UNCHANGED answer
          \/ EndWith(g, "503") \/ EndWith(g, "404") \/ EndWith(g, "500") \/ EndWith(g, "crashed")
          \/ CommitPlays(g) \/ CommitPlaylists(g) \/ Store(g) \/ EndWalk(g) \/ SaveFlag(g)
      BY <3>4 DEF Step, Begin, Count, Page, ReadFlag, InsertPlay, FindFlag, Upsert,
                  BreakDeadlock, Crash
    <3>6. CASE \/ UNCHANGED answer
               \/ EndWith(g, "503") \/ EndWith(g, "404") \/ EndWith(g, "500")
               \/ EndWith(g, "crashed")
      BY <3>1, <3>2, <3>6 DEF EndWith
    <3>7. CASE CommitPlays(g) \/ CommitPlaylists(g) \/ Store(g) \/ EndWalk(g) \/ SaveFlag(g)
      <4>1. answer' = [answer EXCEPT ![g] = "200"]
        BY <3>7 DEF CommitPlays, CommitPlaylists, Store, EndWalk, SaveFlag, Answer
      <4>2. g = h
        BY <4>1, <3>1, <3>2
      <4> QED BY <3>7, <4>2
    <3> QED BY <3>5, <3>6, <3>7
  <2>2. CASE CommitPlays(h)
    <3>1. req[h].kind = "plays"
      BY <2>2 DEF CommitPlays, IType, Station
    <3> QED BY <2>2, <3>1, PlaysCommitted
  <2>3. CASE CommitPlaylists(h)
    <3>1. req[h].kind = "playlists"
      BY <2>3 DEF CommitPlaylists, IType, Station
    <3> QED BY <2>3, <3>1, PlaylistsCommitted
  <2>4. CASE Store(h) \/ EndWalk(h) \/ SaveFlag(h)
    <3>1. req[h].kind \notin {"plays", "playlists"}
      BY <2>4 DEF Store, EndWalk, SaveFlag, IType, Station
    <3> QED BY <3>1
  <2> QED BY <2>1, <2>2, <2>3, <2>4
<1> QED BY <1>1, <1>2, <1>3, PTL DEF Spec, FeedsStoredOnce

=============================================================================
