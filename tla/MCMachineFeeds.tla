--------------------------- MODULE MCMachineFeeds ---------------------------
(* Instances of MachineFeeds for TLC: the workloads of its runs.           *)
EXTENDS MachineFeeds

CONSTANTS h1, h2, h3, h4, cog, unknown, flow, inline, hook, run1, run2, p1, p2, l1, l2,
          s1, s2, b1, b2, findings, tracks

Report(r, s, n) == [kind |-> "evaluation",
                    finding |-> [repo |-> r, source |-> s, run |-> n, severity |-> "WARN"]]
FlowState(f, s, n) == [kind |-> "webhook", flow |-> f, state |-> s, run |-> n]
PostPlays(q) == [kind |-> "plays", plays |-> q]
PostLists(q) == [kind |-> "playlists", items |-> q]
Playlist(l, s, b) == [id |-> l, snapshot |-> s, body |-> b]
Switch(v) == [kind |-> "flag", enabled |-> v]
ReadSome(R, n) == [kind |-> "walk", repos |-> R, run |-> n]

Delivered(f, requests, width, until) ==
    [flag |-> f, requests |-> requests, width |-> width, until |-> until]
MCFlowRepo == flow :> cog

(* Findings of two runs of one repo and of none, and flow states, posted   *)
(* once or twice while the list is read.                                   *)
FindingWorkload ==
    (h1 :> {Report(cog, inline, run1), FlowState(flow, "CRASHED", run1)})
 @@ (h2 :> {Report(cog, inline, run2), Report(cog, Null, run1), FlowState(Null, "OTHER", Null)})
 @@ (h3 :> {Report(cog, inline, run1), Report(cog, inline, Null)})
 @@ (h4 :> {ReadSome({cog}, Null)})

(* Plays and playlists in opposite orders and again, and the flag.         *)
TrackWorkload ==
    (h1 :> {PostPlays(<<p1, p2>>), PostLists(<<Playlist(l1, s1, b1), Playlist(l2, s1, b1)>>)})
 @@ (h2 :> {PostPlays(<<p2, p1, p2>>), PostLists(<<Playlist(l2, Null, b2), Playlist(l1, s1, b2)>>)})
 @@ (h3 :> {PostPlays(<<p1, p2>>), PostLists(<<Playlist(l1, s2, b2), Playlist(l1, s1, b1)>>)})
 @@ (h4 :> {Switch(FALSE), Switch(TRUE)})

FeedPlans ==
    (findings :> Delivered(Null, FindingWorkload, 2, 2))
 @@ (tracks :> Delivered(TRUE, TrackWorkload, 3, 1))
=============================================================================
