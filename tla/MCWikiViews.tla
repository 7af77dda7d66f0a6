---------------------------- MODULE MCWikiViews -----------------------------
(* The instance of WikiViews for TLC.  Readers do not interact: one is     *)
(* enough for what any of them may see.                                    *)
EXTENDS WikiViews, TLC

CONSTANTS i1, i2, i3, reader, ann, waltz, whip, lee, attributions, relations

MCOrder == <<attributions, relations>>
MCMentions == (i1 :> {waltz}) @@ (i2 :> {whip, lee}) @@ (i3 :> {waltz, whip})
MCTaught == lee :> {i1}
MCWrites == (i1 :> {attributions, relations}) @@ (i2 :> {relations}) @@ (i3 :> {attributions, relations})
MCDoes == (i1 :> {"ingest"}) @@ (i2 :> {"ingest", "input"}) @@ (i3 :> {"input", "recompose"})

MCRequests == reader :>
    {[kind |-> "entity", user |-> ann, entity |-> whip],
     [kind |-> "instructor", user |-> ann, entity |-> lee],
     [kind |-> "source", user |-> ann, source |-> i1],
     [kind |-> "list", user |-> ann],
     [kind |-> "admin_source", source |-> i1],
     [kind |-> "admin_list"],
     [kind |-> "export"]}
=============================================================================
