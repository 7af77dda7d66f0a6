--------------------------- MODULE MCWcsPipeline ---------------------------
(* Instances of WcsPipeline for TLC: the workloads of its runs.            *)
EXTENDS WcsPipeline, TLC

CONSTANTS h1, h2, h3, h4, alice, bob, t1, t2, x1, x2, p1, p2, a, b, bs,
          serial, concurrent, reingest

Post(t, x) == [kind |-> "transcript", transcript |-> t, text |-> x]
Ingest(c, t, p) == [kind |-> "ingest", caller |-> c, transcript |-> t, payload |-> p]
Recompose(s) == [kind |-> "recompose", source |-> s]
Correct(s, n, m) == [kind |-> "correction", source |-> s, from |-> n, to |-> m]
Add(s, ns, k) == [kind |-> "addition", source |-> s, refs |-> ns, table |-> k]
Relate(ns, k) == [kind |-> "relation", refs |-> ns, table |-> k]

MCOwnerOf == [t \in Transcripts |-> alice]
OneStored == [t \in Transcripts |-> IF t = t1 THEN x1 ELSE NoText]
AllStored == [t \in Transcripts |-> x1]
Served(stored, requests, width) ==
    [stored |-> stored, requests |-> requests, width |-> width]

(* p1 claims a and then mentions b, p2 the other way round: two of them    *)
(* create the two entities in opposite orders.  bs is the plural of b and  *)
(* becomes an entity of its own only where b does not exist yet.           *)
MCMentions ==
    (p1 :> <<[name |-> a, claim |-> TRUE], [name |-> b, claim |-> FALSE]>>)
 @@ (p2 :> <<[name |-> bs, claim |-> FALSE], [name |-> b, claim |-> FALSE],
           [name |-> a, claim |-> FALSE]>>)
MCSingular == [n \in Names |-> IF n = bs THEN b ELSE n]
MCWrites == (p1 :> {1, 2}) @@ (p2 :> {1})

(* Any of the pipeline's requests, one at a time, in any order.            *)
SerialWorkload ==
    (h1 :> {Ingest(alice, t1, p1), Post(t2, x1)})
 @@ (h2 :> {Ingest(alice, t1, p2), Ingest(bob, t1, p2), Ingest(alice, t2, p1), Correct(h1, a, b)})
 @@ (h3 :> {Post(t1, x2), Post(t1, x1), Recompose(h1), Relate({a}, 2), Add(NoOne, {bs}, 2)})
 @@ (h4 :> {Ingest(alice, t1, p1), Recompose(h2), Relate({a, b}, 1), Add(h2, {a}, 1)})

(* Requests in flight together: first ingests that race to create a source *)
(* or the same entities, a second extraction, a re-posted transcript, and  *)
(* every kind of request that composes a source again.                     *)
ConcurrentWorkload ==
    (h1 :> {Ingest(alice, t1, p1)})
 @@ (h2 :> {Ingest(alice, t1, p2), Ingest(alice, t2, p2)})
 @@ (h3 :> {Post(t1, x2), Correct(h1, a, b), Relate({a, bs}, 2)})
 @@ (h4 :> {Recompose(h1), Add(h1, {b}, 2)})

(* Three ingests of one transcript: two of them may demote and promote the *)
(* extraction of a source that a third has just promoted, while the        *)
(* transcript is posted again.                                             *)
ReingestWorkload ==
    (h1 :> {Ingest(alice, t1, p1)})
 @@ (h2 :> {Ingest(alice, t1, p2)})
 @@ (h3 :> {Ingest(alice, t1, p1)})
 @@ (h4 :> {Post(t1, x2)})

PipelinePlans ==
    (serial :> Served(OneStored, SerialWorkload, 1))
 @@ (concurrent :> Served(AllStored, ConcurrentWorkload, 3))
 @@ (reingest :> Served(AllStored, ReingestWorkload, 3))

(* A source that is composed again while, or twice while, it is ingested.  *)
RecomposeWorkload ==
    (h1 :> {Ingest(alice, t1, p1)})
 @@ (h2 :> {Ingest(alice, t1, p2), Recompose(h1)})
 @@ (h3 :> {Recompose(h1)})
RecomposePlans == concurrent :> Served(AllStored, RecomposeWorkload, 2)
=============================================================================
