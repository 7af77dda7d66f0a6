---------------------------- MODULE MCSetIngest ----------------------------
(* Instances of SetIngest for TLC.                                         *)
EXTENDS SetIngest, TLC

CONSTANTS h1, h2, h3, f1, g1, g2

Tr(p, o, g, b) == [pair |-> p, order |-> o, genre |-> g, bpm |-> b]
Ingest(f, ts) == [kind |-> "ingest", file |-> f, tracks |-> ts]
Patch(p, g, b) == [kind |-> "patch", pair |-> p, genre |-> g, bpm |-> b]

(* Two songs, played in both orders, with and without genre and bpm; a     *)
(* file that is ingested again with one more track; a set without a name;  *)
(* a track without a play order; and a patch.                              *)
MCWorkload ==
    (h1 :> {Ingest(f1, <<Tr(1, 1, g1, 100), Tr(2, 2, None, None)>>),
            Ingest(NoFile, <<Tr(1, None, None, 100), Tr(1, None, None, 101)>>)})
 @@ (h2 :> {Ingest(f1, <<Tr(1, 1, g1, 100), Tr(2, 2, None, None), Tr(2, 3, g1, 100)>>),
            Ingest(NoFile, <<Tr(2, 1, g2, 102), Tr(1, 2, g2, 102)>>)})
 @@ (h3 :> {Ingest(f1, <<Tr(2, 1, g1, None), Tr(1, 4, None, 101)>>),
            Patch(2, g2, None),
            Ingest(f1, <<Tr(2, 1, g1, None), Tr(1, 4, None, None)>>)})
=============================================================================
