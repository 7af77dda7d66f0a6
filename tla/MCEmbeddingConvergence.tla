----------------------- MODULE MCEmbeddingConvergence -----------------------
(* An instance of EmbeddingConvergence for TLC: one transcript, two notes, *)
(* texts of no, one and two windows of three tokens overlapping by one.    *)
(* At first nothing is embedded, one note at most is there, and the        *)
(* transcript, if there is one, has two windows.                           *)
EXTENDS EmbeddingConvergence, TLC
CONSTANTS n1, n2, t1, intro, nothing, short, long

MCTranscriptOf == [n \in Notes |-> t1]
MCTokens == nothing :> 0 @@ short :> 3 @@ long :> 4

MCInit ==
    /\ Init
    /\ rows = [k \in Keys |-> Absent]
    /\ note[n1] # Untitled /\ note[n2] = Absent
    /\ text[t1] \in {Absent, long}
MCSpec == MCInit /\ [][Next]_vars /\ Fairness
=============================================================================
