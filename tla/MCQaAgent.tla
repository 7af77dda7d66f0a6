----------------------------- MODULE MCQaAgent -----------------------------
(* An instance of QaAgent for TLC: a note made from a transcript, which is *)
(* the caller's or another owner's.                                        *)
EXTENDS QaAgent
CONSTANTS n1, t1
MadeFromOne == [n \in Notes |-> t1]
=============================================================================
