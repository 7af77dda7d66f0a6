------------------------- MODULE MCMigrationRunner -------------------------
(* Instances of MigrationRunner for TLC.                                   *)
EXTENDS MigrationRunner, TLC

CONSTANTS r1, r2, r3, m1, m2, m3, m4

(* m1 was in the schema before the runner was introduced, m2 is the one    *)
(* that had not been applied, m3 and m4 came with a later image.           *)
MCNumber == (m1 :> 1) @@ (m2 :> 2) @@ (m3 :> 3) @@ (m4 :> 4)
MCImage == (r1 :> {m1, m2}) @@ (r2 :> {m1, m2, m3, m4}) @@ (r3 :> {m1, m2, m3, m4})
=============================================================================
