---------------------------- MODULE MCMigration ----------------------------
(* An instance of Migration for TLC: one job at a time, one or two keys. *)
EXTENDS Migration

CONSTANTS k1, k2, v1, v2, active, secret, j1, j2

MCHash == [v \in Values |-> v]
=============================================================================
