--------------------------- MODULE MCOperatorCli ---------------------------
(* An instance of OperatorCli for TLC: two domains, one with a gate for seed  *)
(* and sync, both with unsound defaults or one of them sound.                 *)
EXTENDS OperatorCli

CONSTANTS prompts, scaffolds, good, bad

MCCommands == <<prompts, scaffolds>>

MCDefault == [d \in Domains |-> IF d = prompts THEN bad ELSE good]
=============================================================================
