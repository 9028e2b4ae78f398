------------------------------ MODULE MCCanary ------------------------------
(* An instance of Canary for TLC: a controller, a second caller and one key. *)
EXTENDS Canary

CONSTANTS k1, good, bad, active, canary, shadow, sweep1, sweep2, user

\* The first controller's build reads everything, the second caller's only the
\* value the gate refuses.
MCReadable == [c \in Callers |-> IF c = sweep1 THEN Values ELSE Values \ Sound]
=============================================================================
