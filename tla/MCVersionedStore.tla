-------------------------- MODULE MCVersionedStore --------------------------
(***************************************************************************)
(* Instances of VersionedStore for TLC: two processes p1 and p2, the new   *)
(* build and the old one, with clients a1 and a2 in p1 and b1 in p2.       *)
(***************************************************************************)
EXTENDS VersionedStore, TLC

CONSTANTS p1, p2, a1, a2, b1, k1, k2, active, canary, good, fine, bad, odd

MCProcOf == [c \in Clients |-> IF c = b1 THEN p2 ELSE p1]

\* The two builds ship different defaults for k1; only k1 has one.
MCDefault == [p \in Procs |-> [k \in Keys |->
  IF k # k1 THEN None ELSE IF p = p1 THEN good ELSE fine]]

\* The new build's default for k1 has a format the old build cannot read.
MCOddDefault == [p \in Procs |-> [k \in Keys |->
  IF k # k1 THEN None ELSE IF p = p1 THEN odd ELSE fine]]

\* The new build's default for k1 does not pass the gate.
MCBadDefault == [p \in Procs |-> [k \in Keys |->
  IF k # k1 THEN None ELSE IF p = p1 THEN bad ELSE good]]

MCHash == [v \in Values |-> v]

\* Neither build validates what it adds.
MCAccepts == [p \in Procs |-> Values]

\* The old build's validator refuses what the new build ships.
MCOldRefusesBad == [p \in Procs |-> IF p = p2 THEN Values \ {bad} ELSE Values]

\* The old build cannot read odd.
MCReadable == [p \in Procs |-> IF p = p2 THEN Values \ {odd} ELSE Values]

MCSound == Values \ {bad}
=============================================================================
