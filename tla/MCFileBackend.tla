---------------------------- MODULE MCFileBackend ----------------------------
(***************************************************************************)
(* Instances of FileBackend for TLC: clients a1 and a2 in process p1 and   *)
(* b1 in process p2.                                                       *)
(***************************************************************************)
EXTENDS FileBackend, TLC

CONSTANTS p1, p2, a1, a2, b1, k1, k2, active, d1, d2, short, long

MCProcOf == [c \in Clients |-> IF c = b1 THEN p2 ELSE p1]
MCSize == [m \in Marks |-> IF m = short THEN 1 ELSE 2]
=============================================================================
