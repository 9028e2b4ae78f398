--------------------------- MODULE VersionHistory ---------------------------
(***************************************************************************)
(* What a versioned store promises its callers, with no operation in       *)
(* flight, no retry and no fault in sight: every key has one history of    *)
(* values that only ever grows at its end, a version is a position of that *)
(* history, and a label is 0 or names a published position.  VersionedStore*)
(* implements this with a table of rows and an optimistic insert.          *)
(***************************************************************************)
EXTENDS Naturals, Sequences

CONSTANTS Keys, Labels, Values

VARIABLES
  history,  \* per key, its values in version order
  pointer   \* per key and label, the version it names, 0 for none

Init ==
  /\ history = [k \in Keys |-> << >>]
  /\ pointer = [k \in Keys |-> [l \in Labels |-> 0]]

\* A new version appears: always the next position, never one that exists.
Publish(k, v) ==
  /\ history' = [history EXCEPT ![k] = Append(@, v)]
  /\ UNCHANGED pointer

\* A label moves, forward or back, to a version that has been published.
Point(k, l, n) ==
  /\ n \in 1 .. Len(history[k])
  /\ pointer' = [pointer EXCEPT ![k][l] = n]
  /\ UNCHANGED history

Next == \E k \in Keys :
  \/ \E v \in Values : Publish(k, v)
  \/ \E l \in Labels, n \in DOMAIN history[k] : Point(k, l, n)

Spec == Init /\ [][Next]_<<history, pointer>>
=============================================================================
