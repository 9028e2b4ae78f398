----------------------------- MODULE EventSink -----------------------------
(***************************************************************************)
(* Events of the stores of one process (events.ts): the counters that      *)
(* emitStoreEvent keeps, and one drainable sink per domain, whose writes   *)
(* are detached promises.  A write lands, or fails and its error goes to   *)
(* onError; should onError itself throw, the write's promise rejects.      *)
(***************************************************************************)
EXTENDS Naturals

CONSTANTS
  Domains,
  MaxEvents  \* bound: events of one type in one domain

EventTypes == {"gate-outcome", "promote-accepted", "promote-refused"}

Writes == [type : EventTypes, domain : Domains, n : 1 .. MaxEvents]

VARIABLES
  counts,    \* _counts: events so far, per type and domain
  inflight,  \* the writes that every sink has scheduled and not settled
  written,   \* the writes that landed
  swallowed, \* the writes that failed, their error reported
  rejected,  \* the writes whose onError threw
  throws     \* whether this host's onError throws; it never changes

sink == <<counts, inflight, written, swallowed, rejected, throws>>

SinkInit ==
  /\ counts = [t \in EventTypes |-> [d \in Domains |-> 0]]
  /\ inflight = {} /\ written = {} /\ swallowed = {} /\ rejected = {}
  /\ throws \in BOOLEAN

\* emitStoreEvent and onEvent for events of one domain, in one turn of the loop.
Emit(d, types) ==
  /\ counts' = [t \in EventTypes |->
       [counts[t] EXCEPT ![d] = IF t \in types THEN @ + 1 ELSE @]]
  /\ inflight' = inflight \cup
       {[type |-> t, domain |-> d, n |-> counts[t][d] + 1] : t \in types}
  /\ UNCHANGED <<written, swallowed, rejected, throws>>

Lands(w) ==
  /\ w \in inflight
  /\ inflight' = inflight \ {w} /\ written' = written \cup {w}
  /\ UNCHANGED <<counts, swallowed, rejected, throws>>

\* inner throws or rejects: onError hears of it, the write is over.
Fails(w) ==
  /\ w \in inflight /\ ~throws
  /\ inflight' = inflight \ {w} /\ swallowed' = swallowed \cup {w}
  /\ UNCHANGED <<counts, written, rejected, throws>>

FailsLoudly(w) ==
  /\ w \in inflight /\ throws
  /\ inflight' = inflight \ {w} /\ rejected' = rejected \cup {w}
  /\ UNCHANGED <<counts, written, swallowed, throws>>

Settle(w) == Lands(w) \/ Fails(w) \/ FailsLoudly(w)

\* The writes a drain that begins now waits for.
Pending(d) == {w \in inflight : w.domain = d}

SinkTypeOK ==
  /\ counts \in [EventTypes -> [Domains -> 0 .. MaxEvents]]
  /\ inflight \subseteq Writes /\ written \subseteq Writes
  /\ swallowed \subseteq Writes /\ rejected \subseteq Writes
  /\ throws \in BOOLEAN
=============================================================================
