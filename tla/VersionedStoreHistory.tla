------------------------ MODULE VersionedStoreHistory -----------------------
(***************************************************************************)
(* VersionedStore with its past made visible: the values each label has    *)
(* had, the promote-accepted events the processes have emitted (emit and   *)
(* cfg.onEvent, versionedStore.ts 316-325), and for each call where those  *)
(* stood when it began.  The history variables only watch; every step is a *)
(* step of VersionedStore.                                                 *)
(***************************************************************************)
EXTENDS VersionedStore, Sequences

VARIABLES
  moves,   \* per key and label, every version it has named, in order, from 0
  audit,   \* per key and label, the versions of its promote-accepted events
  since,   \* per client, Len(moves) when its call began, for its key and label
  floor    \* per client, MaxVersion of its key when its addVersion began

histvars == <<moves, audit, since, floor>>
hvars == <<vars, histvars>>

KeyLabels == Keys \X Labels

HInit ==
  /\ Init
  /\ moves = [kl \in KeyLabels |-> <<0>>]
  /\ audit = [kl \in KeyLabels |-> << >>]
  /\ since = [c \in Clients |-> 1]
  /\ floor = [c \in Clients |-> 0]

\* Pointers that reach the backend in this step, awaited or late.
Landed ==
  {PointerOf(c) : c \in
     {d \in Clients : At(d, "point") /\ call'[d] # call[d] /\ faults' = faults}}
    \cup (latePointers \ latePointers')

\* Pointers whose promote-accepted event is emitted in this step.
Emitted == {PointerOf(c) : c \in
  {d \in Clients : At(d, "emit") /\ call'[d].pc \notin {"emit", "idle"}}}

Extend(seqs, P) == [kl \in KeyLabels |->
  IF \E x \in P : <<x.key, x.label>> = kl
  THEN Append(seqs[kl], (CHOOSE x \in P : <<x.key, x.label>> = kl).version)
  ELSE seqs[kl]]

BeginsResolve(c) == begun' # begun /\ call'[c] # call[c] /\ call'[c].op = "resolve"

EntersAdd(c) ==
  /\ call'[c].pc = "readMax" /\ call'[c].attempt = 1
  /\ call'[c] # call[c]

Watch ==
  /\ moves' = Extend(moves, Landed)
  /\ audit' = Extend(audit, Emitted)
  /\ since' = [c \in Clients |->
       IF BeginsResolve(c)
       THEN Len(moves[<<call'[c].key, call'[c].label>>]) ELSE since[c]]
  /\ floor' = [c \in Clients |->
       IF EntersAdd(c) THEN MaxVersion(call'[c].key) ELSE floor[c]]

HNext == Next /\ Watch
HSpec == HInit /\ [][HNext]_hvars

-----------------------------------------------------------------------------
\* Properties.

\* "A promote therefore takes effect on the very next resolve, in every
\* process": what resolve serves from the store, or the absence it reports, was
\* what the label named at some moment between the call's start and its return,
\* although label and content are read apart and the content is cached.
ResolveIsFresh == \A c \in Clients :
  call[c].op = "resolve" /\ call[c].outcome \in {"ok", "label-missing"} =>
    LET named == moves[<<call[c].key, call[c].label>>]
    IN /\ \E i \in since[c] .. Len(named) : named[i] = call[c].version
       /\ call[c].outcome = "ok" =>
            \E r \in versions : /\ r.key = call[c].key
                                /\ r.version = call[c].version
                                /\ r.value = call[c].value

\* A retry is paid for by another writer: every conflict an addVersion has met
\* is a version that somebody else committed since it started, so fewer than
\* MaxCasAttempts rival inserts can never exhaust it (conformance.ts 161).
RetriesArePaid == \A c \in Clients :
  LET grown == MaxVersion(call[c].key) - floor[c] IN
  /\ call[c].pc \in {"readMax", "insert"} => grown >= call[c].attempt - 1
  /\ call[c].outcome = "conflict" => grown >= MaxCasAttempts

Times(s, n) == Cardinality({i \in DOMAIN s : s[i] = n})

\* Promotes of a version to a label whose event is still to be emitted.
Unannounced(kl, n) == Cardinality({c \in Clients :
  /\ At(c, "emit") /\ <<call[c].key, call[c].label>> = kl
  /\ call[c].version = n})

\* The events tell no move that did not happen, and where no answer was lost
\* and no process died they miss none either, up to those still to be emitted.
AuditCountsMoves == \A kl \in KeyLabels :
  \A n \in 1 .. MaxVersion(kl[1]) :
    LET told == Times(audit[kl], n) + Unannounced(kl, n)
        done == Times(moves[kl], n)
    IN told <= done /\ (faults = 0 => told = done)
=============================================================================
