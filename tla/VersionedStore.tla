--------------------------- MODULE VersionedStore ---------------------------
(***************************************************************************)
(* The versioned-store core, packages/core/src/versionedStore.ts: several  *)
(* processes of one deployment share a storage backend and run the store's *)
(* operations concurrently.                                                *)
(*                                                                         *)
(* A client is one operation in flight in one process.  Every await of the *)
(* source is a program point (pc) of its call record; a step runs from one *)
(* awaited backend or gate answer to the next await, so any two clients,   *)
(* of one process or of several, interleave exactly at the awaits.         *)
(*                                                                         *)
(* The backend is the contract of packages/core/src/backend.ts: a table of *)
(* version rows on which insertVersion is an atomic put-if-absent, and a   *)
(* table of label pointers on which upsertLabel overwrites.  An awaited    *)
(* answer may be lost: the call then rejects, and a write it was waiting   *)
(* for may have taken effect, may never do so, or may do so later.         *)
(***************************************************************************)
EXTENDS Integers, FiniteSets, FiniteSetsExt

CONSTANTS
  Keys,            \* artifact keys
  Labels,          \* movable labels
  Values,          \* payloads, after toDoc and any encryption
  Hashes,          \* what cfg.hash can return
  Clients,         \* operations that can be in flight at once
  Procs,           \* processes (builds) sharing the backend
  ProcOf,          \* the process a client runs in
  Active,          \* cfg.defaultLabel ?? "active"
  Default,         \* cfg.defaults of each process, None where it has no key
  Hash,            \* cfg.hash
  Accepts,         \* values cfg.validate of a process lets through
  Readable,        \* values a process can decrypt and cfg.fromDoc accepts
  Sound,           \* values the eval gate passes
  GateChoices,     \* whether callers pass a gate: a subset of BOOLEAN
  Offered,         \* operations the callers of this deployment use
  MaxCasAttempts,  \* MAX_CAS_ATTEMPTS
  MaxCalls,        \* bound: calls ever begun
  MaxFaults,       \* bound: lost answers, crashes and failed probes
  None             \* undefined / null

Ops == {"resolve", "getVersion", "getActive", "add", "promote", "revert",
        "listVersions", "listKeys", "seed", "sync"}

\* createdBy: the calling client for addVersion, else the verb's own default.
Authors == Clients \cup {"revert", "seed", "sync"}

ASSUME ConstantsAssumption ==
  /\ None \notin Keys \cup Labels \cup Values \cup Hashes
  /\ ProcOf \in [Clients -> Procs]
  /\ Active \in Labels
  /\ Default \in [Procs -> [Keys -> Values \cup {None}]]
  /\ Hash \in [Values -> Hashes]
  /\ Accepts \in [Procs -> SUBSET Values]
  /\ Readable \in [Procs -> SUBSET Values]
  /\ Sound \subseteq Values
  /\ GateChoices \subseteq BOOLEAN
  /\ Offered \subseteq Ops
  /\ MaxCasAttempts \in Nat \ {0}
  /\ MaxCalls \in Nat
  /\ MaxFaults \in Nat

VARIABLES
  versions,      \* version rows of the backend
  labels,        \* label pointers of the backend, 0 where there is none
  lateRows,      \* inserts whose answer was lost, still under way
  latePointers,  \* upserts whose answer was lost, still under way
  cache,         \* per process, the resolved-version cache
  call,          \* per client, its operation in flight or last finished
  begun,         \* calls begun so far
  faults         \* faults so far

backend == <<versions, labels, lateRows, latePointers>>
vars == <<versions, labels, lateRows, latePointers, cache, call, begun, faults>>

-----------------------------------------------------------------------------
\* Data.

Rows == [key : Keys, version : Nat, value : Values, by : Authors]
Pointers == [key : Keys, label : Labels, version : Nat]
Resolved == [key : Keys, version : Nat, value : Values]

FallbackReasons == {"backend-unavailable", "label-missing", "doc-missing",
                    "schema-invalid", "resolve-error"}

\* "conflict": BackendConflictError; "invalid": validate threw; "notFound",
\* "sentinel", "refused": the errors promote throws; "noDefault": revert's.
Outcomes == {"pending", "ok", "absent", "conflict", "invalid", "notFound",
             "sentinel", "refused", "noDefault", "rejected"} \cup FallbackReasons

ProgramPoints == {"idle", "readLabel", "readVersion", "readMax", "insert",
                  "load", "gate", "point", "emit", "init", "probe", "vet",
                  "compare", "compareVersion", "distinct", "listLabel",
                  "listRows", "done"}

Summaries == [key : Keys, active : Nat, versions : SUBSET Nat]

Calls == [op : Ops \cup {None}, pc : ProgramPoints, key : Keys \cup {None},
          label : Labels \cup {None}, value : Values \cup {None},
          version : Nat, attempt : Nat, gated : BOOLEAN, todo : SUBSET Keys,
          listed : SUBSET Summaries, outcome : Outcomes]

NoCall == [op |-> None, pc |-> "idle", key |-> None, label |-> None,
           value |-> None, version |-> 0, attempt |-> 0, gated |-> FALSE,
           todo |-> {}, listed |-> {}, outcome |-> "pending"]

-----------------------------------------------------------------------------
\* What the backend answers.

VersionsOf(k) == {r.version : r \in {x \in versions : x.key = k}}

\* maxVersion, with null read as 0 the way `max ?? 0` does.
MaxVersion(k) == Max({0} \cup VersionsOf(k))

HasVersion(k, n) == \E r \in versions : r.key = k /\ r.version = n

Row(k, n) == CHOOSE r \in versions : r.key = k /\ r.version = n

\* getVersion followed by docToResolved: not null.
Loads(p, k, n) == HasVersion(k, n) /\ Row(k, n).value \in Readable[p]

-----------------------------------------------------------------------------
\* Ways a call moves on; each takes and returns a call record.

Finish(cl, outcome) == [cl EXCEPT !.pc = "done", !.outcome = outcome]

Goto(cl, pc) == [cl EXCEPT !.pc = pc]

\* resolve's fallbacks: the in-code default as version 0, or null.
Fallback(p, cl, reason) ==
  [cl EXCEPT !.pc = "done", !.outcome = reason, !.version = 0,
             !.value = Default[p][cl.key]]

\* addVersion up to its first await: validate, then the first CAS attempt.
StartAdd(p, cl) ==
  IF cl.value \in Accepts[p]
  THEN [cl EXCEPT !.pc = "readMax", !.attempt = 1]
  ELSE Finish(cl, "invalid")

\* The next turn of seedDefaults' or syncDefaults' loop over the defaults.
NextDefault(cl) == Goto(cl, IF cl.op = "seed" THEN "probe" ELSE "compare")

\* Mutant of Install: the defaults gate is forgotten.
InstallUnvetted(p, cl) == StartAdd(p, cl)

\* Reached by seed and sync for a default to install: the caller's gate first.
Install(p, cl) == IF cl.gated THEN Goto(cl, "vet") ELSE StartAdd(p, cl)

\* What follows a committed insert: add returns, the others promote.
AfterInsert(cl) == IF cl.op = "add" THEN Finish(cl, "ok") ELSE Goto(cl, "load")

\* What follows promote's last statement.
AfterPromote(cl) ==
  IF cl.op \in {"seed", "sync"} THEN NextDefault(cl) ELSE Finish(cl, "ok")

\* Mutant of RowOf: opts.by is dropped and the verb is recorded instead.
RowWithoutBy(c) == [key |-> call[c].key, version |-> call[c].version,
                    value |-> call[c].value, by |-> call[c].op]

\* The row this call's insertVersion carries.
RowOf(c) == [key |-> call[c].key, version |-> call[c].version,
             value |-> call[c].value,
             by |-> IF call[c].op = "add" THEN c ELSE call[c].op]

PointerOf(c) == [key |-> call[c].key, label |-> call[c].label,
                 version |-> call[c].version]

InFlightRows(C) == {RowOf(c) : c \in {x \in C : call[x].pc = "insert"}}

InFlightPointers(C) == {PointerOf(c) : c \in {x \in C : call[x].pc = "point"}}

DefaultKeys(p) == {k \in Keys : Default[p][k] # None}

SetCall(c, cl) == call' = [call EXCEPT ![c] = cl]

-----------------------------------------------------------------------------
Init ==
  /\ versions = {}
  /\ labels = [k \in Keys |-> [l \in Labels |-> 0]]
  /\ lateRows = {}
  /\ latePointers = {}
  /\ cache = [p \in Procs |-> {}]
  /\ call = [c \in Clients |-> NoCall]
  /\ begun = 0
  /\ faults = 0

\* A client begins a call; cl is the record at its first await.
Begin(c, op, cl) ==
  /\ op \in Offered
  /\ call[c].pc \in {"idle", "done"}
  /\ begun < MaxCalls
  /\ begun' = begun + 1
  /\ SetCall(c, [cl EXCEPT !.op = op])
  /\ UNCHANGED <<backend, cache, faults>>

At(c, pc) == call[c].pc = pc

\* A step of client c that begins no call and is no fault; cl is its new record.
Advance(c, cl) == SetCall(c, cl) /\ UNCHANGED <<begun, faults>>

\* Such a step, from program point pc, that only reads what it shares.
Move(c, pc, cl) == At(c, pc) /\ Advance(c, cl) /\ UNCHANGED <<backend, cache>>

-----------------------------------------------------------------------------
\* resolve, getVersion, getActiveVersion.

BeginResolve(c) == \E k \in Keys, l \in Labels :
  Begin(c, "resolve", [NoCall EXCEPT !.pc = "readLabel", !.key = k, !.label = l])

\* backendAvailable() said no.
ResolveUnavailable(c) == \E k \in Keys, l \in Labels :
  /\ "resolve" \in Offered
  /\ call[c].pc \in {"idle", "done"}
  /\ begun < MaxCalls /\ faults < MaxFaults
  /\ begun' = begun + 1 /\ faults' = faults + 1
  /\ SetCall(c, Fallback(ProcOf[c],
                  [NoCall EXCEPT !.op = "resolve", !.key = k, !.label = l],
                  "backend-unavailable"))
  /\ UNCHANGED <<backend, cache>>

BeginGetVersion(c) == \E k \in Keys : \E n \in 1 .. MaxVersion(k) + 1 :
  Begin(c, "getVersion",
        [NoCall EXCEPT !.pc = "readVersion", !.key = k, !.version = n])

BeginGetActive(c) == \E k \in Keys, l \in Labels :
  Begin(c, "getActive",
        [NoCall EXCEPT !.pc = "readLabel", !.key = k, !.label = l])

\* Mutant of ReadLabel: the cache is keyed by the key alone.
ReadLabelCachedByKey(c) ==
  LET cl == call[c]
      hits == {e \in cache[ProcOf[c]] : e.key = cl.key}
  IN IF At(c, "readLabel") /\ cl.op = "resolve" /\ hits # {}
     THEN \E e \in hits : Move(c, "readLabel",
            [Finish(cl, "ok") EXCEPT !.version = e.version, !.value = e.value])
     ELSE Move(c, "readLabel", [Goto(cl, "readVersion") EXCEPT
                                  !.version = labels[cl.key][cl.label]])

\* The label pointer is read on every call; a cached version ends resolve here.
ReadLabel(c) ==
  LET cl == call[c]
      p  == ProcOf[c]
      n  == labels[cl.key][cl.label]
      hits == {e \in cache[p] : e.key = cl.key /\ e.version = n}
  IN /\ At(c, "readLabel")
     /\ \/ /\ n = 0
           /\ Advance(c, IF cl.op = "resolve" THEN Fallback(p, cl, "label-missing")
                                              ELSE Finish(cl, "absent"))
        \/ /\ n # 0 /\ cl.op = "resolve"
           /\ \E e \in hits :
                Advance(c, [Finish(cl, "ok") EXCEPT !.version = n, !.value = e.value])
        \/ /\ n # 0 /\ (cl.op # "resolve" \/ hits = {})
           /\ Advance(c, [Goto(cl, "readVersion") EXCEPT !.version = n])
     /\ UNCHANGED <<backend, cache>>

\* Mutant of ReadVersion: whatever resolve answers is cached, fallbacks too.
ReadVersionCachesFallback(c) ==
  LET cl == call[c]
      p  == ProcOf[c]
      value == IF Loads(p, cl.key, cl.version) THEN Row(cl.key, cl.version).value
               ELSE Default[p][cl.key]
  IN /\ At(c, "readVersion")
     /\ Advance(c, [Finish(cl, "ok") EXCEPT !.value = value])
     /\ cache' = [cache EXCEPT ![p] = @ \cup
                    {[key |-> cl.key, version |-> cl.version, value |-> value]}]
     /\ UNCHANGED backend

ReadVersion(c) ==
  LET cl == call[c]
      p  == ProcOf[c]
      value == Row(cl.key, cl.version).value
  IN /\ At(c, "readVersion")
     /\ \/ /\ Loads(p, cl.key, cl.version)
           /\ Advance(c, [Finish(cl, "ok") EXCEPT !.value = value])
           /\ cache' = IF cl.op # "resolve" THEN cache ELSE
                [cache EXCEPT ![p] = @ \cup
                   {[key |-> cl.key, version |-> cl.version, value |-> value]}]
        \/ /\ ~ Loads(p, cl.key, cl.version)
           /\ Advance(c, IF cl.op # "resolve" THEN Finish(cl, "absent") ELSE
                Fallback(p, cl, IF HasVersion(cl.key, cl.version)
                                THEN "schema-invalid" ELSE "doc-missing"))
           /\ UNCHANGED cache
     /\ UNCHANGED backend

-----------------------------------------------------------------------------
\* addVersion: the compare-and-swap loop on the version number.

BeginAdd(c) == \E k \in Keys, v \in Values :
  Begin(c, "add", StartAdd(ProcOf[c], [NoCall EXCEPT !.key = k, !.value = v]))

\* Mutant of ReadMax: a retry steps further away from the contended number.
ReadMaxPlusAttempt(c) ==
  Move(c, "readMax", [Goto(call[c], "insert") EXCEPT
                        !.version = MaxVersion(call[c].key) + call[c].attempt])

ReadMax(c) ==
  Move(c, "readMax", [Goto(call[c], "insert") EXCEPT
                        !.version = MaxVersion(call[c].key) + 1])

\* Mutants of InsertVersion: a backend without the unique index; one that
\* overwrites; a conflict taken for success; a retry that does not re-read the
\* maximum; one that does not count its attempts either.
InsertWithoutIndex(c) ==
  /\ At(c, "insert")
  /\ Advance(c, AfterInsert(call[c]))
  /\ versions' = versions \cup {RowOf(c)}
  /\ UNCHANGED <<labels, lateRows, latePointers, cache>>

InsertOverwrites(c) ==
  /\ At(c, "insert")
  /\ Advance(c, AfterInsert(call[c]))
  /\ versions' = {RowOf(c)} \cup
       {r \in versions : r.key # call[c].key \/ r.version # call[c].version}
  /\ UNCHANGED <<labels, lateRows, latePointers, cache>>

OnConflict(c, cl) ==
  LET taken == HasVersion(call[c].key, call[c].version) IN
  /\ At(c, "insert")
  /\ Advance(c, IF taken THEN cl ELSE AfterInsert(call[c]))
  /\ versions' = IF taken THEN versions ELSE versions \cup {RowOf(c)}
  /\ UNCHANGED <<labels, lateRows, latePointers, cache>>

InsertIgnoresConflict(c) == OnConflict(c, AfterInsert(call[c]))

InsertRetriesStale(c) == OnConflict(c,
  IF call[c].attempt < MaxCasAttempts THEN [call[c] EXCEPT !.attempt = @ + 1]
                                      ELSE Finish(call[c], "conflict"))

InsertRetriesForever(c) == OnConflict(c, call[c])

InsertVersion(c) ==
  LET cl == call[c] IN
  /\ At(c, "insert")
  /\ IF ~ HasVersion(cl.key, cl.version)
     THEN /\ Advance(c, AfterInsert(cl))
          /\ versions' = versions \cup {RowOf(c)}
     ELSE /\ Advance(c, IF cl.attempt < MaxCasAttempts
                        THEN [Goto(cl, "readMax") EXCEPT !.attempt = @ + 1]
                        ELSE Finish(cl, "conflict"))
          /\ UNCHANGED versions
  /\ UNCHANGED <<labels, lateRows, latePointers, cache>>

-----------------------------------------------------------------------------
\* promote and revertToCodeDefault.

BeginPromote(c) ==
  \E k \in Keys, l \in Labels, g \in GateChoices : \E n \in 0 .. MaxVersion(k) + 1 :
    LET cl == [NoCall EXCEPT !.key = k, !.label = l, !.version = n, !.gated = g]
    IN Begin(c, "promote", IF n = 0 THEN Finish(cl, "sentinel") ELSE Goto(cl, "load"))

BeginRevert(c) == \E k \in Keys, l \in Labels :
  LET d  == Default[ProcOf[c]][k]
      cl == [NoCall EXCEPT !.op = "revert", !.key = k, !.label = l, !.value = d]
  IN Begin(c, "revert", IF d = None THEN Finish(cl, "noDefault")
                                    ELSE StartAdd(ProcOf[c], cl))

\* Mutant of Load: promote trusts the version number it is given.
LoadUnchecked(c) == LET cl == call[c] IN Move(c, "load",
  Goto(cl, IF cl.op = "promote" /\ cl.gated THEN "gate" ELSE "point"))

\* Only a promote call itself is gated here: revert is ungated by design, and
\* seed and sync vet the default before they add it.
Load(c) ==
  LET cl == call[c] IN Move(c, "load",
    IF ~ Loads(ProcOf[c], cl.key, cl.version) THEN Finish(cl, "notFound")
    ELSE [Goto(cl, IF cl.op = "promote" /\ cl.gated THEN "gate" ELSE "point")
            EXCEPT !.value = Row(cl.key, cl.version).value])

RunGate(c) ==
  LET cl == call[c] IN Move(c, "gate",
    IF cl.value \in Sound THEN Goto(cl, "point") ELSE Finish(cl, "refused"))

\* Mutant of UpsertLabel: the promote returns without its event.
UpsertUnannounced(c) ==
  LET cl == call[c] IN
  /\ At(c, "point")
  /\ Advance(c, AfterPromote(cl))
  /\ labels' = [labels EXCEPT ![cl.key][cl.label] = cl.version]
  /\ UNCHANGED <<versions, lateRows, latePointers, cache>>

UpsertLabel(c) ==
  LET cl == call[c] IN
  /\ At(c, "point")
  /\ Advance(c, Goto(cl, "emit"))
  /\ labels' = [labels EXCEPT ![cl.key][cl.label] = cl.version]
  /\ UNCHANGED <<versions, lateRows, latePointers, cache>>

\* promote-accepted is emitted once the upsert's answer is in.
EmitAccepted(c) == Move(c, "emit", AfterPromote(call[c]))

-----------------------------------------------------------------------------
\* seedDefaults and syncDefaults: one default after the other.

BeginDefaults(c, op) == \E g \in GateChoices :
  Begin(c, op, [NoCall EXCEPT !.pc = "init", !.gated = g,
                              !.todo = DefaultKeys(ProcOf[c])])

BeginSeed(c) == BeginDefaults(c, "seed")
BeginSync(c) == BeginDefaults(c, "sync")

\* The call record as the loop turns to the default of k.
Taken(c, k) == [call[c] EXCEPT !.key = k, !.label = Active, !.todo = @ \ {k},
                               !.value = Default[ProcOf[c]][k], !.version = 0]

EnsureIndexes(c) == Move(c, "init", NextDefault(call[c]))

\* The loop is over: the report is returned.
DefaultsDone(c) ==
  /\ call[c].todo = {}
  /\ \E pc \in {"probe", "compare"} : Move(c, pc, Finish(call[c], "ok"))

SeedProbe(c) == \E k \in call[c].todo :
  Move(c, "probe", IF MaxVersion(k) # 0 THEN NextDefault(Taken(c, k))
                   ELSE Install(ProcOf[c], Taken(c, k)))

\* validate runs before the label is read, and a throw there ends the sync.
SyncCompare(c) == \E k \in call[c].todo :
  LET cl == Taken(c, k)
      p  == ProcOf[c]
      n  == labels[k][Active]
  IN Move(c, "compare",
       IF cl.value \notin Accepts[p] THEN Finish(cl, "invalid")
       ELSE IF n = 0 THEN Install(p, cl)
       ELSE [Goto(cl, "compareVersion") EXCEPT !.version = n])

SyncCompareVersion(c) ==
  LET cl == call[c]
      p  == ProcOf[c]
      current == /\ Loads(p, cl.key, cl.version)
                 /\ Hash[Row(cl.key, cl.version).value] = Hash[cl.value]
  IN Move(c, "compareVersion",
          IF current THEN NextDefault(cl) ELSE Install(p, cl))

\* The defaults gate; a refused default is skipped and reported.
VetDefault(c) ==
  LET cl == call[c] IN Move(c, "vet",
    IF cl.value \in Sound THEN StartAdd(ProcOf[c], cl) ELSE NextDefault(cl))

-----------------------------------------------------------------------------
\* listVersions and listKeys.  A summary is one listing: the version the label
\* named and the versions found after it.

BeginListVersions(c) == \E k \in Keys :
  Begin(c, "listVersions", [NoCall EXCEPT !.pc = "listLabel", !.key = k])

BeginListKeys(c) == Begin(c, "listKeys", [NoCall EXCEPT !.pc = "distinct"])

ListTurn(cl) ==
  IF cl.todo = {} THEN {Finish(cl, "ok")}
  ELSE {[Goto(cl, "listLabel") EXCEPT !.key = k, !.todo = @ \ {k}] : k \in cl.todo}

DistinctKeys(c) ==
  \E cl \in ListTurn([call[c] EXCEPT !.todo = {r.key : r \in versions}]) :
    Move(c, "distinct", cl)

ListLabel(c) ==
  Move(c, "listLabel", [Goto(call[c], "listRows") EXCEPT
                          !.version = labels[call[c].key][Active]])

\* Mutant of ListRows: the label is read after the versions.
ListRowsThenLabel(c) ==
  LET cl == call[c]
      rows == [key |-> cl.key, active |-> 0, versions |-> VersionsOf(cl.key)]
      withLabel == {[s EXCEPT !.active = labels[cl.key][Active]] : s \in cl.listed}
  IN IF cl.listed = {} THEN Move(c, "listRows", [cl EXCEPT !.listed = {rows}])
     ELSE \E next \in ListTurn([cl EXCEPT !.listed = withLabel]) :
            Move(c, "listRows", next)

ListRows(c) ==
  LET cl == call[c]
      summary == [key |-> cl.key, active |-> cl.version,
                  versions |-> VersionsOf(cl.key)]
  IN \E next \in ListTurn([cl EXCEPT !.listed = @ \cup {summary}]) :
       Move(c, "listRows", next)

-----------------------------------------------------------------------------
\* Faults: rejected awaits, late writes, crashes.

\* Mutant of AwaitRejects: what resolve serves in place of a version it could
\* not read is cached as that version.
AwaitRejectsCaches(c) ==
  LET cl == call[c]
      entry == [key |-> cl.key, version |-> cl.version,
                value |-> Default[ProcOf[c]][cl.key]]
  IN /\ cl.pc = "readVersion" /\ cl.op = "resolve"
     /\ faults < MaxFaults
     /\ faults' = faults + 1
     /\ SetCall(c, Fallback(ProcOf[c], cl, "resolve-error"))
     /\ cache' = [cache EXCEPT ![ProcOf[c]] = @ \cup {entry}]
     /\ UNCHANGED <<versions, labels, begun, lateRows, latePointers>>

\* A backend call or a gate rejects, or its answer is lost.  resolve catches
\* it; every other operation lets it out.
AwaitRejects(c) ==
  LET cl == call[c] IN
  /\ cl.pc \notin {"idle", "done", "emit"}
  /\ cl.pc \in {"probe", "compare"} => cl.todo # {}
  /\ faults < MaxFaults
  /\ faults' = faults + 1
  /\ SetCall(c, IF cl.op = "resolve" THEN Fallback(ProcOf[c], cl, "resolve-error")
                                     ELSE Finish(cl, "rejected"))
  /\ lateRows' \in {lateRows, lateRows \cup InFlightRows({c})}
  /\ latePointers' \in {latePointers, latePointers \cup InFlightPointers({c})}
  /\ UNCHANGED <<versions, labels, cache, begun>>

\* A process dies: its calls and its cache are gone, and each write it had
\* under way is lost or still on its way to the backend.
Crash(p) ==
  LET C == {c \in Clients : ProcOf[c] = p} IN
  /\ faults < MaxFaults
  /\ faults' = faults + 1
  /\ call' = [c \in Clients |-> IF c \in C THEN NoCall ELSE call[c]]
  /\ cache' = [cache EXCEPT ![p] = {}]
  /\ \E R \in SUBSET InFlightRows(C) : lateRows' = lateRows \cup R
  /\ \E P \in SUBSET InFlightPointers(C) : latePointers' = latePointers \cup P
  /\ UNCHANGED <<versions, labels, begun>>

\* An insert nobody waits for any more: put-if-absent still.
LateInsert == \E r \in lateRows :
  /\ versions' = IF HasVersion(r.key, r.version) THEN versions
                 ELSE versions \cup {r}
  /\ lateRows' = lateRows \ {r}
  /\ UNCHANGED <<labels, latePointers, cache, call, begun, faults>>

LateUpsert == \E l \in latePointers :
  /\ labels' = [labels EXCEPT ![l.key][l.label] = l.version]
  /\ latePointers' = latePointers \ {l}
  /\ UNCHANGED <<versions, lateRows, cache, call, begun, faults>>

-----------------------------------------------------------------------------
BeginCall(c) ==
  \/ BeginResolve(c) \/ ResolveUnavailable(c) \/ BeginGetVersion(c)
  \/ BeginGetActive(c) \/ BeginAdd(c) \/ BeginPromote(c) \/ BeginRevert(c)
  \/ BeginSeed(c) \/ BeginSync(c) \/ BeginListVersions(c) \/ BeginListKeys(c)

\* The steps that carry a call in flight on.
Continue(c) ==
  \/ ReadLabel(c) \/ ReadVersion(c) \/ ReadMax(c) \/ InsertVersion(c)
  \/ Load(c) \/ RunGate(c) \/ UpsertLabel(c) \/ EmitAccepted(c)
  \/ EnsureIndexes(c) \/ DefaultsDone(c) \/ SeedProbe(c) \/ SyncCompare(c)
  \/ SyncCompareVersion(c) \/ VetDefault(c) \/ DistinctKeys(c) \/ ListLabel(c)
  \/ ListRows(c)

Fault == (\E c \in Clients : AwaitRejects(c)) \/ (\E p \in Procs : Crash(p))

\* No more calls are coming and none is in flight: the one way to stop.
Rest ==
  /\ begun = MaxCalls
  /\ \A c \in Clients : call[c].pc \in {"idle", "done"}
  /\ UNCHANGED vars

Next ==
  \/ \E c \in Clients : BeginCall(c) \/ Continue(c)
  \/ Fault \/ LateInsert \/ LateUpsert \/ Rest

Spec == Init /\ [][Next]_vars

\* An awaited promise settles: a call in flight is eventually carried on.
FairSpec == Spec /\ \A c \in Clients : WF_vars(Continue(c))
-----------------------------------------------------------------------------
\* Properties.

\* Every variable has its type.
TypeOK ==
  /\ versions \subseteq Rows
  /\ labels \in [Keys -> [Labels -> Nat]]
  /\ lateRows \subseteq Rows
  /\ latePointers \subseteq Pointers
  /\ cache \in [Procs -> SUBSET Resolved]
  /\ call \in [Clients -> Calls]
  /\ begun \in Nat
  /\ faults \in Nat

\* No two rows claim one (key, version): the racing inserts of two writers,
\* a retried one and a late one included, leave one winner (backend.ts 78-86).
UniqueVersions == \A r, s \in versions :
  r.key = s.key /\ r.version = s.version => r = s

\* The versions of a key are 1 .. n with no hole, although the number is read
\* in one step and used in a later one, and the insert may land late.
DenseVersions == \A k \in Keys : VersionsOf(k) = 1 .. MaxVersion(k)

\* A label never names a version that is not stored, whatever promotes are in
\* flight or land late: what promote checked in one await holds in the next.
NoDanglingLabel == \A k \in Keys, l \in Labels :
  labels[k][l] # 0 => HasVersion(k, labels[k][l])

\* What a process has cached for a version is what is stored for it: the cache
\* has no invalidation and lives as long as the process.
CacheCoherent == \A p \in Procs : \A e \in cache[p] :
  /\ e.value \in Readable[p]
  /\ \E r \in versions : r.key = e.key /\ r.version = e.version /\ r.value = e.value

\* An addVersion or a revert that returned a version owns it: the row of that
\* number holds this caller's value, whoever else was writing.
ReturnedVersionIsOwn == \A c \in Clients :
  call[c].op \in {"add", "revert"} /\ call[c].outcome = "ok" => RowOf(c) \in versions

\* Where every caller gates, what is live has passed the gate or is a default
\* that a kill switch wrote: no interleaving, late upsert or shared version
\* number puts another value behind a label after the gate looked.
OnlyVettedLive == GateChoices = {TRUE} =>
  \A k \in Keys, l \in Labels : labels[k][l] # 0 =>
    \E r \in versions : /\ r.key = k /\ r.version = labels[k][l]
                        /\ r.value \in Sound \/ r.by = "revert"

\* A listing that names an active version also lists it, and lists a history
\* with no hole: the label is read before the versions, in separate awaits.
ListingShowsActive == \A c \in Clients : \A s \in call[c].listed :
  /\ s.active # 0 => s.active \in s.versions
  /\ \E n \in 0 .. Cardinality(s.versions) : s.versions = 1 .. n

\* A stored row stays as it is, for ever.
Immutable == [][versions \subseteq versions']_vars

\* Every step of the store is a step of the history it promises.
Promise == INSTANCE VersionHistory WITH
  history <- [k \in Keys |-> [n \in 1 .. MaxVersion(k) |-> Row(k, n).value]],
  pointer <- labels

ImplementsHistory == Promise!Spec

\* Every call returns: the compare-and-swap loop and the loops over the keys
\* end, whatever the other clients do.
CallsReturn == \A c \in Clients :
  call[c].pc \notin {"idle", "done"} ~> call[c].pc \in {"idle", "done"}
=============================================================================
