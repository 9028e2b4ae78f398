# A verification development for versioned-store

This directory holds TLA+ models of the store, the TLC configurations that check
them on small instances, and theorems about them that TLAPS checks for every
instance. The models are translated from the TypeScript sources; where a document
or a comment says something else than the code does, a run shows the difference, or
the section on it below says where it lies.

All source paths below are relative to the repository; `core/` abbreviates
`packages/core/src/`.

## The system

versioned-store keeps *versions* of configuration artifacts (prompts, scaffolds,
flags). Versions of a key are immutable and numbered from 1; *labels* such as
`active` are movable pointers to a version; the program's *in-code default* is
served whenever the store cannot answer. Several processes, of several builds
with different defaults, share one storage backend. Nothing but the backend is
shared: there is no lock, no leader and no message between processes. The only
coordination is that `insertVersion` refuses a number that is taken.

| Part | State it keeps | Operations | Talks to |
|---|---|---|---|
| core, `core/versionedStore.ts` | per process: resolved-version cache | resolve, getVersion, getActiveVersion, addVersion, promote, revertToCodeDefault, listVersions, listKeys, ensureIndexes, seedDefaults, syncDefaults, codeDefault, checkDefaults | awaits the backend and gates, calls `onEvent` |
| storage contract, `core/backend.ts` | version rows, label pointers | init, getVersion, maxVersion, insertVersion, listVersionsDesc, distinctKeys, getLabel, upsertLabel | - |
| adapters, `core/backends/*.ts` | maps, files, SQL tables, Redis keys, Mongo collections | the same eight | their engine |
| canary, `core/canary.ts` | none of its own (labels `canary`, `shadow`) | promoteCanary, promoteShadow, resolveWeighted, resolveShadow, evaluateCanary | core, events |
| migrate, `core/migrate.ts` | a bundle in memory | exportBackend, importBundle, migrate | two backends |
| bundle, `core/bundle.ts` | a sealed, optionally signed snapshot | seal, verify, exportSealed, importSealedBundle | migrate |
| eval gate, `core/evalGate.ts` | the failures of a run in progress | a deterministic tier, golden outputs, a judge, and their composition | called by promote; calls a render and a judge |
| cipher, `core/cipher.ts` | a key | encrypt, decrypt | called by core |
| events, `core/events.ts` | counters; in-flight sink writes | emitStoreEvent, createDrainableSink | a host's sink |
| prompt-store, scaffold-store | none between calls | a typed facade per domain: gate, strict render, routing | core |
| CLIs, `core/cli.ts`, `packages/cli` | none between runs | a verb table; connect, run, drain, close | core, adapters, sink |

### What is hard about it

* Every operation is a chain of awaits. Whatever it read before an await may be
  stale after it: the version number (`maxVersion` then `insertVersion`), the
  value a gate judged (`getVersion`, gate, `upsertLabel`), the pointer a resolve
  follows, the probe by which a seed decides.
* A retry loop with a budget, against rivals of any number.
* Lost answers: the caller sees a rejection, the write may still take effect.
* Crashes between the two writes of `seedDefaults`, `syncDefaults` and
  `revertToCodeDefault`, which are not one transaction.
* A cache with no invalidation, filled from rows that other builds write.
* Events emitted after the awaited write they announce, and written by promises
  that nobody awaits until a drain does.
* Controllers (a canary sweep, a migration) that read in one await and act in a
  later one, while operators change what they read.
* A bundle that lies in a file between two processes and may be edited there.
* Values whose braces read as placeholders with those around them, gates that refuse without a reason, verbs
  that reach the core past a facade's gate.

### What makes each part correct

* core: numbering without duplicates or holes; rows that never change; labels
  that only name stored versions; resolves that serve what was live; a gate that
  cannot be got round by an interleaving; events that tell the truth; calls that
  return.
* adapters: one winner per number; indexes that agree with the documents; errors
  that mean what they say; reads that show every insert answered before them.
* canary: a demotion lands on a version that was live, only a failing canary is
  demoted, and a failing one goes.
* migrate and bundle: a clean report means that the target holds what the source
  held; an import adds rows and changes none, and moves labels only onto rows that
  have arrived; nothing foreign gets in.
* events and operator CLI: what was emitted before the close is not lost to it; the
  exit code can be trusted; every run ends.
* eval gate and facades: a verdict counts every case; what a gate let live renders
  and runs only what it may.

`PROJECT.json` lists the hazards at their lines, with the properties on them.

## The modules

| Module | What it is |
|---|---|
| `VersionHistory` | the abstract specification: per key a sequence of values that only grows, per key and label a pointer into it |
| `VersionedStore` | the core and the backend contract: one action per step between two awaits |
| `VersionedStoreHistory` | VersionedStore watched by history variables: past pointers, emitted events, where each call began |
| `VersionedStoreProofs` | the inductive invariant, the theorems about rows and labels, and on top of them what callers may rely on: the refinement of `VersionHistory`, caches, returned versions, gates, listings |
| `VersionedStoreHistoryProofs` | the theorems about retries, resolves and events |
| `FileBackend` | the file adapter: one action per system call that another process can see between |
| `FileBackendProofs` | its inductive invariant and theorems |
| `Adapters` | the Redis, Postgres, Mongo and SQLite adapters: one action per statement |
| `AdaptersProofs` | its inductive invariant and theorems |
| `Canary` | the canary loop, over `VersionHistory` |
| `CanaryProofs` | its inductive invariant and theorems |
| `Migration` | export, import, migrate, the sealed bundle and the backend-level CLI's verbs, over two stores and a file |
| `MigrationProofs` | its inductive invariants and theorems |
| `EventSink` | event counters and drainable sinks, with their detached writes |
| `OperatorCli` | the operator CLI from argv to exit code, over `EventSink` |
| `OperatorCliProofs` | its inductive invariants and theorems |
| `Rendering` | texts as tokens, braces among them, what reads as a placeholder and how it is filled; no variables |
| `PromptStore`, `ScaffoldStore` | the gate and the render of either facade, as operators over `Rendering` |
| `EvalGate` | the three tiers of the ladder as a run that is advanced case by case |
| `Facades` | a facade at work: `PromptStore`, `ScaffoldStore` and `EvalGate` over `VersionHistory` |
| `FacadesProofs` | what holes fills leave, its inductive invariant and theorems |
| `MC...` | one instance for TLC of each module that has variables |

`Canary` and `Facades` instantiate `VersionHistory` as their store: `writers` shows
that `VersionedStore` implements it, so what they need not repeat is how a promote
or an add is cut at its awaits. They keep the awaits of their own module.

### State and actions of VersionedStore

`versions` is the set of rows, `labels[k][l]` the pointer of a label (0 where the
backend has none), `cache[p]` the cache of process `p`. `call[c]` is the
operation client `c` has in flight: `pc` names the await it is at, and the other
fields are the locals the rest of the call uses. One client stands for one
promise chain; two clients may live in one process (`ProcOf`) and then share its
cache, defaults and readable values.

`lateRows` and `latePointers` are writes whose caller no longer waits for them:
its await rejected or its process died after the request left. They take effect
later, under the same rule as any write, or never.

| Action | Code (`core/versionedStore.ts`) |
|---|---|
| `BeginResolve`, `ResolveUnavailable`, `ReadLabel`, `ReadVersion` | resolve 387-418; also getVersion 420 and getActiveVersion 425 |
| `BeginAdd`, `ReadMax`, `InsertVersion` | addVersion 431-467 |
| `BeginPromote`, `Load`, `RunGate`, `UpsertLabel`, `EmitAccepted` | promote 469-485 |
| `BeginRevert`, then the steps of add and promote | revertToCodeDefault 487-496 |
| `BeginSeed`, `EnsureIndexes`, `SeedProbe`, `VetDefault`, `DefaultsDone` | seedDefaults 527-554 |
| `BeginSync`, `SyncCompare`, `SyncCompareVersion`, `VetDefault` | syncDefaults 556-587 |
| `BeginListVersions`, `BeginListKeys`, `DistinctKeys`, `ListLabel`, `ListRows` | listVersions 498-510, listKeys 512-521 |
| `AwaitRejects`, `Crash`, `LateInsert`, `LateUpsert` | what resolve's catch (414) and the absence of one elsewhere are about |

`UpsertLabel` and `EmitAccepted` are two steps because the write takes effect in
the backend before its answer lets the process go on to line 483.
`InsertVersion` is one step: nothing the process does between the answer and its
next await touches shared state.

### Abstractions

* A payload is a value; `toDoc`, `fromDoc` and the cipher become the set
  `Readable[p]` of the values process `p` can load. A decryption failure, a
  malformed document and a format another build writes are the same to the store.
* `validate` refuses or accepts (`Accepts[p]`). A validate that rewrites a value
  is not modelled.
* `Hash` is a parameter, not assumed injective. The instances use an injective one.
* A gate's verdict depends on the value alone (`Sound`) and may take as long as
  it likes. `GateChoices` says whether the callers of a deployment gate.
* The defaults are visited in any order, where the code uses the order of
  declaration: the model has more behaviours than the code.
* `checkDefaults` and `codeDefault` read no shared state and are left out as
  operations; `codeDefault` is inside `Fallback` and `BeginRevert`.
* Promote numbers range over 0 .. max + 1, so that the sentinel, every stored
  version and one that is not stored yet are all tried.
* `note`, `refs`, timestamps, logging and the fallback events are left out.
* `init` is taken to have built the unique index before anyone writes, as
  `backend.ts` 114-118 requires.

### State and actions of FileBackend

`vdirs` is the set of keys whose directory exists, `vfile[k][n]` a version file
(`None`, a document, or `Torn`: empty or cut short, so that `JSON.parse` throws),
`lfile[k][l]` a label file with the length of what it holds. `call[c]` is the method
call a client has in flight or was last answered; `acked` and `before` are history:
the rows whose insert was answered, and which of them were when a call began.

| Action | Code (`core/backends/file.ts`) |
|---|---|
| `BeginInsert`, `Mkdir`, `Create`, `Write`, `CloseVersion` | insertVersion 96-104; a `writeFile` with flag `wx` is an exclusive open, a write and a close |
| `BeginUpsert`, `Truncate`, `Overwrite`, `CloseLabel` | upsertLabel 125-128; flag `w` truncates at the open and writes from the start |
| `BeginRead`, `ReadVersion`, `ReadLabel`, `ReadMax`, `ReadDir`, `ReadEach`, `ReadKeys` | the reading methods 87-94 and 106-123, over `readJson` 60-67 and `versionNumbers` 69-79 |
| `WriteFails`, `Crash` | a write rejected half way; a process that dies |

`listVersionsDesc` reads the directory and then each file at a moment of its own. A
document is taken to be written by one system call, which is what libuv does with a
small buffer. Only processes crash: what was written stays written. Label
directories and `init` are left out, as a missing directory reads as a missing file.

`VersionedStore` assumes rows that are stored or not. A file backend keeps that for
every insert it answered; an insert that dies in between leaves what the contract
has no word for, a number that is taken and cannot be read. The store then
goes on numbering above it, but `getVersion` of that number and `listVersions` of
that key throw from then on.

### State and actions of Adapters

A behaviour picks one engine. `rows` are the version documents, each with the number
of the call that stored it so that a second document of one version can be told from
the first; `zv` and `keyset` are the indexes Redis keeps by hand, `keyed` the tables
(on Mongo, the unique indexes) that exist, `ready[p]` the promise that
Postgres remembers per process.

| Action | Code (`core/backends/`) |
|---|---|
| `Begin`, `CreateTable`, `CreateFails`, `AwaitReady` | postgres.ts: `ensureReady`, awaited by every method, outside the `try` of insertVersion |
| `InitStore`, `MakeIndex` | init of each engine; Mongo makes its two indexes one after the other, either of which may be made though its answer is lost |
| `Insert` | insertVersion: the Lua script as one step, `INSERT` with the unique key, `insertOne` |
| `Upsert` | upsertLabel: a `SET` under a name that joins key and label, an upsert, a `$set` |
| `GetVersion`, `GetMaxVersion`, `DistinctKeys`, `GetLabel`, `ListVersionsDesc`, `ZRevRange`, `MGet` | the reads; the list of Redis is two commands |
| `StatementFails`, `Restart` | a driver that rejects, with the statement done or not; a process that dies |

A key or label is a sequence of the parts that `:` separates, which is all that the
joined name of Redis depends on. JSON, SQL text, `_id` and the notes and refs of pointers
are left out.

### State and actions of Canary

`call[c]` is a call of this module in flight, `named[c][l]` what label `l` has answered
its build while it ran (history), `alarms` the `promote-refused` events. `Readable[c]`
are the values the build of caller `c` can read: getActiveVersion is null for any other,
and `resolve` serves the code default, as it does when the backend fails (`fellBack`).

| Action | Code (`core/canary.ts`) |
|---|---|
| `BeginEvaluate`, `ReadCanary`, `JudgeCanary`, `ReadActive`, `Rollback`, `Alarm` | evaluateCanary 87-118 |
| `BeginWeighted`, `WeightedCanary`, `WeightedActive` | resolveWeighted 44-54; the roll is a choice |
| `BeginShadow`, `ShadowActive`, `ShadowShadow` | resolveShadow 57-63 |
| `Resolve`, `ActiveVersion`, `Reads` | the core's resolve 387-418, getActiveVersion 425-429 and docToResolved 375-385 as one await each |
| `Promote`, `AddVersion` | promoteCanary, promoteShadow 29-37 and the store's own verbs, by operators |
| `AwaitRejects` | any await but `resolve`, which falls back by itself (`Resolve`) |

### State and actions of Migration

`rows`, `labels` are the two stores, `file` a bundle at rest, sealed or plain, `job[j]`
a migrate, an export (plain or sealed) or an import (checked or not) with its locals.
`atStart`, `own`, `raced`, `edited` and `unchecked` are history. A document carries the
sha256 it was stored with apart from its value, because migrate compares the stored
hashes and computes none: what the unchecked import verb lets in can differ in value and
still be reported as copied (`unchecked` in `CleanReportIsCopied`).

| Action | Code |
|---|---|
| `ReadKeys`, `ReadVersions`, `ReadLabel` | exportBackend, migrate.ts 31-44, of the source and later of the target |
| `InsertVersion`, `UpsertLabel`, `Imported` | importBundle 47-57: every row, then every label; a conflict is swallowed |
| `Compare` | the report of migrate 91-109 |
| `Seal`, `BeginRestore` | sealBundle, verifyBundle, exportSealed, importSealedBundle of bundle.ts |
| `WriteBundle`, `BeginImport` | the export and import verbs of core/cli.ts 116-135: no seal, and none looked for |
| `EditFile` | a file changed between the two |
| `AwaitRejects` | a backend that rejects, or a process that dies: what it did stays |
| `AddVersion`, `Promote` | users of either store, and the promote and rollback verbs with `setLabel` of core/cli.ts |

SHA-256 and HMAC are injective: a hash is what it hashes, a signature its key with it.

### State and actions of EventSink and OperatorCli

`EventSink` holds the counters and each scheduled write in one of four sets: in
flight, written, swallowed (its error went to `onError`) or rejected (`onError`
itself threw, which a host may do: `throws`). `OperatorCli` extends it with stores of
one key per domain, the run in progress (`run`) and history (`reverted`, `lost`).

| Action | Code (`packages/cli/src/index.ts`) |
|---|---|
| `Begin` | parseArgs and the checks of run: a verb, with or without a key, help, or a usage error |
| `Connect`, `ConnectRejects` | the connection, awaited before the `try`: when it rejects, so does run |
| `List`, `Diff`, `Add`, `Promote`, `PromoteMissing`, `PromoteRefused`, `Revert`, `SeedOrSync`, `Health` | the verbs, on one target after the other |
| `StoreRejects` | any awaited store call, its write done or not, with what a verb of several writes did before |
| `StartDrain`, `EndDrain`, `Close` | the `finally`: drain every registered domain, then close |
| `Dies` | a rejection nobody handles ends the process |
| `Settles` | events.ts 139-151, one write |

### State and actions of Facades

A text is a sequence of tokens: braces, words a placeholder's name is made of, and
anything else, the blank and tags like `@latest` among it. A value is a text too.
Nothing marks a placeholder but its braces (`IsHole`), so that the braces of a text, of a
value and of its neighbours may meet in a new one, as they do in a string. Words are
whole tokens: two that meet are not read as one longer name. `facade` is the facade of
this behaviour, `default` its code default; the rest is the store, the calls, and
`judged` (history: the versions a gate let live).

| Action | Code |
|---|---|
| `Add` | addPromptVersion, addScaffoldVersion |
| `BeginPromote`, `Judge`, `Upsert` | promote with the facade's own gate, or of the core with no gate |
| `Deterministic`, `Golden`, `Score`, `Verdict` | buildGate of evalGate.ts, one case a step, given to the core's promote |
| `BeginSeed`, `BeginSync`, `AddDefault` | the gated seedDefaults of both, syncDefaults of the scaffold facade and of a prompt store's core, and either of the core without a gate |
| `BeginRevert` | revertToCodeDefault, ungated |
| `RenderPrompt` | resolvePin, with its fallback to the default, and renderPinned |
| `RenderScaffold`, `Unrouted` | resolveScaffold or resolveFor, and renderCommand; a router that declines the input, or none |

The schema of a prompt is the names it requires and those it leaves optional; a key
without a schema, or with one that is not an object, is left out. Where a host gives no
goldens the code takes one empty input, which is a value of `Goldens`. `Goldens` of the
instance cover the schema's optional field and one name outside it, so that the check
of placeholders decides and the goldens alone do not.

`FilledAtOnce` is what filling is meant to be: the holes of the text, and nothing of a
value. The code fills one var after the other and searches all of the text each time. A
text is clear (`IsClear`) when every brace of it belongs to a placeholder and no two
placeholders touch. `RendersAreLiteral`, and the parts of the other two properties on
what a render throws, are about clear texts: of others the code does not keep what its
documents say (see below). `GatedPromptRenders` has two parts: what may be missing when a
render throws is what the schema leaves optional, and if the text is clear something is.

## The runs

Every run is small enough to finish in a few minutes; the sizes are distinct states.

| Run | Question | Bounds, and why they are enough |
|---|---|---|
| `writers` | Do racing adds, promotes and reverts keep numbers unique and dense, rows immutable, labels stored, every returned version its caller's, and every step one of `VersionHistory`? Who pays for a conflict? Do the events match the moves of the label? | 3 clients of 2 builds, 3 calls, 1 fault, a retry budget of 2 (5 in the code): a conflict, a retry, a second conflict that ends the budget, a late row or pointer landing among them, and a crash between a move and its event all occur |
| `readers` | Is what a resolve serves what the label named at some moment of the call, with two builds, one of which cannot read `odd`? Is the cache right, and does what is served while the backend fails ever stay in it? | 3 clients, 4 calls, 1 fault: a cached entry, a move away, a move back and a resolve across them; a resolve that fails at its label or its version, or a process that dies, and a resolve after it. Two of the clients are alike in all the constants, which makes the symmetry sound, and no liveness is asked (5,371,232) |
| `progress` | Every operation together, every caller gating: do all calls return? Does a listing ever miss its active version? Can an interleaving put an unvetted value behind a label? | 2 clients, 3 calls, 1 fault, and a build whose default its own gate refuses; the loops over defaults and keys and the CAS loop all turn (261,224) |
| `file_rows` | Is what the file backend acknowledged whole, for ever, and in every later answer? | 3 clients of 2 processes, 3 calls, 1 fault, 2 numbers, 2 documents: two rivals for a number and a reader, with a crash or a failed write between any two system calls |
| `adapters` | On each engine: one winner per number, indexes that agree, errors that are real, reads that keep up? | 2 processes, 3 calls, 1 fault, two keys: two inserts and a read, two first calls that make tables at once, an init after or between inserts (715,244) |
| `canary` | Is what is served and reported so, does a sweep only demote, and does a bad canary go? | one key, 2 versions, any store to begin with, a controller and a user, one promote by operators and one rejection: the promote falls between any two awaits of a sweep; builds that read every value and one that does not (683,218) |
| `migration` | Does a clean report mean a copy? Can a job change or bring in what it should not? Does a re-run finish? | one key, 2 versions, 2 writes on either side, 1 fault; jobs one after the other: a migrate that dies, a file edited at rest, a restore, an unchecked import, and a re-run, with writes between any two awaits (2,033,971) |
| `operator` | Does the close lose events? Is the exit code right? Is what is live vetted? Does every run end? | 2 runs of any verb with any arguments over 2 domains, one with a gate and an unsound default; 1 rejection, sinks that land, fail or throw (806,874) |
| `facades` | Does what a gate let live render and run as it should? Is a value ever searched for holes? Is a verdict complete? | 3 calls of 2 callers, 2 versions; prompts and commands each with one defect, stray braces among them, values that spell a hole of their own or make one with a text's braces, goldens and a judge that refuse some of them (2,156,857) |
| `file_labels` | violation of `LabelsReadable` | two upserts of documents of two lengths, no fault |
| `facade_seed` | violation of `SeedsAreGated` | `operator` with descriptors that leave the gate off |
| `silent_gate` | violation of `AllMustPass` | `facades` with a first tier that refuses without a reason |

Bounds: `MaxCalls`, `MaxRuns`, `MaxMoves`, `MaxWrites` (things ever begun or done by
the outside), `MaxFaults` (lost answers, crashes, failed statements, edits),
`MaxCasAttempts`, `MaxVersion`, `MaxEvents`. One key and one label suffice in most runs
because no step of one key reads another key's rows or pointers; the operations
that visit several keys do so one after the other. `adapters` takes two of each
because there two keys can meet.

Deadlock is checked in the runs of `VersionedStore` and `FileBackend`, where the only
way to stop is `Rest` (the bound on calls is reached and none is in flight), and in
`canary` and `migration`, where a sweep or a job can always begin. In `operator`,
`adapters`, `facades` and the violation runs over `OperatorCli` and `Facades` the system
may stop when its calls are used up, and the cfg says `CHECK_DEADLOCK FALSE`.

The budget of properties goes to what could be wrong: `TypeOK` of `Canary`,
`Migration`, `OperatorCli` and `Facades` is not in a run: each is a theorem.

### Fairness

* `VersionedStore!FairSpec` asks `WF_vars(Continue(c))` of each client: an awaited
  promise settles, so a call in flight is carried on. The event loop and the
  drivers give that, an await that never settles being outside the program. Nothing
  is assumed of callers, faults or late writes. `CallsReturn` is checked
  within `MaxCalls` calls; that the CAS loop ends does not rest on this bound, since
  its mutant, which does not count attempts, loops for ever within it.
* `Canary` asks the same of `Serve(c)`, and `SF` of a controller's sweeps: canary.ts
  (69) means a controller to "sweep every key on a schedule", and a controller is
  free again and again. Weak fairness would not do, as the same caller
  may spend its turns on other keys or calls. `BadCanaryIsDemoted` rests on it.
* `Migration` asks `WF` of each job's steps and nothing of jobs being begun:
  `RerunCompletes` starts from a migrate that did begin after the last fault.
* `OperatorCli` asks `WF` of the runner and of each write: a write of a sink settles,
  which is what a drain is given.

### Where the code and its documents differ

Shown by a run:

* `file_labels`: "concurrent writers are safe with no lock file" (file.ts 34) holds
  of versions. Two upserts of one label that both truncate before either writes
  leave, if the shorter document is written last, the tail of the longer behind it;
  `getLabel` throws until the next upsert, and resolves fall back to the default.
* `facade_seed`: a facade-backed descriptor "can leave this off (their own
  `seedDefaults` already gates)" (cli index 61-62). The runner calls the core's verbs
  (119, 128), not the facade's, so without the descriptor's gate an unsound default
  goes live.
* `silent_gate`: of the tiers "all must pass" (evalGate.ts 244). `composeGates` keeps
  only the failures of a gate that did not pass (231) and passes when there are none.

Read from the code while modelling; the models do these things, and no run is
spent on them:

* "A value cannot inject a placeholder or corrupt the leftover check" (docs/guide/consuming.md
  102). Only double braces of one value are parted (prompt-store 307): in `{{{name}}}` the
  value `{title}` becomes `{{title}}`, which a later var fills, or which throws as unbound
  though nothing was left out. Hence the clear texts of the properties.
* The scaffold gate "proves the spec is runnable" (scaffold-store 171). It asks which
  placeholders a command names: `npm create vite@9.1.0 {{dir}}` names `dir` and passes, and
  renders to `{web}`, which throws.
* Pointers are "unique on `(key, label)`" (backend.ts 51). Redis joins the two with `:`
  (redis.ts 71), which either may contain: key `a:b` with label `c` and key `a` with label
  `b:c` share one pointer.
* "`drain()`'s `Promise.all` cannot itself reject" (events.ts 136-138), but an `onError` that
  throws (142) makes the write's promise reject: a drain that waits for it rejects, and
  the promise of its `finally` is a rejection nobody handles.
* The `promote-accepted` events "let you answer which version was live at time T" (core README
  148). The event is emitted after the awaited write and carries no order of its own, so two
  promotes may take effect in one order and be told in the other.
* A bundle is a "snapshot: every immutable version of every key, plus the label pointers"
  (migrate.ts 12). A version added and promoted between an export's reads of a key's rows
  (37) and of its labels (39) is named by the bundle and not in it. `TargetLabelsResolve`
  leaves such an export out (`raced`).
* A second process that seeds between the probe (531) and the add (549) of a first
  stores the default twice; versionedStore.ts 251 says "insert it as v1".
* A process that dies between the add and the promote of a seed leaves a key that
  every later seed skips, with no label, though operating.md 51 calls seedDefaults
  idempotent; `syncDefaults` repairs it.
* `CasExhaustedError` (errors.ts 60) is never thrown: on the last attempt the
  conflict is rethrown as it is (459-463), and line 466 is unreachable.
* The file backend lists a key's directory before its first version is there
  (backend.ts 142), and a `getVersion` between open and write throws (backend.ts 123).
* Postgres remembers a failed DDL for the life of the process: every later call
  rejects until a restart.
* A conflict that importBundle swallows is called identical (migrate.ts 53) and need
  not be; `Compare` is what tells.
* `migrate` is called "verified by content hash" (core cli 48), and compares the hashes
  stored with the rows: a row whose value was changed under its hash counts as copied.
* The prompt facade hashes the text alone (prompt-store 274), so that a sync leaves a
  default whose config changed as it is, though sync is said to promote "any code default
  whose content drifted" (cli index 288).
* evaluateCanary may demote onto a version that an operator has demoted since it read
  it, and the canary it demotes may by then be another one than it judged.
* A judge that rejects rejects the promote, where evalGate.ts 129 has an unavailable
  judge pass.
* `run` of the operator CLI "never throws" (cli index 160-161), but `connect` is awaited
  before its `try` (465); and "a usage error returns 2" holds of parsing, while a verb
  that finds its arguments missing throws and makes the exit code 1.

## The proofs

`VersionedStoreProofs` proves, for every set of keys, labels, values, clients and
processes, every assignment of defaults, validators and readers, and every bound,
from `ConstantsAssumption` alone:

| Theorem | Says |
|---|---|
| `InductiveInvariant` | `Spec => []IInv` |
| `TypeCorrect` | `Spec => []TypeOK` |
| `VersionsAreUnique` | `Spec => []UniqueVersions` |
| `VersionsAreDense` | `Spec => []DenseVersions` |
| `LabelsNeverDangle` | `Spec => []NoDanglingLabel` |
| `RowsAreImmutable` | `Spec => Immutable` |

None of the four safety properties is inductive: an insert in flight carries a
number that was computed earlier, and a late write carries one that nobody checks
again. `IInv` therefore adds what those carry:

* `SaneCalls`: at each program point the call record names the key, label, value
  and version that point needs;
* `ClaimsHold`: every number below the one an insert carries, in flight or
  late, is stored (`Reached`), and the version a promote carries past its check,
  in flight or late, is stored;
* `Dense(k)`: the versions of `k` are 1 .. n for some n. From this, that
  `MaxVersion`, a `CHOOSE` over a finite set, is that n (`MaxOfDense`).

The argument is that rows only grow (`Grows`), and both claims are monotone in the
rows: what was true when a number was read is true when it is used. An insert
carrying n that finds n free, with 1 .. n - 1 stored, can only extend the
history by one. Each action has a lemma `...KeepsIInv`; most only move a call
record, and share `MoveKeepsIInv`-style lemmas.

The second part of `VersionedStoreProofs` proves on top of it, from the same assumption:

| Theorem | Says |
|---|---|
| `Refinement` | `Spec => ImplementsHistory` |
| `Agreement` | `Spec => []AInv` |
| `CachesStayCoherent` | `Spec => []CacheCoherent` |
| `ReturnedVersionsAreOwned` | `Spec => []ReturnedVersionIsOwn` |
| `LiveIsVetted` | `Spec => []OnlyVettedLive` |
| `ListingsAreWhole` | `Spec => []ListingShowsActive` |

`Refinement` sorts the steps into three: one publishes a row (`Publishes`), one points a
label (`Points`), and the others leave rows and labels alone. That a published row is
the *next* value of its key's sequence is `Dense` and `ClaimsHold` of `IInv` again: the
mapped history is `[n \in 1 .. MaxVersion(k) |-> ...]`, and appending to it needs that
the new number is one above the greatest. `AInv` says of each call what its locals claim
of the rows (`Agrees`): past an insert the row is the caller's own (`Owns`), past a gate
what it is about to add or promote is what was judged (`Vouched`), and a listing between
its two awaits holds a version that is stored (`Lists`).
All of it is monotone in the rows (`AgreesKept`), and rows never change, so that only the
steps of a client can disturb its own part.

`VersionedStoreHistoryProofs` proves of `VersionedStoreHistory`:

| Theorem | Says |
|---|---|
| `EveryRetryIsPaid` | `HSpec => []RetriesArePaid` |
| `ResolvesAreFresh` | `HSpec => []ResolveIsFresh` |
| `AuditIsTrue` | `HSpec => []AuditCountsMoves` |

The history variables only watch, so `IInv` and `AInv` hold of `HSpec` as of `Spec`. `PInv`
counts for a retry: at its n-th attempt, n - 1 versions have come since the call began,
and the one it is about to insert is n above the greatest it began with. `RInv` follows
a resolve: between its reads, the version it is after is among those the label has
named since the call began (`Follows`, monotone in the past pointers). `CountInv` is an
equation per label and version: the events told and those still to be emitted are, up
to faults, as many as the moves made.

`FileBackendProofs` proves, for every instance of `FileBackend`:

| Theorem | Says |
|---|---|
| `FileInvariant` | `Spec => []FInv` |
| `AcknowledgedIsWhole` | `Spec => []AckedIsWhole` |
| `VersionFilesStay` | `Spec => WholeFilesStay` |
| `FileTypes` | `Spec => []TypeOK` |
| `AnswersAreCurrent` | `Spec => []AnswersKeepUp` |

`AckedIsWhole` is not inductive: it takes that nobody else is about to write the
file of an acknowledged row. `FInv` adds `OneWriter` (two clients between create
and close are never on one file, which is what the exclusive open gives),
`WritersHold` (the file of a client that has created but not written is `Torn`, of
one that has written its document) and `Sane` (a call's arguments fit its method
and program point). A client that reaches close therefore acknowledges what is in
the file, and no client that writes can be on an acknowledged one. A crash may
leave a torn file without a writer; nothing in `FInv` forbids it.

`AnswersKeepUp` compares an answer with what was acknowledged when its call began, and
needs `KInv`: the directory of an acknowledged row's key is there, and a listing between
its `readdir` and its reads still has every such row ahead of it or in hand.

`AdaptersProofs` proves, for every instance of `Adapters`, whichever engines, names,
requests and processes it has:

| Theorem | Says |
|---|---|
| `AdaptersInvariant` | `Spec => []AInv` |
| `IndexesAgree` | `Spec => []TypeOK`, which holds the agreement of Redis's indexes |
| `InsertsHaveOneWinner` | `Spec => []OneWinner` |
| `ConflictsAreReal` | `Spec => []ErrorsAreReal` |
| `ReadsSeeAnsweredInserts` | `Spec => []ReadsKeepUp` |

`AInv` adds what these rest on: `Numbered` (a call in flight has a number of its own
and has stored nothing, so that the row a conflict names is another's), `TablesExist`
(a promise that is `ok` means both tables, and only Postgres has promises) and
`CallsFit`, which says of each call record what its program point has established:
past `ready` the tables are there, between the two commands of Redis's listing every
row of `Mine` is among the numbers to fetch. `Facts` takes the rows and tables as
parameters and is monotone in them (`FactsStay`), so that another call's step needs no
argument. `StatementFails` reuses the lemmas of the statements whose effect it keeps.
That a nonempty set of numbers has a greatest (`GreatestExists`) comes from the
library's well-founded induction on `Nat`.

`CanaryProofs` proves, for every number of callers, controllers, keys and versions:

| Theorem | Says |
|---|---|
| `CanaryInvariant` | `Spec => []CInv` |
| `CanaryTypes` | `Spec => []TypeOK` |
| `ServedIsNamed` | `Spec => []ServedWasNamed` |
| `ReportsAreTrue` | `Spec => []ReportIsTrue` |
| `SweepsOnlyDemote` | `Spec => SweepOnlyDemotes` |

A report is made of three reads at three moments. `CInv` says of each program point
what was seen up to it (`Facts`, monotone in the history variables: what a label has
named during the call, the versions, the alarms) and of each call in flight that it
has seen what the labels name now (`Current`). With that, the version a sweep rolls
back to is stored when it is promoted, and a step between two reads only adds to what
was seen. `SweepOnlyDemotes` needs the part of `Current` that a canary label once set
is not unset while a sweep judges it.

`OperatorCliProofs` proves, for any domains, defaults and validators and any number of
runs, from `CliAssumption` (every domain has a place in the list of commands, once):

| Theorem | Says |
|---|---|
| `RunInvariant` | `Spec => []Inv` |
| `RunTypes` | `Spec => []TypeOK` |
| `LiveIsGated` | `Spec => []OnlyGatedLive` |
| `AuditsSurvive` | `Spec => []AuditSurvives` |
| `ExitCodesAreTrue` | `Spec => []ExitTellsTruth` |

The bounds of `TypeOK` on versions and events are not guards, so that it needs
`OncePerRun`: a run comes to a domain once, adds one version of it at most and emits
one event of a type at most, whence the runs begun bound both. `AuditSurvives` needs
`Audited`: once domains drain, one that has a drain is still on the list or has nothing
in flight, and the one being drained waits for all it has in flight (`Draining`), unless
an `onError` has thrown. `ExitTellsTruth` needs `Truthful`, which says of a verb half way
through its domains that the effect is there on those it has left behind, unless it has
refused an unsound default (`Underway`), and that the drain changes none of it (`Ended`).

`MigrationProofs` proves, for any keys, labels, values, secrets and jobs, any number of
jobs at once and any number of writes, faults and edits:

| Theorem | Says |
|---|---|
| `MigrationTypes` | `Spec => []TypeOK` |
| `JobsAddOnly` | `Spec => JobsOnlyAdd` |
| `TargetIsTraced` | `Spec => []TargetIsTraceable` |
| `CleanReportsAreTrue` | `Spec => []CleanReportIsCopied` |
| `TargetLabelsHold` | `Spec => []TargetLabelsResolve` |

It assumes what `MigrationAssumption` and `NoneAssumption` say: every value has a hash
(two may share one), and null is no document and no hash of a bundle. Everything rests
on rows that stay (`RowsStay`): a bundle's rows are held by the side they were read
from, then and ever after. On top of the types there are four invariants, each checked
on the instance of the `migration` run before it was proved:

* `Traced`: what a bundle or a seal holds is in the source, but for an edited file; a
  seal over an edited file does not verify, so that only the unchecked import lets it in;
* `Honest`: a row's hash is that of its value, but for rows of an unchecked import;
* `ReportInv`: a migrate's bundle has every row that the source held at the start of the
  keys it has left behind, and of every key once it imports (`CoveredBy`); what it reads
  back is held by the target; a clean report is true of every row sent (`ConfirmedBy`);
* `LabelInv`: the source's labels resolve; a bundle's labels name rows of the bundle
  (`Backed`), as an export reads a key's rows before its labels, unless a promote came
  between (`raced`); an import has all its rows on the target before its first label
  (`Arrived`).

`FacadesProofs` proves, for any payloads, schema, goldens, ladder and number of callers:

| Theorem | Says |
|---|---|
| `FacadeInvariant` | `Spec => []FInv` |
| `FacadeTypes` | `Spec => []TypeOK` |
| `GatedPromptsRender` | `~ Silent` gives `Spec => []GatedPromptRenders` |
| `GatedCommandsRun` | `~ Silent` gives `Spec => []GatedCommandRuns` |
| `VerdictsAreWhole` | `~ Silent` gives `Spec => []VerdictIsWhole` |

`Silent` is the host of the `silent_gate` run, whose first tier refuses without naming a
failure: there a ladder promotes what its first tier refused, as that run shows. What a live
command runs is pinned under `RequirePinned`, the option `requirePinnedCommand`, a premise of
the property: a host that turns it off asks for floating commands. `FacadesAssumption`
and `TokensAssumption` say that texts are sequences of tokens, that braces, words and the rest
are apart, that vars are one value per name, as the entries of an object are, and that a spec
has one of the two modes its schema admits.

`FInv` says of each call in flight what it has judged (`Judged`), of a ladder that its
failures are those of the cases behind it (`Tallied`: not only those it ought to
have, but no other), of the live version that it was judged unless a kill switch
put it in, and of a render that it is that of the version it named. Judging takes many steps, in
which others add, promote and revert; the judged value is the installed one because a
position of the history keeps its value (`GoodStays`). `RecordIs` is the one place where
the tiers' order matters: a case is recorded, and what is then behind the run is what was
behind it and that case, so that no tier is skipped and none comes twice.

That a render throws only for what is missing needs that no fill makes a hole. A text is
sealed (`Sealed`) when only a hole closes a word and no brace stands next to a hole, a
value inert (`Inert`) when it closes no word, its own or one before it. `SpliceKeeps` is the
core: an inert value put in place of a hole of a sealed text leaves it sealed, with no hole
that was not there. From it `FillSeals`, for the fill of one var, and `HolesLeft`, for all:
the holes left are those of the names not given. A clear text is sealed (`ClearSealed`), a
value without braces is inert (`BracelessInert`), and so is what the prompt store makes of
any value (`NeutralInert`). The fills are
recursive functions, and the library's induction theorems are out of reach; but if a
statement fails of some number there is a least one of which it fails (`Counting`,
`Downward`, from the library's well-founded minima), and of the one before it held.

Only model-checked: the liveness properties `CallsReturn`, `BadCanaryIsDemoted`,
`RerunCompletes` and `RunReturns`, which stay with TLC, liveness under fairness being out
of the prover's reach; `RendersAreLiteral`, which compares two recursive functions and
of which only `HolesLeft` is proved; and the three violations, which are counterexamples of an
instance.
That `Canary` and `Facades` only take steps of `VersionHistory` holds by their definitions.

## Plan

Modelled: every component the table above names but the cipher. Proved: every invariant and
every safety action property that a run checks and the code keeps, but `RendersAreLiteral`,
whose proof is what the plan has left.

## Not modelled

* The cipher: cryptography is out of TLC's reach. That a process may be unable to
  read a row is `Readable`.
* Logger, warnings, error classes, stamp, entry points: no state a property
  depends on. Counters of fallbacks and the once-per-process warnings are left out.
* SQL text, JSON, argument wording, output formatting.
* The conformance suite, benchmarks and release scripts are not part of the running
  program.
