----------------------------- MODULE Migration -----------------------------
(***************************************************************************)
(* Moving a store to another backend, with migrate.ts, bundle.ts and the   *)
(* verbs of cli.ts, while both ends may be written.  A job exports one     *)
(* side key by key, imports row by row, exports the other side again and   *)
(* compares; or it leaves an export in a file, sealed or plain, which a    *)
(* later job restores after verifying it, or imports as it finds it.       *)
(* Every await of a backend is a step; any of them may reject, which also  *)
(* stands for the death of the process: what a job did stays.              *)
(***************************************************************************)
EXTENDS Naturals, Sequences, FiniteSets, SequencesExt

CONSTANTS
  Keys, Labels, Values, None,
  Hash,        \* the sha256 stored with a value
  Exported,    \* the labels an export captures
  Secrets,     \* keys of the optional HMAC
  Jobs,        \* jobs that may run at once
  MaxVersion,  \* bound: versions of one key on one side
  MaxWrites,   \* bound: writes of the two stores' own users
  MaxFaults    \* bound: rejections, deaths and edits of the file

ASSUME MigrationAssumption ==
  /\ None \notin Values \cup Secrets /\ Exported \subseteq Labels
  /\ DOMAIN Hash = Values
  /\ MaxVersion \in Nat /\ MaxWrites \in Nat /\ MaxFaults \in Nat

Sides == {"source", "target"}

VARIABLES
  rows,    \* per side and key, the document of each version, None where missing
  labels,  \* per side, key and label, the version it names, 0 where unset
  file,    \* the bundle at rest, with its seal if it has one
  job,     \* per job, the migrate, export or import it runs
  atStart, \* per job, the rows of the source when it began (it only watches)
  own,     \* <<key, version>> that the target's own users wrote (likewise)
  raced,   \* a version came and was promoted between an export's two reads
  edited,  \* the file is not as its export left it (likewise)
  unchecked, \* an import took an edited file (likewise)
  writes, faults

stores == <<rows, labels>>
watches == <<atStart, own, raced, edited, unchecked>>
vars == <<stores, file, job, watches, writes, faults>>

-----------------------------------------------------------------------------
\* Bundles: rows and pointers in the order they were read.

\* A document carries the hash it was stored with.
Docs == [value : Values, sha256 : Range(Hash)]
DocOf(v) == [value |-> v, sha256 |-> Hash[v]]

Row == [key : Keys, version : 1 .. MaxVersion, doc : Docs]
Pointer == [key : Keys, label : Labels, version : 1 .. MaxVersion]

\* No row and no hash of a bundle is null.
ASSUME NoneAssumption ==
  /\ None \notin Docs
  /\ None \notin (SUBSET Row) \X (SUBSET Pointer)

NoBundle == [versions |-> << >>, labels |-> << >>]

\* Sorted and canonical: the order of a bundle's rows does not matter, and all
\* they hold does.
ContentHashOf(b) == <<Range(b.versions), Range(b.labels)>>

\* What the export verb writes: no seal.
Plain(b) == [bundle |-> b, contentHash |-> None, signature |-> None]

SealBundle(b, secret) ==
  [bundle |-> b, contentHash |-> ContentHashOf(b),
   signature |-> IF secret = None THEN None ELSE <<secret, ContentHashOf(b)>>]

\* As VerifyBundle, but the hash is taken from the file.
VerifyUnhashed(f, secret) ==
  /\ secret # None => f.signature = <<secret, f.contentHash>>

VerifyBundle(f, secret) ==
  /\ ContentHashOf(f.bundle) = f.contentHash
  /\ secret # None => f.signature = <<secret, f.contentHash>>

-----------------------------------------------------------------------------
\* What a backend answers.

Stored(s, k) == {n \in 1 .. MaxVersion : rows[s][k][n] # None}

DistinctKeys(s) == {k \in Keys : Stored(s, k) # {}}

RowOf(s, k, n) == [key |-> k, version |-> n, doc |-> rows[s][k][n]]

\* The i-th row is the one that i versions are not below.
ListVersionsDesc(s, k) ==
  [i \in 1 .. Cardinality(Stored(s, k)) |->
     RowOf(s, k, CHOOSE n \in Stored(s, k) :
                   Cardinality({m \in Stored(s, k) : m >= n}) = i)]

-----------------------------------------------------------------------------
\* Jobs.  side: the side being exported; todo: keys not yet exported; reading
\* and left: the key whose labels are being read, and those labels; at: rows and
\* labels imported; missing, mismatched: the report.

NoJob == [op |-> "none", pc |-> "done", side |-> "source", secret |-> None,
          todo |-> {}, reading |-> None, left |-> {}, bundle |-> NoBundle,
          back |-> NoBundle, at |-> 0, missing |-> {}, mismatched |-> {},
          outcome |-> "none"]

Init ==
  /\ \E held \in [Keys -> UNION {[1 .. n -> Values] : n \in 0 .. MaxVersion}] :
       /\ rows = [s \in Sides |-> [k \in Keys |-> [n \in 1 .. MaxVersion |->
            IF s = "source" /\ n \in DOMAIN held[k] THEN DocOf(held[k][n]) ELSE None]]]
       /\ labels \in [Sides -> [Keys -> [Labels -> 0 .. MaxVersion]]]
       /\ \A k \in Keys, l \in Labels :
            labels["source"][k][l] \in 0 .. Len(held[k]) /\ labels["target"][k][l] = 0
  /\ file = SealBundle(NoBundle, None)
  /\ job = [j \in Jobs |-> NoJob]
  /\ atStart = [j \in Jobs |-> [k \in Keys |-> {}]]
  /\ own = {} /\ raced = FALSE /\ edited = FALSE /\ unchecked = FALSE
  /\ writes = 0 /\ faults = 0

At(j, pc) == job[j].pc = pc

Step(j, new) ==
  /\ job' = [job EXCEPT ![j] = new]
  /\ UNCHANGED <<watches, writes, faults>>

Finish(jb, outcome) == [jb EXCEPT !.pc = "done", !.outcome = outcome]

\* The bundle a job is exporting: the source's, or the target's to compare.
Reading(jb) == IF jb.side = "source" THEN jb.bundle ELSE jb.back
Read(jb, b) == IF jb.side = "source" THEN [jb EXCEPT !.bundle = b]
               ELSE [jb EXCEPT !.back = b]

Begin(j, new) ==
  /\ At(j, "done")
  /\ job' = [job EXCEPT ![j] = new]
  /\ atStart' = [atStart EXCEPT ![j] = [k \in Keys |-> Stored("source", k)]]
  /\ UNCHANGED <<stores, file, own, raced, edited, writes, faults>>

BeginExport(j, op, secret) ==
  /\ Begin(j, [NoJob EXCEPT !.op = op, !.secret = secret, !.pc = "keys"])
  /\ UNCHANGED unchecked

\* importSealedBundle: nothing is imported unless it verifies.
BeginRestore(j, secret) ==
  /\ LET new == [NoJob EXCEPT !.op = "restore", !.secret = secret] IN
     Begin(j, IF VerifyBundle(file, secret)
              THEN [new EXCEPT !.pc = "import", !.bundle = file.bundle]
              ELSE Finish(new, "refused"))
  /\ UNCHANGED unchecked

\* The import verb takes the file as it is, sealed or not.
BeginImport(j) ==
  /\ Begin(j, [NoJob EXCEPT !.op = "import", !.pc = "import", !.bundle = file.bundle])
  /\ unchecked' = (unchecked \/ edited)

\* exportBackend: the keys, then per key its versions and then its labels.

ReadKeys(j) ==
  /\ At(j, "keys")
  /\ Step(j, [job[j] EXCEPT !.pc = "export", !.todo = DistinctKeys(job[j].side)])
  /\ UNCHANGED <<stores, file>>

ReadVersions(j) == \E k \in job[j].todo :
  /\ At(j, "export") /\ job[j].left = {}
  /\ LET jb == job[j]
         b == [Reading(jb) EXCEPT !.versions = @ \o ListVersionsDesc(jb.side, k)]
     IN Step(j, [Read(jb, b) EXCEPT !.reading = k, !.todo = @ \ {k}, !.left = Exported])
  /\ UNCHANGED <<stores, file>>

ReadLabel(j) == \E l \in job[j].left :
  /\ At(j, "export")
  /\ LET jb == job[j]
         n == labels[jb.side][jb.reading][l]
         b == [Reading(jb) EXCEPT !.labels = IF n = 0 THEN @
                 ELSE Append(@, [key |-> jb.reading, label |-> l, version |-> n])]
     IN Step(j, [Read(jb, b) EXCEPT !.left = @ \ {l}])
  /\ UNCHANGED <<stores, file>>

AllRead(j) == At(j, "export") /\ job[j].todo = {} /\ job[j].left = {}

\* What was read is kept as one file.
Keep(j, f) ==
  /\ AllRead(j)
  /\ file' = f /\ edited' = FALSE
  /\ job' = [job EXCEPT ![j] = Finish(@, "ok")]
  /\ UNCHANGED <<stores, atStart, own, raced, unchecked, writes, faults>>

\* exportSealed, and the export verb.
Seal(j) == job[j].op = "backup" /\ Keep(j, SealBundle(job[j].bundle, job[j].secret))
WriteBundle(j) == job[j].op = "export" /\ Keep(j, Plain(job[j].bundle))

StartImport(j) ==
  /\ AllRead(j) /\ job[j].op = "migrate" /\ job[j].side = "source"
  /\ Step(j, [job[j] EXCEPT !.pc = "import"])
  /\ UNCHANGED <<stores, file>>

-----------------------------------------------------------------------------
\* importBundle: every row, then every label.

\* As Import, but labels first.
ImportLabelsFirst(j) == job[j].bundle.labels \o job[j].bundle.versions

Import(j) == job[j].bundle.versions \o job[j].bundle.labels

\* The row or pointer whose turn it is.
Item(j) == Import(j)[job[j].at + 1]

Importing(j) == At(j, "import") /\ job[j].at < Len(Import(j))

\* As InsertVersion, but what is there is replaced.
InsertOverwrites(j) ==
  /\ Importing(j) /\ "doc" \in DOMAIN Item(j)
  /\ LET r == Item(j) IN rows' = [rows EXCEPT !["target"][r.key][r.version] = r.doc]
  /\ Step(j, [job[j] EXCEPT !.at = @ + 1])
  /\ UNCHANGED <<labels, file>>

\* As InsertVersion, but the first conflict ends the rows.
InsertStopsAtConflict(j) ==
  /\ Importing(j) /\ "doc" \in DOMAIN Item(j)
  /\ LET r == Item(j) IN
     IF rows["target"][r.key][r.version] = None
     THEN /\ rows' = [rows EXCEPT !["target"][r.key][r.version] = r.doc]
          /\ Step(j, [job[j] EXCEPT !.at = @ + 1])
     ELSE UNCHANGED rows /\ Step(j, [job[j] EXCEPT !.at = Len(job[j].bundle.versions)])
  /\ UNCHANGED <<labels, file>>

\* A row that is there is left as it is: the conflict is swallowed.
InsertVersion(j) ==
  /\ Importing(j) /\ "doc" \in DOMAIN Item(j)
  /\ LET r == Item(j) IN
     rows' = IF rows["target"][r.key][r.version] # None THEN rows
             ELSE [rows EXCEPT !["target"][r.key][r.version] = r.doc]
  /\ Step(j, [job[j] EXCEPT !.at = @ + 1])
  /\ UNCHANGED <<labels, file>>

UpsertLabel(j) ==
  /\ Importing(j) /\ "label" \in DOMAIN Item(j)
  /\ LET p == Item(j) IN
     labels' = [labels EXCEPT !["target"][p.key][p.label] = p.version]
  /\ Step(j, [job[j] EXCEPT !.at = @ + 1])
  /\ UNCHANGED <<rows, file>>

Imported(j) ==
  /\ At(j, "import") /\ job[j].at = Len(Import(j))
  /\ Step(j, IF job[j].op = "migrate"
             THEN [job[j] EXCEPT !.pc = "keys", !.side = "target"]
             ELSE Finish(job[j], "ok"))
  /\ UNCHANGED <<stores, file>>

-----------------------------------------------------------------------------
\* migrate's report: the rows that did not arrive, and those whose stored hash is
\* another.

\* As Compare, but a row that is there counts as the same.
ComparePresence(j) ==
  /\ AllRead(j) /\ job[j].side = "target"
  /\ LET sent == Range(job[j].bundle.versions)
         there == Range(job[j].back.versions)
     IN Step(j, Finish([job[j] EXCEPT !.missing = {r \in sent :
          \A t \in there : r.key # t.key \/ r.version # t.version}], "report"))
  /\ UNCHANGED <<stores, file>>

Compare(j) ==
  /\ AllRead(j) /\ job[j].side = "target"
  /\ LET sent == Range(job[j].bundle.versions)
         there == Range(job[j].back.versions)
         Same(r, t) == r.key = t.key /\ r.version = t.version
     IN Step(j, Finish([job[j] EXCEPT
          !.missing = {r \in sent : \A t \in there : ~Same(r, t)},
          !.mismatched = {r \in sent : \E t \in there :
                            Same(r, t) /\ r.doc.sha256 # t.doc.sha256}], "report"))
  /\ UNCHANGED <<stores, file>>

\* A clean report: what makes the migrate verb exit with 0.
Verified(j) ==
  job[j].outcome = "report" /\ job[j].missing = {} /\ job[j].mismatched = {}

-----------------------------------------------------------------------------
\* Faults, and the users of both stores.

\* An await rejects, or the process dies.
AwaitRejects(j) ==
  /\ faults < MaxFaults /\ ~At(j, "done")
  /\ job' = [job EXCEPT ![j] = Finish([NoJob EXCEPT !.op = job[j].op], "rejected")]
  /\ faults' = faults + 1
  /\ UNCHANGED <<stores, file, watches, writes>>

\* The file at rest is edited: a row is dropped, its value is changed, with its hash
\* or without, or a label is.
EditFile ==
  /\ faults < MaxFaults
  /\ \/ \E i \in DOMAIN file.bundle.versions :
          \/ file' = [file EXCEPT !.bundle.versions = RemoveAt(@, i)]
          \/ \E v \in Values : file' = [file EXCEPT !.bundle.versions[i].doc.value = v]
          \/ \E v \in Values : file' = [file EXCEPT !.bundle.versions[i].doc = DocOf(v)]
     \/ \E i \in DOMAIN file.bundle.labels, n \in 1 .. MaxVersion :
          file' = [file EXCEPT !.bundle.labels[i].version = n]
  /\ edited' = TRUE /\ faults' = faults + 1
  /\ UNCHANGED <<stores, job, atStart, own, raced, unchecked, writes>>

\* A promote, between an export's reads of a key and of its labels, of a version
\* that the export has not read.
Races(s, k, n) == s = "source" /\ \E j \in Jobs :
  /\ At(j, "export") /\ job[j].side = s /\ job[j].reading = k /\ job[j].left # {}
  /\ \A r \in Range(job[j].bundle.versions) : <<r.key, r.version>> # <<k, n>>

AddVersion(s, k, v) ==
  /\ writes < MaxWrites
  /\ \E n \in 1 .. MaxVersion :
       /\ n = Max(Stored(s, k) \cup {0}) + 1
       /\ rows' = [rows EXCEPT ![s][k][n] = DocOf(v)]
       /\ own' = IF s = "target" THEN own \cup {<<k, n>>} ELSE own
  /\ writes' = writes + 1
  /\ UNCHANGED <<labels, file, job, atStart, raced, edited, unchecked, faults>>

\* A version once stored stays, so that looking for it and naming it are one step.
SetLabel(s, k, l, n) ==
  /\ n \in Stored(s, k)
  /\ labels' = [labels EXCEPT ![s][k][l] = n]

\* The promote and rollback verbs, or a store of the library.
Promote(s, k, l, n) ==
  /\ writes < MaxWrites
  /\ SetLabel(s, k, l, n)
  /\ raced' = (raced \/ Races(s, k, n))
  /\ writes' = writes + 1
  /\ UNCHANGED <<rows, file, job, atStart, own, edited, unchecked, faults>>

-----------------------------------------------------------------------------

Work(j) ==
  \/ ReadKeys(j) \/ ReadVersions(j) \/ ReadLabel(j)
  \/ Seal(j) \/ WriteBundle(j) \/ StartImport(j)
  \/ InsertVersion(j) \/ UpsertLabel(j) \/ Imported(j) \/ Compare(j)

Next ==
  \/ \E j \in Jobs :
       \/ BeginExport(j, "migrate", None) \/ BeginExport(j, "export", None)
       \/ \E s \in Secrets \cup {None} : BeginExport(j, "backup", s) \/ BeginRestore(j, s)
       \/ BeginImport(j)
       \/ Work(j) \/ AwaitRejects(j)
  \/ EditFile
  \/ \E s \in Sides, k \in Keys :
       \/ \E v \in Values : AddVersion(s, k, v)
       \/ \E l \in Labels, n \in 1 .. MaxVersion : Promote(s, k, l, n)

\* Every await settles.
Spec == Init /\ [][Next]_vars /\ \A j \in Jobs : WF_vars(Work(j))

-----------------------------------------------------------------------------
\* Properties.

\* Every variable has its type.
TypeOK ==
  /\ rows \in [Sides -> [Keys -> [1 .. MaxVersion -> Docs \cup {None}]]]
  /\ labels \in [Sides -> [Keys -> [Labels -> 0 .. MaxVersion]]]
  /\ \A b \in {file.bundle} \cup UNION {{job[j].bundle, job[j].back} : j \in Jobs} :
       Range(b.versions) \subseteq Row /\ Range(b.labels) \subseteq Pointer
  /\ \A j \in Jobs : job[j].at \in 0 .. Len(Import(j))
  /\ own \subseteq Keys \X (1 .. MaxVersion) /\ {raced, edited, unchecked} \subseteq BOOLEAN
  /\ writes \in 0 .. MaxWrites /\ faults \in 0 .. MaxFaults

\* A migrate whose report is clean has copied every row the source held when it
\* began, with its hash, and the copy is still there, whoever wrote to the
\* target before or since, and whatever earlier migrations left half done.  It is
\* the same value too, unless an import took an edited file: the report compares
\* the hashes that were stored and hashes nothing itself.
CleanReportIsCopied == \A j \in Jobs :
  Verified(j) => \A k \in Keys : \A n \in atStart[j][k] :
    /\ rows["target"][k][n] # None
    /\ rows["target"][k][n].sha256 = rows["source"][k][n].sha256
    /\ unchecked \/ Hash[rows["target"][k][n].value] = Hash[rows["source"][k][n].value]

\* A job adds what is missing and changes nothing else: no row that either side
\* holds, and no label of the source.
JobsOnlyAdd == [][
  /\ \A s \in Sides, k \in Keys, n \in 1 .. MaxVersion :
       rows[s][k][n] # None => rows'[s][k][n] = rows[s][k][n]
  /\ writes' = writes => rows'["source"] = rows["source"] /\ labels'["source"] = labels["source"]]_vars

\* What is on the target came from the source or from the target's own users:
\* no mixture of interrupted jobs puts anything else there, and no edited file
\* does but through the import verb.
TargetIsTraceable == unchecked \/ \A k \in Keys : \A n \in Stored("target", k) :
  <<k, n>> \in own \/ rows["target"][k][n] = rows["source"][k][n]

\* At every moment of every import, also one cut short, a label of the target
\* names a row the target holds, unless a version was added to the source and
\* promoted between the two reads of its key, or the import verb took an edited
\* file: rows are written before labels.
TargetLabelsResolve == raced \/ unchecked \/ \A k \in Keys, l \in Labels :
  labels["target"][k][l] # 0 => labels["target"][k][l] \in Stored("target", k)

\* Re-running after the last fault and the last write finishes the copy: whatever
\* a dead job left, the migrate ends, and the report misses nothing.
RerunCompletes == \A j \in Jobs :
  (At(j, "keys") /\ job[j].side = "source" /\ job[j].op = "migrate"
     /\ faults = MaxFaults /\ writes = MaxWrites)
  ~> (job[j].outcome = "report" /\ job[j].missing = {}
        /\ \A k \in Keys : Stored("source", k) \subseteq Stored("target", k))
=============================================================================
