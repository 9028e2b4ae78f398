--------------------------- MODULE MigrationProofs ---------------------------
(***************************************************************************)
(* Theorems about Migration for any keys, labels, values and jobs, any     *)
(* number of jobs at once, and any number of writes, rejections and edits. *)
(***************************************************************************)
EXTENDS Migration, SequenceTheorems, FiniteSetTheorems, WellFoundedInduction, TLAPS

-----------------------------------------------------------------------------
\* Sequences of rows and of pointers.

LEMMA SeqRange ==
  ASSUME NEW S, NEW s \in Seq(S)
  PROVE  /\ DOMAIN s = 1 .. Len(s) /\ Len(s) \in Nat /\ Range(s) \subseteq S
         /\ \A i \in 1 .. Len(s) : s[i] \in S /\ s[i] \in Range(s)
         /\ \A x \in Range(s) : \E i \in 1 .. Len(s) : s[i] = x
  BY RangeEquality, RangeOfSeq

LEMMA ConcatRange ==
  ASSUME NEW S, NEW s \in Seq(S), NEW t \in Seq(S)
  PROVE  s \o t \in Seq(S) /\ Range(s \o t) = Range(s) \cup Range(t)
  BY ConcatProperties, RangeConcatenation

LEMMA AppendRange ==
  ASSUME NEW S, NEW s \in Seq(S), NEW x \in S
  PROVE  Append(s, x) \in Seq(S) /\ Range(Append(s, x)) = Range(s) \cup {x}
<1> DEFINE u == Append(s, x)
<1>1. /\ u \in Seq(S) /\ Len(u) = Len(s) + 1 /\ Len(s) \in Nat
      /\ u[Len(s) + 1] = x /\ \A i \in 1 .. Len(s) : u[i] = s[i]
  BY AppendProperties
<1> HIDE DEF u
<1>2. Range(u) = {u[i] : i \in 1 .. Len(u)} /\ Range(s) = {s[i] : i \in 1 .. Len(s)}
  BY <1>1, RangeEquality
<1>3. 1 .. Len(u) = (1 .. Len(s)) \cup {Len(s) + 1}
  BY <1>1
<1>4. Range(u) = Range(s) \cup {x}
  BY <1>1, <1>2, <1>3
<1> QED
  BY <1>1, <1>4 DEF u

LEMMA RemoveAtTyped ==
  ASSUME NEW S, NEW s \in Seq(S), NEW i \in 1 .. Len(s)
  PROVE  RemoveAt(s, i) \in Seq(S)
<1>1. Len(s) \in Nat /\ \A n \in 1 .. Len(s) : s[n] \in S
  BY SeqRange
<1>2. SubSeq(s, 1, i - 1) \in Seq(S)
  <2>1. 1 \in Int /\ i - 1 \in Int /\ \A n \in 1 .. i - 1 : s[n] \in S
    BY <1>1
  <2> QED
    BY <2>1, SubSeqProperties
<1>3. SubSeq(s, i + 1, Len(s)) \in Seq(S)
  <2>1. i + 1 \in Int /\ Len(s) \in Int /\ \A n \in i + 1 .. Len(s) : s[n] \in S
    BY <1>1
  <2> QED
    BY <2>1, SubSeqProperties
<1> QED
  BY <1>2, <1>3, ConcatProperties DEF RemoveAt

-----------------------------------------------------------------------------
\* The versions of a key: their maximum, and their listing.

LEMMA StoredFinite ==
  ASSUME NEW s, NEW k
  PROVE  /\ Stored(s, k) \subseteq 1 .. MaxVersion /\ IsFiniteSet(Stored(s, k))
         /\ MaxVersion \in Nat
<1>1. 1 \in Int /\ MaxVersion \in Int /\ MaxVersion \in Nat
  BY MigrationAssumption
<1>2. IsFiniteSet(1 .. MaxVersion)
  BY <1>1, FS_Interval
<1>3. Stored(s, k) \in SUBSET (1 .. MaxVersion)
  BY DEF Stored
<1> QED
  BY <1>1, <1>2, <1>3, FS_Subset

LEMMA MaxIsAbove ==
  ASSUME NEW ns \in SUBSET (0 .. MaxVersion), ns # {}
  PROVE  Max(ns) \in ns /\ \A q \in ns : Max(ns) >= q
<1> DEFINE T == {x \in Nat : \E n \in ns : x = MaxVersion - n}
<1>0. MaxVersion \in Nat
  BY MigrationAssumption
<1>1. PICK n \in ns : TRUE
  OBVIOUS
<1>2. MaxVersion - n \in T
  BY <1>0
<1>3. PICK x \in T : \A y \in T : x <= y
  <2> DEFINE R == OpToRel(<, Nat)
  <2>1. IsWellFoundedOn(R, Nat)
    BY NatLessThanWellFounded
  <2>2. \E x \in T : \A y \in T : ~ (<<y, x>> \in R)
    <3>1. T \subseteq Nat /\ T # {}
      BY <1>2
    <3> HIDE DEF T, R
    <3> QED
      BY <2>1, <3>1, WFMin
  <2>3. \A x, y \in Nat : <<y, x>> \in R <=> y < x
    BY DEF OpToRel
  <2>4. T \subseteq Nat
    OBVIOUS
  <2> HIDE DEF T, R
  <2>5. PICK x \in T : \A y \in T : ~ (<<y, x>> \in R)
    BY <2>2
  <2>6. ASSUME NEW y \in T PROVE x <= y
    <3>1. x \in Nat /\ y \in Nat /\ ~ (y < x)
      BY <2>3, <2>4, <2>5
    <3> QED
      BY <3>1
  <2> QED
    BY <2>5, <2>6
<1>4. PICK m \in ns : x = MaxVersion - m
  OBVIOUS
<1>5. ASSUME NEW q \in ns PROVE m >= q
  <2>1. MaxVersion - q \in T
    BY <1>0
  <2>2. x <= MaxVersion - q
    BY <1>3, <2>1
  <2> QED
    BY <1>0, <1>4, <2>2
<1> QED
  BY <1>5 DEF Max

\* Every version of the key is listed, each where its rank puts it.
LEMMA ListedAll ==
  ASSUME NEW s, NEW k
  PROVE  /\ Range(ListVersionsDesc(s, k)) = {RowOf(s, k, n) : n \in Stored(s, k)}
         /\ DOMAIN ListVersionsDesc(s, k) = 1 .. Cardinality(Stored(s, k))
         /\ Cardinality(Stored(s, k)) \in Nat
<1> DEFINE S == Stored(s, k)
           C == Cardinality(S)
           Above(n) == {m \in S : m >= n}
           rank == [n \in S |-> Cardinality(Above(n))]
           pick(i) == CHOOSE n \in S : Cardinality(Above(n)) = i
           list == ListVersionsDesc(s, k)
<1>1. S \subseteq Nat /\ IsFiniteSet(S)
  BY StoredFinite
<1>2. C \in Nat
  BY <1>1, FS_CardinalityType
<1>3. list = [i \in 1 .. C |-> RowOf(s, k, pick(i))]
  BY DEF ListVersionsDesc
<1> HIDE DEF S
<1>4. ASSUME NEW n \in S
      PROVE  /\ IsFiniteSet(Above(n)) /\ Cardinality(Above(n)) \in 1 .. C
  <2>1. Above(n) \in SUBSET S /\ n \in Above(n)
    BY <1>1
  <2> HIDE DEF Above
  <2>2. IsFiniteSet(Above(n)) /\ Cardinality(Above(n)) <= C
    BY <1>1, <2>1, FS_Subset
  <2>3. Cardinality(Above(n)) \in Nat
    BY <2>2, FS_CardinalityType
  <2>4. Cardinality(Above(n)) # 0
    BY <2>1, <2>2, FS_EmptySet
  <2> QED
    BY <1>2, <2>2, <2>3, <2>4
<1>5. ASSUME NEW a \in S, NEW b \in S, Cardinality(Above(a)) = Cardinality(Above(b)), a < b
      PROVE  FALSE
  <2>0. \A m \in S : m \in Nat
    BY <1>1
  <2>1. Above(b) \in SUBSET Above(a) /\ a \in Above(a) /\ a \notin Above(b)
    <3>1. ASSUME NEW m \in S, m >= b PROVE m >= a
      BY <2>0, <1>5, <3>1
    <3>2. a >= a /\ ~ (a >= b)
      BY <2>0, <1>5
    <3> QED
      BY <3>1, <3>2
  <2>2. IsFiniteSet(Above(a))
    BY <1>4
  <2> HIDE DEF Above
  <2>3. Above(a) = Above(b)
    BY <1>5, <2>1, <2>2, FS_Subset
  <2> QED
    BY <2>1, <2>3
<1>6. ASSUME NEW a \in S, NEW b \in S, Cardinality(Above(a)) = Cardinality(Above(b))
      PROVE  a = b
  <2>1. a < b \/ b < a \/ a = b
    BY <1>1
  <2> HIDE DEF Above
  <2> QED
    BY <1>5, <1>6, <2>1
<1> HIDE DEF Above
<1>7. rank \in Injection(S, 1 .. C)
  <2>1. rank \in [S -> 1 .. C]
    BY <1>4
  <2>2. IsInjective(rank)
    BY <1>6 DEF IsInjective
  <2> HIDE DEF rank
  <2> QED
    BY <2>1, <2>2 DEF Injection
<1>8. ASSUME NEW i \in 1 .. C PROVE \E n \in S : Cardinality(Above(n)) = i
  <2>1. 1 \in Int /\ C \in Int
    BY <1>2
  <2>2. IsFiniteSet(1 .. C) /\ Cardinality(1 .. C) = IF 1 > C THEN 0 ELSE C - 1 + 1
    BY <2>1, FS_Interval
  <2>3. Cardinality(1 .. C) = C
    BY <1>2, <2>2
  <2> HIDE DEF rank
  <2>4. rank \in Surjection(S, 1 .. C)
    <3> HIDE DEF C
    <3>1. Cardinality(S) = Cardinality(1 .. C)
      BY <2>3 DEF C
    <3> QED
      BY <1>7, <2>2, <3>1, FS_Injection
  <2>5. \E n \in S : rank[n] = i
    BY <2>4 DEF Surjection
  <2> QED
    BY <2>5 DEF rank
<1>9. ASSUME NEW i \in 1 .. C PROVE pick(i) \in S /\ Cardinality(Above(pick(i))) = i
  BY <1>8
<1>10. DOMAIN list = 1 .. C /\ \A i \in 1 .. C : list[i] = RowOf(s, k, pick(i))
  BY <1>3
<1>11. ASSUME NEW n \in S PROVE \E i \in 1 .. C : pick(i) = n
  <2>1. Cardinality(Above(n)) \in 1 .. C
    BY <1>4
  <2>2. pick(Cardinality(Above(n))) = n
    <3>1. /\ pick(Cardinality(Above(n))) \in S
          /\ Cardinality(Above(pick(Cardinality(Above(n))))) = Cardinality(Above(n))
      BY <1>9, <2>1
    <3> HIDE DEF pick
    <3> QED
      BY <1>6, <3>1
  <2> QED
    BY <2>1, <2>2
<1> HIDE DEF pick, list, C
<1>12. Range(list) = {RowOf(s, k, n) : n \in S}
  BY <1>9, <1>10, <1>11 DEF Range
<1> QED
  BY <1>2, <1>10, <1>12 DEF S, C, list

-----------------------------------------------------------------------------
\* Types.

Bundles == [versions : Seq(Row), labels : Seq(Pointer)]

Hashes == (SUBSET Row) \X (SUBSET Pointer)

Files == [bundle : Bundles, contentHash : Hashes \cup {None},
          signature : ((Secrets \cup {None}) \X Hashes) \cup {None}]

JobRecords ==
  [op : {"none", "migrate", "export", "backup", "restore", "import"},
   pc : {"keys", "export", "import", "done"}, side : Sides,
   secret : Secrets \cup {None}, todo : SUBSET Keys, reading : Keys \cup {None},
   left : SUBSET Labels, bundle : Bundles, back : Bundles, at : Nat,
   missing : SUBSET Row, mismatched : SUBSET Row,
   outcome : {"none", "ok", "refused", "report", "rejected"}]

RowsTyped == rows \in [Sides -> [Keys -> [1 .. MaxVersion -> Docs \cup {None}]]]

LabelsTyped == labels \in [Sides -> [Keys -> [Labels -> 0 .. MaxVersion]]]

\* A job is a record; it reads labels of a key, and it imports no further than
\* its bundle goes.
JobsTyped ==
  /\ job \in [Jobs -> JobRecords]
  /\ \A j \in Jobs :
       /\ job[j].left # {} => job[j].reading \in Keys
       /\ job[j].at <= Len(job[j].bundle.versions) + Len(job[j].bundle.labels)

WatchesTyped ==
  /\ atStart \in [Jobs -> [Keys -> SUBSET (1 .. MaxVersion)]]
  /\ own \in SUBSET (Keys \X (1 .. MaxVersion))
  /\ raced \in BOOLEAN /\ edited \in BOOLEAN /\ unchecked \in BOOLEAN

CountersTyped == writes \in 0 .. MaxWrites /\ faults \in 0 .. MaxFaults

TInv ==
  RowsTyped /\ LabelsTyped /\ file \in Files /\ JobsTyped /\ WatchesTyped /\ CountersTyped

\* What is at one place of one side.
LEMMA PlaceTyped ==
  ASSUME RowsTyped, NEW s \in Sides, NEW k \in Keys, NEW n \in 1 .. MaxVersion
  PROVE  rows[s][k][n] \in Docs \cup {None}
<1>1. rows[s] \in [Keys -> [1 .. MaxVersion -> Docs \cup {None}]]
  BY DEF RowsTyped
<1>2. rows[s][k] \in [1 .. MaxVersion -> Docs \cup {None}]
  BY <1>1
<1> QED
  BY <1>2

LEMMA DocTyped ==
  ASSUME NEW v \in Values
  PROVE  DocOf(v) \in Docs /\ DocOf(v).sha256 = Hash[DocOf(v).value]
<1>1. Hash[v] \in Range(Hash)
  BY MigrationAssumption DEF Range
<1> QED
  BY <1>1 DEF DocOf, Docs

LEMMA EmptyBundle ==
  /\ NoBundle \in Bundles /\ Range(NoBundle.versions) = {} /\ Range(NoBundle.labels) = {}
  /\ Len(NoBundle.versions) = 0 /\ Len(NoBundle.labels) = 0
<1>1. << >> \in Seq(Row) /\ << >> \in Seq(Pointer) /\ Len(<< >>) = 0
  OBVIOUS
<1>2. Range(<< >>) = {}
  BY DEF Range
<1> QED
  BY <1>1, <1>2 DEF NoBundle, Bundles

LEMMA IdleJob ==
  /\ NoJob \in JobRecords
  /\ NoJob.op = "none" /\ NoJob.pc = "done" /\ NoJob.side = "source" /\ NoJob.left = {}
  /\ NoJob.todo = {} /\ NoJob.reading = None
  /\ NoJob.bundle = NoBundle /\ NoJob.back = NoBundle /\ NoJob.at = 0
  /\ NoJob.missing = {} /\ NoJob.mismatched = {} /\ NoJob.outcome = "none"
  /\ NoJob.secret = None
  BY EmptyBundle DEF NoJob, JobRecords, Sides

\* What is in a bundle of the right type.
LEMMA BundleTyped ==
  ASSUME NEW b \in Bundles
  PROVE  /\ b.versions \in Seq(Row) /\ b.labels \in Seq(Pointer)
         /\ Len(b.versions) \in Nat /\ Len(b.labels) \in Nat
         /\ Range(b.versions) \subseteq Row /\ Range(b.labels) \subseteq Pointer
         /\ ContentHashOf(b) \in Hashes
<1>1. b.versions \in Seq(Row) /\ b.labels \in Seq(Pointer)
  BY DEF Bundles
<1>2. Len(b.versions) \in Nat /\ Len(b.labels) \in Nat
  BY <1>1
<1>3. Range(b.versions) \subseteq Row /\ Range(b.labels) \subseteq Pointer
  BY <1>1, SeqRange
<1> QED
  BY <1>1, <1>2, <1>3 DEF ContentHashOf, Hashes

LEMMA SealTyped ==
  ASSUME NEW b \in Bundles, NEW s \in Secrets \cup {None}
  PROVE  /\ Plain(b) \in Files /\ Plain(b).bundle = b /\ Plain(b).contentHash = None
         /\ SealBundle(b, s) \in Files /\ SealBundle(b, s).bundle = b
         /\ SealBundle(b, s).contentHash = ContentHashOf(b)
<1>1. ContentHashOf(b) \in Hashes
  BY BundleTyped
<1> QED
  BY <1>1 DEF Plain, SealBundle, Files

\* The rows of a listing are those the side holds.
LEMMA ListedRows ==
  ASSUME RowsTyped, NEW s \in Sides, NEW k \in Keys
  PROVE  /\ ListVersionsDesc(s, k) \in Seq(Row)
         /\ \A r \in Range(ListVersionsDesc(s, k)) :
              r.key = k /\ r.version \in Stored(s, k) /\ r.doc = rows[s][k][r.version]
         /\ \A n \in Stored(s, k) :
              \E r \in Range(ListVersionsDesc(s, k)) : r.key = k /\ r.version = n
<1> DEFINE list == ListVersionsDesc(s, k)
           C == Cardinality(Stored(s, k))
<1>1. Range(list) = {RowOf(s, k, n) : n \in Stored(s, k)} /\ DOMAIN list = 1 .. C /\ C \in Nat
  BY ListedAll
<1>2. ASSUME NEW n \in Stored(s, k)
      PROVE  /\ RowOf(s, k, n) \in Row /\ RowOf(s, k, n).key = k
             /\ RowOf(s, k, n).version = n /\ RowOf(s, k, n).doc = rows[s][k][n]
  <2>1. n \in 1 .. MaxVersion /\ rows[s][k][n] # None
    BY DEF Stored
  <2>2. rows[s][k][n] \in Docs \cup {None}
    BY <2>1, PlaceTyped
  <2> QED
    BY <2>1, <2>2 DEF RowOf, Row
<1>3. list = [i \in 1 .. C |-> list[i]]
  BY DEF ListVersionsDesc
<1> HIDE DEF list, C
<1>4. \A i \in 1 .. C : list[i] \in Row
  BY <1>1, <1>2 DEF Range
<1>5. list \in Seq(Row)
  BY <1>1, <1>3, <1>4
<1> QED
  BY <1>1, <1>2, <1>5 DEF list

-----------------------------------------------------------------------------
\* What each action of a job makes of it.

Quiet == UNCHANGED <<watches, writes, faults>>

SameReport(new, jb) ==
  new.missing = jb.missing /\ new.mismatched = jb.mismatched /\ new.outcome = jb.outcome

SameBundles(new, jb) == new.bundle = jb.bundle /\ new.back = jb.back

SameReading(new, jb) == new.todo = jb.todo /\ new.reading = jb.reading /\ new.left = jb.left

Others(j) == \A i \in Jobs \ {j} : job'[i] = job[i]

LEMMA Moved ==
  ASSUME JobsTyped, NEW j \in Jobs, NEW new \in JobRecords, job' = [job EXCEPT ![j] = new]
  PROVE  job' \in [Jobs -> JobRecords] /\ job'[j] = new /\ Others(j)
  BY DEF JobsTyped, Others

\* A job that begins has nothing yet, or the bundle of the file.
BeginsAs(j, new) ==
  /\ new.side = "source" /\ new.todo = {} /\ new.left = {} /\ new.back = NoBundle
  /\ new.at = 0 /\ new.missing = {} /\ new.mismatched = {}
  /\ new.pc = "keys" => new.bundle = NoBundle /\ new.outcome = "none"
  /\ new.pc \in {"keys", "import", "done"}

LEMMA BeginExportShape ==
  ASSUME TInv, NEW j \in Jobs, NEW op \in {"migrate", "export", "backup"},
         NEW s \in Secrets \cup {None}, BeginExport(j, op, s)
  PROVE  /\ job' \in [Jobs -> JobRecords] /\ Others(j)
         /\ job'[j].op = op /\ job'[j].pc = "keys" /\ BeginsAs(j, job'[j])
         /\ job'[j].bundle = NoBundle /\ job'[j].outcome = "none"
         /\ UNCHANGED <<stores, file, own, raced, edited, unchecked, writes, faults>>
         /\ atStart' = [atStart EXCEPT ![j] = [k \in Keys |-> Stored("source", k)]]
<1> DEFINE new == [NoJob EXCEPT !.op = op, !.secret = s, !.pc = "keys"]
<1>1. /\ new \in JobRecords /\ new.op = op /\ new.pc = "keys"
      /\ new.side = "source" /\ new.todo = {} /\ new.left = {} /\ new.back = NoBundle
      /\ new.at = 0 /\ new.missing = {} /\ new.mismatched = {}
      /\ new.bundle = NoBundle /\ new.outcome = "none"
  BY IdleJob DEF JobRecords
<1>2. job' = [job EXCEPT ![j] = new]
  BY DEF BeginExport, Begin
<1> HIDE DEF new
<1>3. job' \in [Jobs -> JobRecords] /\ job'[j] = new /\ Others(j)
  BY <1>1, <1>2, Moved DEF TInv
<1> QED
  BY <1>1, <1>3 DEF BeginsAs, BeginExport, Begin

LEMMA BeginRestoreShape ==
  ASSUME TInv, NEW j \in Jobs, NEW s \in Secrets \cup {None}, BeginRestore(j, s)
  PROVE  /\ job' \in [Jobs -> JobRecords] /\ Others(j)
         /\ job'[j].op = "restore" /\ BeginsAs(j, job'[j])
         /\ \/ /\ job'[j].pc = "import" /\ job'[j].bundle = file.bundle
               /\ job'[j].outcome = "none" /\ ContentHashOf(file.bundle) = file.contentHash
            \/ /\ job'[j].pc = "done" /\ job'[j].bundle = NoBundle
               /\ job'[j].outcome = "refused"
         /\ UNCHANGED <<stores, file, own, raced, edited, unchecked, writes, faults>>
         /\ atStart' = [atStart EXCEPT ![j] = [k \in Keys |-> Stored("source", k)]]
<1> DEFINE base == [NoJob EXCEPT !.op = "restore", !.secret = s]
           yes == [base EXCEPT !.pc = "import", !.bundle = file.bundle]
           no == Finish(base, "refused")
           new == IF VerifyBundle(file, s) THEN yes ELSE no
<1>1. /\ base \in JobRecords /\ base.op = "restore"
      /\ base.side = "source" /\ base.todo = {} /\ base.left = {} /\ base.back = NoBundle
      /\ base.at = 0 /\ base.missing = {} /\ base.mismatched = {}
      /\ base.bundle = NoBundle /\ base.outcome = "none"
  BY IdleJob DEF JobRecords
<1>2. job' = [job EXCEPT ![j] = new]
  BY DEF BeginRestore, Begin
<1> HIDE DEF base
<1>3. file.bundle \in Bundles
  BY DEF TInv, Files
<1>4. /\ yes \in JobRecords /\ yes.op = "restore" /\ yes.pc = "import"
      /\ yes.side = "source" /\ yes.todo = {} /\ yes.left = {} /\ yes.back = NoBundle
      /\ yes.at = 0 /\ yes.missing = {} /\ yes.mismatched = {}
      /\ yes.bundle = file.bundle /\ yes.outcome = "none"
  BY <1>1, <1>3 DEF JobRecords
<1>5. /\ no \in JobRecords /\ no.op = "restore" /\ no.pc = "done"
      /\ no.side = "source" /\ no.todo = {} /\ no.left = {} /\ no.back = NoBundle
      /\ no.at = 0 /\ no.missing = {} /\ no.mismatched = {}
      /\ no.bundle = NoBundle /\ no.outcome = "refused"
  BY <1>1 DEF JobRecords, Finish
<1> HIDE DEF yes, no
<1>6. /\ new \in JobRecords /\ new.op = "restore" /\ BeginsAs(j, new)
      /\ \/ /\ new.pc = "import" /\ new.bundle = file.bundle
            /\ new.outcome = "none" /\ ContentHashOf(file.bundle) = file.contentHash
         \/ new.pc = "done" /\ new.bundle = NoBundle /\ new.outcome = "refused"
  BY <1>4, <1>5 DEF BeginsAs, VerifyBundle
<1> HIDE DEF new
<1>7. job' \in [Jobs -> JobRecords] /\ job'[j] = new /\ Others(j)
  BY <1>2, <1>6, Moved DEF TInv
<1> QED
  BY <1>6, <1>7 DEF BeginRestore, Begin

LEMMA BeginImportShape ==
  ASSUME TInv, NEW j \in Jobs, BeginImport(j)
  PROVE  /\ job' \in [Jobs -> JobRecords] /\ Others(j)
         /\ job'[j].op = "import" /\ job'[j].pc = "import" /\ BeginsAs(j, job'[j])
         /\ job'[j].bundle = file.bundle /\ job'[j].outcome = "none"
         /\ unchecked' = (unchecked \/ edited)
         /\ UNCHANGED <<stores, file, own, raced, edited, writes, faults>>
         /\ atStart' = [atStart EXCEPT ![j] = [k \in Keys |-> Stored("source", k)]]
<1> DEFINE new == [NoJob EXCEPT !.op = "import", !.pc = "import", !.bundle = file.bundle]
<1>1. file.bundle \in Bundles
  BY DEF TInv, Files
<1>2. /\ new \in JobRecords /\ new.op = "import" /\ new.pc = "import"
      /\ new.side = "source" /\ new.todo = {} /\ new.left = {} /\ new.back = NoBundle
      /\ new.at = 0 /\ new.missing = {} /\ new.mismatched = {}
      /\ new.bundle = file.bundle /\ new.outcome = "none"
  BY <1>1, IdleJob DEF JobRecords
<1>3. job' = [job EXCEPT ![j] = new]
  BY DEF BeginImport, Begin
<1> HIDE DEF new
<1>4. job' \in [Jobs -> JobRecords] /\ job'[j] = new /\ Others(j)
  BY <1>2, <1>3, Moved DEF TInv
<1> QED
  BY <1>2, <1>4 DEF BeginsAs, BeginImport, Begin

LEMMA JobTyped ==
  ASSUME TInv, NEW j \in Jobs
  PROVE  /\ job[j] \in JobRecords
         /\ job[j].todo \in SUBSET Keys /\ job[j].left \in SUBSET Labels
         /\ job[j].bundle \in Bundles /\ job[j].back \in Bundles
         /\ job[j].side \in Sides /\ job[j].secret \in Secrets \cup {None}
<1>1. job[j] \in JobRecords
  BY DEF TInv, JobsTyped
<1> QED
  BY <1>1 DEF JobRecords

LEMMA ReadsKey ==
  ASSUME TInv, NEW j \in Jobs, job[j].left # {}
  PROVE  job[j].reading \in Keys
  BY DEF TInv, JobsTyped

LEMMA AtTyped ==
  ASSUME TInv, NEW j \in Jobs
  PROVE  /\ job[j].at \in Nat
         /\ job[j].at <= Len(job[j].bundle.versions) + Len(job[j].bundle.labels)
<1>1. job[j] \in JobRecords
  BY JobTyped
<1>2. job[j].at <= Len(job[j].bundle.versions) + Len(job[j].bundle.labels)
  BY DEF TInv, JobsTyped
<1> QED
  BY <1>1, <1>2 DEF JobRecords

LEMMA StoredTyped ==
  ASSUME NEW s, NEW k
  PROVE  Stored(s, k) \in SUBSET (1 .. MaxVersion)
  BY DEF Stored

LEMMA ReadKeysShape ==
  ASSUME TInv, NEW j \in Jobs, ReadKeys(j)
  PROVE  /\ job' \in [Jobs -> JobRecords] /\ Others(j)
         /\ job[j].pc = "keys" /\ job'[j].pc = "export"
         /\ job'[j].op = job[j].op /\ job'[j].side = job[j].side /\ job'[j].at = job[j].at
         /\ SameReport(job'[j], job[j]) /\ SameBundles(job'[j], job[j])
         /\ job'[j].todo = DistinctKeys(job[j].side) /\ job'[j].left = job[j].left
         /\ job'[j].reading = job[j].reading
         /\ UNCHANGED <<stores, file>> /\ Quiet
<1> DEFINE new == [job[j] EXCEPT !.pc = "export", !.todo = DistinctKeys(job[j].side)]
<1>1. job[j] \in JobRecords
  BY JobTyped
<1>2. DistinctKeys(job[j].side) \in SUBSET Keys
  BY DEF DistinctKeys
<1>3. /\ new \in JobRecords /\ new.pc = "export"
      /\ new.op = job[j].op /\ new.side = job[j].side /\ new.at = job[j].at
      /\ SameReport(new, job[j]) /\ SameBundles(new, job[j])
      /\ new.todo = DistinctKeys(job[j].side) /\ new.left = job[j].left
      /\ new.reading = job[j].reading
  BY <1>1, <1>2 DEF JobRecords, SameReport, SameBundles
<1>4. job' = [job EXCEPT ![j] = new]
  BY DEF ReadKeys, Step
<1> HIDE DEF new
<1>5. job' \in [Jobs -> JobRecords] /\ job'[j] = new /\ Others(j)
  BY <1>3, <1>4, Moved DEF TInv
<1> QED
  BY <1>3, <1>5 DEF ReadKeys, Step, At, Quiet

\* A key's rows join the bundle of the side being read.
LEMMA ReadVersionsShape ==
  ASSUME TInv, NEW j \in Jobs, ReadVersions(j)
  PROVE  \E k \in job[j].todo :
         /\ job' \in [Jobs -> JobRecords] /\ Others(j)
         /\ job[j].pc = "export" /\ job[j].left = {} /\ job'[j].pc = "export"
         /\ job'[j].op = job[j].op /\ job'[j].side = job[j].side /\ job'[j].at = job[j].at
         /\ SameReport(job'[j], job[j])
         /\ job'[j].todo = job[j].todo \ {k} /\ job'[j].reading = k
         /\ job'[j].left = Exported
         /\ job[j].side = "source" =>
              /\ job'[j].back = job[j].back
              /\ job'[j].bundle.versions =
                   job[j].bundle.versions \o ListVersionsDesc("source", k)
              /\ job'[j].bundle.labels = job[j].bundle.labels
         /\ job[j].side # "source" =>
              /\ job'[j].bundle = job[j].bundle
              /\ job'[j].back.versions =
                   job[j].back.versions \o ListVersionsDesc("target", k)
              /\ job'[j].back.labels = job[j].back.labels
         /\ UNCHANGED <<stores, file>> /\ Quiet
<1> DEFINE jb == job[j]
           with(k) == [Reading(jb) EXCEPT !.versions = @ \o ListVersionsDesc(jb.side, k)]
           got(k) == Read(jb, with(k))
           new(k) == [got(k) EXCEPT !.reading = k, !.todo = @ \ {k}, !.left = Exported]
<1>1. PICK k \in jb.todo : job' = [job EXCEPT ![j] = new(k)]
  BY DEF ReadVersions, Step
<1>2. /\ jb \in JobRecords /\ jb.todo \in SUBSET Keys
      /\ jb.bundle \in Bundles /\ jb.back \in Bundles /\ jb.side \in Sides
  BY JobTyped
<1> HIDE DEF jb
<1>3. k \in Keys /\ ListVersionsDesc(jb.side, k) \in Seq(Row)
  BY <1>2, ListedRows DEF TInv
<1>4. /\ Reading(jb) \in Bundles
      /\ Reading(jb) = IF jb.side = "source" THEN jb.bundle ELSE jb.back
  BY <1>2 DEF Reading
<1>5. Reading(jb).versions \o ListVersionsDesc(jb.side, k) \in Seq(Row)
  BY <1>3, <1>4, BundleTyped, ConcatProperties
<1>6. /\ with(k) \in Bundles
      /\ with(k).versions = Reading(jb).versions \o ListVersionsDesc(jb.side, k)
      /\ with(k).labels = Reading(jb).labels
  BY <1>4, <1>5 DEF Bundles
<1> HIDE DEF with
<1>7. /\ got(k) \in JobRecords /\ got(k).pc = jb.pc /\ got(k).op = jb.op
      /\ got(k).side = jb.side /\ got(k).at = jb.at /\ SameReport(got(k), jb)
      /\ got(k).todo = jb.todo
      /\ jb.side = "source" => got(k).bundle = with(k) /\ got(k).back = jb.back
      /\ jb.side # "source" => got(k).back = with(k) /\ got(k).bundle = jb.bundle
  BY <1>2, <1>6 DEF Read, JobRecords, SameReport
<1> HIDE DEF got
<1>8. /\ new(k) \in JobRecords /\ new(k).pc = jb.pc /\ new(k).op = jb.op
      /\ new(k).side = jb.side /\ new(k).at = jb.at /\ SameReport(new(k), jb)
      /\ new(k).todo = jb.todo \ {k} /\ new(k).reading = k /\ new(k).left = Exported
      /\ new(k).bundle = got(k).bundle /\ new(k).back = got(k).back
  <2>1. Exported \in SUBSET Labels
    BY MigrationAssumption
  <2> QED
    BY <1>2, <1>3, <1>7, <2>1 DEF JobRecords, SameReport
<1> HIDE DEF new
<1>9. job' \in [Jobs -> JobRecords] /\ job'[j] = new(k) /\ Others(j)
  BY <1>1, <1>8, Moved DEF TInv
<1>10. jb.pc = "export" /\ jb.left = {} /\ UNCHANGED <<stores, file>> /\ Quiet
  BY DEF ReadVersions, Step, At, Quiet, jb
<1>11. jb.side # "source" => jb.side = "target"
  BY <1>2 DEF Sides
<1>12. /\ jb.side = "source" =>
            /\ new(k).back = jb.back
            /\ new(k).bundle.versions = jb.bundle.versions \o ListVersionsDesc("source", k)
            /\ new(k).bundle.labels = jb.bundle.labels
       /\ jb.side # "source" =>
            /\ new(k).bundle = jb.bundle
            /\ new(k).back.versions = jb.back.versions \o ListVersionsDesc("target", k)
            /\ new(k).back.labels = jb.back.labels
  BY <1>4, <1>6, <1>7, <1>8, <1>11
<1> QED
  BY <1>8, <1>9, <1>10, <1>12 DEF jb

\* A label that is set joins it too.
LEMMA ReadLabelShape ==
  ASSUME TInv, NEW j \in Jobs, ReadLabel(j)
  PROVE  \E l \in job[j].left :
         /\ job' \in [Jobs -> JobRecords] /\ Others(j)
         /\ job[j].pc = "export" /\ job'[j].pc = "export"
         /\ job'[j].op = job[j].op /\ job'[j].side = job[j].side /\ job'[j].at = job[j].at
         /\ SameReport(job'[j], job[j])
         /\ job'[j].todo = job[j].todo /\ job'[j].reading = job[j].reading
         /\ job'[j].left = job[j].left \ {l}
         /\ job[j].side = "source" =>
              /\ job'[j].back = job[j].back
              /\ job'[j].bundle.versions = job[j].bundle.versions
              /\ \/ job'[j].bundle.labels = job[j].bundle.labels
                 \/ \E p \in Pointer :
                      /\ p.key = job[j].reading /\ p.label = l
                      /\ p.version = labels["source"][job[j].reading][l]
                      /\ job'[j].bundle.labels = Append(job[j].bundle.labels, p)
         /\ job[j].side # "source" =>
              /\ job'[j].bundle = job[j].bundle
              /\ job'[j].back.versions = job[j].back.versions
         /\ UNCHANGED <<stores, file>> /\ Quiet
<1> DEFINE jb == job[j]
           named(l) == labels[jb.side][jb.reading][l]
           p(l) == [key |-> jb.reading, label |-> l, version |-> named(l)]
           with(l) == [Reading(jb) EXCEPT !.labels =
                         IF named(l) = 0 THEN @ ELSE Append(@, p(l))]
           got(l) == Read(jb, with(l))
           new(l) == [got(l) EXCEPT !.left = @ \ {l}]
<1>1. PICK l \in jb.left : job' = [job EXCEPT ![j] = new(l)]
  BY DEF ReadLabel, Step
<1>2. /\ jb \in JobRecords /\ jb.left \in SUBSET Labels
      /\ jb.bundle \in Bundles /\ jb.back \in Bundles /\ jb.side \in Sides
      /\ jb.left # {} => jb.reading \in Keys
  BY JobTyped, ReadsKey
<1> HIDE DEF jb
<1>3. named(l) \in 0 .. MaxVersion
  <2>1. jb.reading \in Keys /\ l \in Labels /\ jb.side \in Sides
    BY <1>2
  <2> QED
    BY <2>1 DEF TInv, LabelsTyped
<1> HIDE DEF named
<1>4. named(l) # 0 => /\ p(l) \in Pointer /\ p(l).key = jb.reading
                      /\ p(l).label = l /\ p(l).version = named(l)
  <2>1. named(l) # 0 => named(l) \in 1 .. MaxVersion
    BY <1>3, MigrationAssumption
  <2>2. jb.reading \in Keys /\ l \in Labels
    BY <1>2
  <2> QED
    BY <2>1, <2>2 DEF Pointer
<1> HIDE DEF p
<1>5. /\ Reading(jb) \in Bundles
      /\ Reading(jb) = IF jb.side = "source" THEN jb.bundle ELSE jb.back
  BY <1>2 DEF Reading
<1>6. named(l) # 0 => Append(Reading(jb).labels, p(l)) \in Seq(Pointer)
  BY <1>4, <1>5, BundleTyped, AppendProperties
<1>7. /\ with(l) \in Bundles /\ with(l).versions = Reading(jb).versions
      /\ \/ with(l).labels = Reading(jb).labels
         \/ named(l) # 0 /\ with(l).labels = Append(Reading(jb).labels, p(l))
  BY <1>5, <1>6 DEF Bundles
<1> HIDE DEF with
<1>8. /\ got(l) \in JobRecords /\ got(l).pc = jb.pc /\ got(l).op = jb.op
      /\ got(l).side = jb.side /\ got(l).at = jb.at /\ SameReport(got(l), jb)
      /\ SameReading(got(l), jb)
      /\ jb.side = "source" => got(l).bundle = with(l) /\ got(l).back = jb.back
      /\ jb.side # "source" => got(l).back = with(l) /\ got(l).bundle = jb.bundle
  BY <1>2, <1>7 DEF Read, JobRecords, SameReport, SameReading
<1> HIDE DEF got
<1>9. /\ new(l) \in JobRecords /\ new(l).pc = jb.pc /\ new(l).op = jb.op
      /\ new(l).side = jb.side /\ new(l).at = jb.at /\ SameReport(new(l), jb)
      /\ new(l).todo = jb.todo /\ new(l).reading = jb.reading /\ new(l).left = jb.left \ {l}
      /\ new(l).bundle = got(l).bundle /\ new(l).back = got(l).back
  BY <1>2, <1>8 DEF JobRecords, SameReport, SameReading
<1> HIDE DEF new
<1>10. job' \in [Jobs -> JobRecords] /\ job'[j] = new(l) /\ Others(j)
  BY <1>1, <1>9, Moved DEF TInv
<1>11. jb.pc = "export" /\ UNCHANGED <<stores, file>> /\ Quiet
  BY DEF ReadLabel, Step, At, Quiet, jb
<1>12. jb.side = "source" =>
         /\ new(l).back = jb.back /\ new(l).bundle.versions = jb.bundle.versions
         /\ \/ new(l).bundle.labels = jb.bundle.labels
            \/ \E q \in Pointer :
                 /\ q.key = jb.reading /\ q.label = l
                 /\ q.version = labels["source"][jb.reading][l]
                 /\ new(l).bundle.labels = Append(jb.bundle.labels, q)
  BY <1>4, <1>5, <1>7, <1>8, <1>9 DEF named
<1>13. jb.side # "source" =>
         new(l).bundle = jb.bundle /\ new(l).back.versions = jb.back.versions
  BY <1>5, <1>7, <1>8, <1>9
<1> QED
  BY <1>9, <1>10, <1>11, <1>12, <1>13 DEF jb

\* What was read becomes the file.
LEMMA KeepShape ==
  ASSUME TInv, NEW j \in Jobs, Seal(j) \/ WriteBundle(j)
  PROVE  /\ job' \in [Jobs -> JobRecords] /\ Others(j)
         /\ job[j].pc = "export" /\ job'[j].pc = "done" /\ job'[j].outcome = "ok"
         /\ job[j].op \in {"export", "backup"} /\ job'[j].op = job[j].op
         /\ job'[j].side = job[j].side /\ job'[j].at = job[j].at
         /\ SameBundles(job'[j], job[j]) /\ SameReading(job'[j], job[j])
         /\ file' \in Files /\ file'.bundle = job[j].bundle
         /\ \/ file'.contentHash = None
            \/ file'.contentHash = ContentHashOf(job[j].bundle)
         /\ edited' = FALSE
         /\ UNCHANGED <<stores, atStart, own, raced, unchecked, writes, faults>>
<1> DEFINE new == Finish(job[j], "ok")
<1>1. job[j] \in JobRecords /\ job[j].bundle \in Bundles /\ job[j].secret \in Secrets \cup {None}
  BY JobTyped
<1>2. /\ new \in JobRecords /\ new.pc = "done" /\ new.outcome = "ok"
      /\ new.op = job[j].op /\ new.side = job[j].side /\ new.at = job[j].at
      /\ SameBundles(new, job[j]) /\ SameReading(new, job[j])
  BY <1>1 DEF JobRecords, Finish, SameBundles, SameReading
<1>3. job' = [job EXCEPT ![j] = new]
  BY DEF Seal, WriteBundle, Keep
<1> HIDE DEF new
<1>4. job' \in [Jobs -> JobRecords] /\ job'[j] = new /\ Others(j)
  BY <1>2, <1>3, Moved DEF TInv
<1>5. /\ job[j].op \in {"export", "backup"} /\ job[j].pc = "export" /\ edited' = FALSE
      /\ UNCHANGED <<stores, atStart, own, raced, unchecked, writes, faults>>
      /\ \/ file' = SealBundle(job[j].bundle, job[j].secret)
         \/ file' = Plain(job[j].bundle)
  BY DEF Seal, WriteBundle, Keep, AllRead, At
<1> QED
  BY <1>1, <1>2, <1>4, <1>5, SealTyped

LEMMA StartImportShape ==
  ASSUME TInv, NEW j \in Jobs, StartImport(j)
  PROVE  /\ job' \in [Jobs -> JobRecords] /\ Others(j)
         /\ job[j].pc = "export" /\ job[j].todo = {} /\ job[j].left = {}
         /\ job[j].op = "migrate" /\ job[j].side = "source" /\ job'[j].pc = "import"
         /\ job'[j].op = job[j].op /\ job'[j].side = job[j].side /\ job'[j].at = job[j].at
         /\ SameReport(job'[j], job[j]) /\ SameBundles(job'[j], job[j])
         /\ SameReading(job'[j], job[j])
         /\ UNCHANGED <<stores, file>> /\ Quiet
<1> DEFINE new == [job[j] EXCEPT !.pc = "import"]
<1>1. job[j] \in JobRecords
  BY JobTyped
<1>2. /\ new \in JobRecords /\ new.pc = "import"
      /\ new.op = job[j].op /\ new.side = job[j].side /\ new.at = job[j].at
      /\ SameReport(new, job[j]) /\ SameBundles(new, job[j]) /\ SameReading(new, job[j])
  BY <1>1 DEF JobRecords, SameReport, SameBundles, SameReading
<1>3. job' = [job EXCEPT ![j] = new]
  BY DEF StartImport, Step
<1> HIDE DEF new
<1>4. job' \in [Jobs -> JobRecords] /\ job'[j] = new /\ Others(j)
  BY <1>2, <1>3, Moved DEF TInv
<1> QED
  BY <1>2, <1>4 DEF StartImport, Step, AllRead, At, Quiet

\* The rows come first, and then the labels.
LEMMA ItemShape ==
  ASSUME TInv, NEW j \in Jobs
  PROVE  /\ Len(Import(j)) = Len(job[j].bundle.versions) + Len(job[j].bundle.labels)
         /\ Len(job[j].bundle.versions) \in Nat /\ Len(job[j].bundle.labels) \in Nat
         /\ Importing(j) /\ "doc" \in DOMAIN Item(j) =>
              /\ job[j].at + 1 \in 1 .. Len(job[j].bundle.versions)
              /\ Item(j) = job[j].bundle.versions[job[j].at + 1]
              /\ Item(j) \in Row /\ Item(j) \in Range(job[j].bundle.versions)
         /\ Importing(j) /\ "label" \in DOMAIN Item(j) =>
              /\ job[j].at >= Len(job[j].bundle.versions)
              /\ Item(j) \in Pointer /\ Item(j) \in Range(job[j].bundle.labels)
<1> DEFINE vs == job[j].bundle.versions
           ls == job[j].bundle.labels
           n == job[j].at
<1>1. n \in Nat /\ job[j].bundle \in Bundles
  BY JobTyped, AtTyped
<1>2. vs \in Seq(Row) /\ ls \in Seq(Pointer) /\ Len(vs) \in Nat /\ Len(ls) \in Nat
  BY <1>1, BundleTyped
<1>3. Import(j) = vs \o ls /\ Item(j) = Import(j)[n + 1]
  BY DEF Import, Item
<1>4. Importing(j) => n < Len(Import(j))
  BY DEF Importing
<1> HIDE DEF vs, ls, n
<1>5. vs \in Seq(Row \cup Pointer) /\ ls \in Seq(Row \cup Pointer)
  <2>1. \A i \in 1 .. Len(vs) : vs[i] \in Row
    BY <1>2, SeqRange
  <2>2. \A i \in 1 .. Len(ls) : ls[i] \in Pointer
    BY <1>2, SeqRange
  <2> QED
    BY <1>2, <2>1, <2>2
<1>6. /\ Len(Import(j)) = Len(vs) + Len(ls)
      /\ \A i \in 1 .. Len(vs) + Len(ls) :
           Import(j)[i] = IF i <= Len(vs) THEN vs[i] ELSE ls[i - Len(vs)]
  BY <1>3, <1>5, ConcatProperties
<1>7. \A r \in Row : DOMAIN r = {"key", "version", "doc"}
  BY DEF Row
<1>8. \A p \in Pointer : DOMAIN p = {"key", "version", "label"}
  BY DEF Pointer
<1>9. ASSUME Importing(j), n + 1 <= Len(vs)
      PROVE  /\ n + 1 \in 1 .. Len(vs) /\ Item(j) = vs[n + 1]
             /\ Item(j) \in Row /\ Item(j) \in Range(vs)
  <2>1. n + 1 \in 1 .. Len(vs) /\ n + 1 \in 1 .. Len(vs) + Len(ls)
    BY <1>1, <1>2, <1>9 DEF n
  <2>2. Item(j) = vs[n + 1]
    BY <1>3, <1>6, <1>9, <2>1
  <2> QED
    BY <1>2, <2>1, <2>2, SeqRange
<1>10. ASSUME Importing(j), ~ (n + 1 <= Len(vs))
       PROVE  n >= Len(vs) /\ Item(j) \in Pointer /\ Item(j) \in Range(ls)
  <2>1. /\ n + 1 \in 1 .. Len(vs) + Len(ls) /\ n >= Len(vs)
        /\ (n + 1) - Len(vs) \in 1 .. Len(ls)
    BY <1>1, <1>2, <1>4, <1>6, <1>10 DEF n
  <2>2. Item(j) = ls[(n + 1) - Len(vs)]
    BY <1>3, <1>6, <1>10, <2>1
  <2> QED
    BY <1>2, <2>1, <2>2, SeqRange
<1>11. ASSUME Importing(j), "doc" \in DOMAIN Item(j) PROVE n + 1 <= Len(vs)
  <2>1. ~ (n + 1 <= Len(vs)) => Item(j) \in Pointer
    BY <1>10, <1>11
  <2> QED
    BY <1>8, <1>11, <2>1
<1>12. ASSUME Importing(j), "label" \in DOMAIN Item(j) PROVE ~ (n + 1 <= Len(vs))
  <2>1. n + 1 <= Len(vs) => Item(j) \in Row
    BY <1>9, <1>12
  <2> QED
    BY <1>7, <1>12, <2>1
<1> QED
  BY <1>2, <1>6, <1>9, <1>10, <1>11, <1>12 DEF vs, ls, n

\* A row or a label has been imported.
ImportedOne(j) ==
  /\ job' \in [Jobs -> JobRecords] /\ Others(j)
  /\ job[j].pc = "import" /\ job'[j].pc = "import"
  /\ job'[j].op = job[j].op /\ job'[j].side = job[j].side
  /\ job'[j].at = job[j].at + 1
  /\ SameReport(job'[j], job[j]) /\ SameBundles(job'[j], job[j])
  /\ SameReading(job'[j], job[j])
  /\ job'[j].at <= Len(job[j].bundle.versions) + Len(job[j].bundle.labels)
  /\ UNCHANGED file /\ Quiet

LEMMA ImportShape ==
  ASSUME TInv, NEW j \in Jobs, InsertVersion(j) \/ UpsertLabel(j)
  PROVE  ImportedOne(j)
<1> DEFINE new == [job[j] EXCEPT !.at = @ + 1]
<1>1. job[j] \in JobRecords /\ job[j].at \in Nat
  BY JobTyped, AtTyped
<1>2. job[j].at + 1 \in Nat
  BY <1>1
<1>3. /\ new \in JobRecords /\ new.pc = job[j].pc
      /\ new.op = job[j].op /\ new.side = job[j].side /\ new.at = job[j].at + 1
      /\ SameReport(new, job[j]) /\ SameBundles(new, job[j]) /\ SameReading(new, job[j])
  BY <1>1, <1>2 DEF JobRecords, SameReport, SameBundles, SameReading
<1>4. job' = [job EXCEPT ![j] = new]
  BY DEF InsertVersion, UpsertLabel, Step
<1> HIDE DEF new
<1>5. job' \in [Jobs -> JobRecords] /\ job'[j] = new /\ Others(j)
  BY <1>3, <1>4, Moved DEF TInv
<1>6. /\ job[j].pc = "import" /\ job[j].at < Len(Import(j))
      /\ UNCHANGED file /\ Quiet
  BY DEF InsertVersion, UpsertLabel, Step, Importing, At, Quiet
<1>7. job[j].at + 1 <= Len(job[j].bundle.versions) + Len(job[j].bundle.labels)
  <2>1. /\ Len(Import(j)) = Len(job[j].bundle.versions) + Len(job[j].bundle.labels)
        /\ Len(job[j].bundle.versions) \in Nat /\ Len(job[j].bundle.labels) \in Nat
    BY ItemShape
  <2>2. job[j].at + 1 <= Len(Import(j))
    <3>1. \A m, n \in Nat : m < n => m + 1 <= n
      OBVIOUS
    <3>2. Len(Import(j)) \in Nat
      <4>1. \A m, n \in Nat : m + n \in Nat
        OBVIOUS
      <4> QED
        BY <2>1, <4>1
    <3>3. job[j].at \in Nat /\ job[j].at < Len(Import(j))
      BY <1>1, <1>6
    <3> QED
      BY <3>1, <3>2, <3>3
  <2> QED
    BY <2>1, <2>2
<1> QED
  BY <1>3, <1>5, <1>6, <1>7 DEF ImportedOne

LEMMA ImportedShape ==
  ASSUME TInv, NEW j \in Jobs, Imported(j)
  PROVE  /\ job' \in [Jobs -> JobRecords] /\ Others(j)
         /\ job[j].pc = "import"
         /\ job'[j].op = job[j].op /\ job'[j].at = job[j].at
         /\ SameBundles(job'[j], job[j]) /\ SameReading(job'[j], job[j])
         /\ \/ /\ job[j].op = "migrate" /\ job'[j].pc = "keys" /\ job'[j].side = "target"
               /\ SameReport(job'[j], job[j])
            \/ /\ job[j].op # "migrate" /\ job'[j].pc = "done"
               /\ job'[j].side = job[j].side /\ job'[j].outcome = "ok"
         /\ UNCHANGED <<stores, file>> /\ Quiet
<1> DEFINE again == [job[j] EXCEPT !.pc = "keys", !.side = "target"]
           over == Finish(job[j], "ok")
           new == IF job[j].op = "migrate" THEN again ELSE over
<1>1. job[j] \in JobRecords
  BY JobTyped
<1>2. /\ again \in JobRecords /\ again.op = job[j].op /\ again.at = job[j].at
      /\ SameBundles(again, job[j]) /\ SameReading(again, job[j])
      /\ again.pc = "keys" /\ again.side = "target" /\ SameReport(again, job[j])
  BY <1>1 DEF JobRecords, SameReport, SameBundles, SameReading, Sides
<1>3. /\ over \in JobRecords /\ over.op = job[j].op /\ over.at = job[j].at
      /\ SameBundles(over, job[j]) /\ SameReading(over, job[j])
      /\ over.pc = "done" /\ over.side = job[j].side /\ over.outcome = "ok"
  BY <1>1 DEF JobRecords, Finish, SameBundles, SameReading
<1>4. job' = [job EXCEPT ![j] = new]
  BY DEF Imported, Step
<1> HIDE DEF again, over
<1>5. job' \in [Jobs -> JobRecords] /\ job'[j] = new /\ Others(j)
  BY <1>2, <1>3, <1>4, Moved DEF TInv
<1>6. job[j].pc = "import" /\ UNCHANGED <<stores, file>> /\ Quiet
  BY DEF Imported, Step, At, Quiet
<1> QED
  BY <1>2, <1>3, <1>5, <1>6

\* The report: both bundles stay, and it holds rows of the one that was sent.
LEMMA CompareShape ==
  ASSUME TInv, NEW j \in Jobs, Compare(j)
  PROVE  /\ job' \in [Jobs -> JobRecords] /\ Others(j)
         /\ job[j].pc = "export" /\ job'[j].pc = "done" /\ job'[j].outcome = "report"
         /\ job[j].side = "target" /\ job'[j].side = "target"
         /\ job'[j].op = job[j].op /\ job'[j].at = job[j].at
         /\ SameBundles(job'[j], job[j]) /\ SameReading(job'[j], job[j])
         /\ job'[j].missing = {r \in Range(job[j].bundle.versions) :
              \A t \in Range(job[j].back.versions) :
                ~ (r.key = t.key /\ r.version = t.version)}
         /\ job'[j].mismatched = {r \in Range(job[j].bundle.versions) :
              \E t \in Range(job[j].back.versions) :
                (r.key = t.key /\ r.version = t.version) /\ r.doc.sha256 # t.doc.sha256}
         /\ UNCHANGED <<stores, file>> /\ Quiet
<1> DEFINE sent == Range(job[j].bundle.versions)
           there == Range(job[j].back.versions)
           lost == {r \in sent : \A t \in there : ~ (r.key = t.key /\ r.version = t.version)}
           wrong == {r \in sent : \E t \in there :
                       (r.key = t.key /\ r.version = t.version) /\ r.doc.sha256 # t.doc.sha256}
           told == [job[j] EXCEPT !.missing = lost, !.mismatched = wrong]
           new == Finish(told, "report")
<1>1. job[j] \in JobRecords /\ job[j].bundle \in Bundles
  BY JobTyped
<1>2. job' = [job EXCEPT ![j] = new]
  BY DEF Compare, Step
<1>3. sent \subseteq Row
  BY <1>1, BundleTyped
<1> HIDE DEF sent, there
<1>4. lost \in SUBSET Row /\ wrong \in SUBSET Row
  BY <1>3
<1> HIDE DEF lost, wrong
<1>5. /\ told \in JobRecords /\ told.side = job[j].side /\ told.op = job[j].op
      /\ told.at = job[j].at /\ SameBundles(told, job[j]) /\ SameReading(told, job[j])
      /\ told.missing = lost /\ told.mismatched = wrong
  BY <1>1, <1>4 DEF JobRecords, SameBundles, SameReading
<1> HIDE DEF told
<1>6. /\ new \in JobRecords /\ new.side = job[j].side /\ new.op = job[j].op
      /\ new.at = job[j].at /\ SameBundles(new, job[j]) /\ SameReading(new, job[j])
      /\ new.missing = lost /\ new.mismatched = wrong
      /\ new.pc = "done" /\ new.outcome = "report"
  BY <1>5 DEF JobRecords, Finish, SameBundles, SameReading
<1> HIDE DEF new
<1>7. job' \in [Jobs -> JobRecords] /\ job'[j] = new /\ Others(j)
  BY <1>2, <1>6, Moved DEF TInv
<1>8. /\ job[j].pc = "export" /\ job[j].side = "target"
      /\ UNCHANGED <<stores, file>> /\ Quiet
  BY DEF Compare, Step, AllRead, At, Quiet
<1> QED
  BY <1>6, <1>7, <1>8 DEF lost, wrong, sent, there

\* A dead job leaves its name only.
LEMMA RejectShape ==
  ASSUME TInv, NEW j \in Jobs, AwaitRejects(j)
  PROVE  /\ job' \in [Jobs -> JobRecords] /\ Others(j)
         /\ job'[j].pc = "done" /\ job'[j].outcome = "rejected" /\ job'[j].op = job[j].op
         /\ BeginsAs(j, job'[j]) /\ job'[j].bundle = NoBundle
         /\ faults' = faults + 1 /\ faults < MaxFaults
         /\ UNCHANGED <<stores, file, watches, writes>>
<1> DEFINE base == [NoJob EXCEPT !.op = job[j].op]
           new == Finish(base, "rejected")
<1>1. job[j].op \in {"none", "migrate", "export", "backup", "restore", "import"}
  BY JobTyped DEF JobRecords
<1>2. /\ base \in JobRecords /\ base.op = job[j].op
      /\ base.side = "source" /\ base.todo = {} /\ base.left = {} /\ base.back = NoBundle
      /\ base.at = 0 /\ base.missing = {} /\ base.mismatched = {}
      /\ base.bundle = NoBundle
  BY <1>1, IdleJob DEF JobRecords
<1>3. job' = [job EXCEPT ![j] = new]
  BY DEF AwaitRejects
<1> HIDE DEF base
<1>4. /\ new \in JobRecords /\ new.op = job[j].op /\ new.pc = "done" /\ new.outcome = "rejected"
      /\ new.side = "source" /\ new.todo = {} /\ new.left = {} /\ new.back = NoBundle
      /\ new.at = 0 /\ new.missing = {} /\ new.mismatched = {}
      /\ new.bundle = NoBundle
  BY <1>2 DEF JobRecords, Finish
<1> HIDE DEF new
<1>5. job' \in [Jobs -> JobRecords] /\ job'[j] = new /\ Others(j)
  BY <1>3, <1>4, Moved DEF TInv
<1> QED
  BY <1>4, <1>5 DEF BeginsAs, AwaitRejects

-----------------------------------------------------------------------------
\* What a step does to the stores and to the file.

\* A row comes where none was.
RowPut(s, k, n, d) ==
  /\ RowsTyped' /\ rows[s][k][n] = None /\ rows'[s][k][n] = d
  /\ \A t \in Sides, q \in Keys, m \in 1 .. MaxVersion :
       ~ (t = s /\ q = k /\ m = n) => rows'[t][q][m] = rows[t][q][m]

LabelPut(s, k, l, n) ==
  /\ LabelsTyped' /\ labels'[s][k][l] = n
  /\ \A t \in Sides, q \in Keys, m \in Labels :
       ~ (t = s /\ q = k /\ m = l) => labels'[t][q][m] = labels[t][q][m]

LEMMA PutRow ==
  ASSUME RowsTyped, NEW s \in Sides, NEW k \in Keys, NEW n \in 1 .. MaxVersion,
         NEW d \in Docs, rows[s][k][n] = None, rows' = [rows EXCEPT ![s][k][n] = d]
  PROVE  RowPut(s, k, n, d)
<1> DEFINE V == 1 .. MaxVersion
           D == Docs \cup {None}
<1>1. rows \in [Sides -> [Keys -> [V -> D]]] /\ d \in D /\ n \in V
  BY DEF RowsTyped
<1>2. RowsTyped' <=> rows' \in [Sides -> [Keys -> [V -> D]]]
  BY DEF RowsTyped
<1>3. RowPut(s, k, n, d) <=>
        /\ RowsTyped' /\ rows[s][k][n] = None /\ rows'[s][k][n] = d
        /\ \A t \in Sides, q \in Keys, m \in V :
             ~ (t = s /\ q = k /\ m = n) => rows'[t][q][m] = rows[t][q][m]
  BY DEF RowPut
<1> HIDE DEF V, D
<1> QED
  BY <1>1, <1>2, <1>3

LEMMA PutLabel ==
  ASSUME LabelsTyped, NEW s \in Sides, NEW k \in Keys, NEW l \in Labels,
         NEW n \in 1 .. MaxVersion, labels' = [labels EXCEPT ![s][k][l] = n]
  PROVE  LabelPut(s, k, l, n)
<1> DEFINE V == 0 .. MaxVersion
<1>1. labels \in [Sides -> [Keys -> [Labels -> V]]]
  BY DEF LabelsTyped
<1>2. LabelsTyped' <=> labels' \in [Sides -> [Keys -> [Labels -> V]]]
  BY DEF LabelsTyped
<1>3. n \in V
  BY MigrationAssumption
<1> HIDE DEF V
<1> QED
  BY <1>1, <1>2, <1>3 DEF LabelPut

LEMMA InsertShape ==
  ASSUME TInv, NEW j \in Jobs, InsertVersion(j)
  PROVE  \E r \in Row :
         /\ job[j].at + 1 \in 1 .. Len(job[j].bundle.versions)
         /\ r = job[j].bundle.versions[job[j].at + 1]
         /\ r \in Range(job[j].bundle.versions)
         /\ \/ rows["target"][r.key][r.version] # None /\ UNCHANGED rows
            \/ RowPut("target", r.key, r.version, r.doc)
         /\ UNCHANGED labels
<1> DEFINE r == Item(j)
<1>1. Importing(j) /\ "doc" \in DOMAIN r /\ UNCHANGED labels
  BY DEF InsertVersion
<1>2. /\ job[j].at + 1 \in 1 .. Len(job[j].bundle.versions)
      /\ r = job[j].bundle.versions[job[j].at + 1]
      /\ r \in Row /\ r \in Range(job[j].bundle.versions)
  BY <1>1, ItemShape
<1>3. rows' = IF rows["target"][r.key][r.version] # None THEN rows
              ELSE [rows EXCEPT !["target"][r.key][r.version] = r.doc]
  BY DEF InsertVersion
<1> HIDE DEF r
<1>4. r.key \in Keys /\ r.version \in 1 .. MaxVersion /\ r.doc \in Docs
  BY <1>2 DEF Row
<1>5. "target" \in Sides /\ RowsTyped
  BY DEF Sides, TInv
<1>6. \/ rows["target"][r.key][r.version] # None /\ UNCHANGED rows
      \/ RowPut("target", r.key, r.version, r.doc)
  <2>1. CASE rows["target"][r.key][r.version] # None
    BY <1>3, <2>1
  <2>2. CASE rows["target"][r.key][r.version] = None
    <3>1. rows' = [rows EXCEPT !["target"][r.key][r.version] = r.doc]
      BY <1>3, <2>2
    <3> QED
      BY <1>4, <1>5, <2>2, <3>1, PutRow
  <2> QED
    BY <2>1, <2>2
<1> QED
  BY <1>1, <1>2, <1>6

LEMMA UpsertShape ==
  ASSUME TInv, NEW j \in Jobs, UpsertLabel(j)
  PROVE  \E p \in Pointer :
         /\ job[j].at >= Len(job[j].bundle.versions)
         /\ p \in Range(job[j].bundle.labels)
         /\ LabelPut("target", p.key, p.label, p.version)
         /\ UNCHANGED rows
<1> DEFINE p == Item(j)
<1>1. Importing(j) /\ "label" \in DOMAIN p /\ UNCHANGED rows
  BY DEF UpsertLabel
<1>2. /\ job[j].at >= Len(job[j].bundle.versions)
      /\ p \in Pointer /\ p \in Range(job[j].bundle.labels)
  BY <1>1, ItemShape
<1>3. labels' = [labels EXCEPT !["target"][p.key][p.label] = p.version]
  BY DEF UpsertLabel
<1> HIDE DEF p
<1>4. p.key \in Keys /\ p.label \in Labels /\ p.version \in 1 .. MaxVersion
  BY <1>2 DEF Pointer
<1>5. "target" \in Sides /\ LabelsTyped
  BY DEF Sides, TInv
<1>6. LabelPut("target", p.key, p.label, p.version)
  BY <1>3, <1>4, <1>5, PutLabel
<1> QED
  BY <1>1, <1>2, <1>6

\* A new version is above those that are stored, so it is not one of them.
LEMMA AddShape ==
  ASSUME TInv, NEW s \in Sides, NEW k \in Keys, NEW v \in Values, AddVersion(s, k, v)
  PROVE  /\ \E n \in 1 .. MaxVersion :
              /\ RowPut(s, k, n, DocOf(v))
              /\ own' = IF s = "target" THEN own \cup {<<k, n>>} ELSE own
         /\ writes' = writes + 1 /\ writes < MaxWrites
         /\ UNCHANGED <<labels, file, job, atStart, raced, edited, unchecked, faults>>
<1>1. PICK n \in 1 .. MaxVersion :
         /\ n = Max(Stored(s, k) \cup {0}) + 1
         /\ rows' = [rows EXCEPT ![s][k][n] = DocOf(v)]
         /\ own' = IF s = "target" THEN own \cup {<<k, n>>} ELSE own
  BY DEF AddVersion
<1>2. rows[s][k][n] = None
  <2> DEFINE ns == Stored(s, k) \cup {0}
  <2>1. ns \in SUBSET (0 .. MaxVersion) /\ ns # {}
    BY StoredFinite, MigrationAssumption
  <2>2. Max(ns) \in ns /\ \A q \in ns : Max(ns) >= q
    BY <2>1, MaxIsAbove
  <2>3. SUFFICES ASSUME rows[s][k][n] # None PROVE FALSE
    OBVIOUS
  <2>4. n \in ns
    BY <1>1, <2>3 DEF Stored
  <2>5. n = Max(ns) + 1
    BY <1>1
  <2> HIDE DEF ns
  <2>6. Max(ns) \in Nat
    <3>1. Max(ns) \in 0 .. MaxVersion
      BY <2>1, <2>2
    <3> QED
      BY <3>1, MigrationAssumption
  <2>7. Max(ns) >= n
    BY <2>2, <2>4
  <2> QED
    BY <2>5, <2>6, <2>7
<1>3. DocOf(v) \in Docs
  BY DocTyped
<1>4. RowPut(s, k, n, DocOf(v))
  BY <1>1, <1>2, <1>3, PutRow DEF TInv
<1> QED
  BY <1>1, <1>4 DEF AddVersion

LEMMA PromoteShape ==
  ASSUME TInv, NEW s \in Sides, NEW k \in Keys, NEW l \in Labels,
         NEW n \in 1 .. MaxVersion, Promote(s, k, l, n)
  PROVE  /\ rows[s][k][n] # None /\ LabelPut(s, k, l, n)
         /\ raced' = (raced \/ Races(s, k, n))
         /\ writes' = writes + 1 /\ writes < MaxWrites
         /\ UNCHANGED <<rows, file, job, atStart, own, edited, unchecked, faults>>
<1>1. rows[s][k][n] # None /\ labels' = [labels EXCEPT ![s][k][l] = n]
  BY DEF Promote, SetLabel, Stored
<1>2. LabelPut(s, k, l, n)
  BY <1>1, PutLabel DEF TInv
<1> QED
  BY <1>1, <1>2 DEF Promote

\* An edited file still has its type, and the hash it was sealed with.
LEMMA EditShape ==
  ASSUME TInv, EditFile
  PROVE  /\ file' \in Files /\ file'.contentHash = file.contentHash /\ edited' = TRUE
         /\ faults' = faults + 1 /\ faults < MaxFaults
         /\ UNCHANGED <<stores, job, atStart, own, raced, unchecked, writes>>
<1> DEFINE b == file.bundle
           vs == file.bundle.versions
           ls == file.bundle.labels
<1>1. file \in Files /\ b \in Bundles
  BY DEF TInv, Files
<1>2. vs \in Seq(Row) /\ ls \in Seq(Pointer)
  BY <1>1, BundleTyped
<1>3. /\ edited' = TRUE /\ faults' = faults + 1 /\ faults < MaxFaults
      /\ UNCHANGED <<stores, job, atStart, own, raced, unchecked, writes>>
  BY DEF EditFile
<1>4. ASSUME NEW ws \in Seq(Row), file' = [file EXCEPT !.bundle.versions = ws]
      PROVE  file' \in Files /\ file'.contentHash = file.contentHash
  BY <1>1, <1>4 DEF Files, Bundles
<1>5. ASSUME NEW ws \in Seq(Pointer), file' = [file EXCEPT !.bundle.labels = ws]
      PROVE  file' \in Files /\ file'.contentHash = file.contentHash
  BY <1>1, <1>5 DEF Files, Bundles
<1>6. ASSUME NEW i \in DOMAIN vs
      PROVE  /\ RemoveAt(vs, i) \in Seq(Row)
             /\ \A v \in Values :
                  /\ [vs EXCEPT ![i].doc.value = v] \in Seq(Row)
                  /\ [vs EXCEPT ![i].doc = DocOf(v)] \in Seq(Row)
  <2>1. i \in 1 .. Len(vs) /\ vs[i] \in Row
    BY <1>2, SeqRange
  <2>2. RemoveAt(vs, i) \in Seq(Row)
    BY <1>2, <2>1, RemoveAtTyped
  <2>3. ASSUME NEW v \in Values
        PROVE  /\ [vs[i] EXCEPT !.doc.value = v] \in Row
               /\ [vs[i] EXCEPT !.doc = DocOf(v)] \in Row
    BY <2>1, DocTyped DEF Row, Docs
  <2>4. ASSUME NEW v \in Values
        PROVE  /\ [vs EXCEPT ![i].doc.value = v] \in Seq(Row)
               /\ [vs EXCEPT ![i].doc = DocOf(v)] \in Seq(Row)
    BY <1>2, <2>1, <2>3, ExceptSeq
  <2> QED
    BY <2>2, <2>4
<1>7. ASSUME NEW i \in DOMAIN ls, NEW n \in 1 .. MaxVersion
      PROVE  [ls EXCEPT ![i].version = n] \in Seq(Pointer)
  <2>1. i \in 1 .. Len(ls) /\ ls[i] \in Pointer
    BY <1>2, SeqRange
  <2>2. [ls[i] EXCEPT !.version = n] \in Pointer
    BY <2>1 DEF Pointer
  <2> QED
    BY <1>2, <2>1, <2>2, ExceptSeq
<1>8. file' \in Files /\ file'.contentHash = file.contentHash
  <2>1. CASE \E i \in DOMAIN vs :
               \/ file' = [file EXCEPT !.bundle.versions = RemoveAt(@, i)]
               \/ \E v \in Values : file' = [file EXCEPT !.bundle.versions[i].doc.value = v]
               \/ \E v \in Values : file' = [file EXCEPT !.bundle.versions[i].doc = DocOf(v)]
    <3>1. PICK i \in DOMAIN vs :
               \/ file' = [file EXCEPT !.bundle.versions = RemoveAt(@, i)]
               \/ \E v \in Values : file' = [file EXCEPT !.bundle.versions[i].doc.value = v]
               \/ \E v \in Values : file' = [file EXCEPT !.bundle.versions[i].doc = DocOf(v)]
      BY <2>1
    <3>2. CASE file' = [file EXCEPT !.bundle.versions = RemoveAt(@, i)]
      BY <1>4, <1>6, <3>2
    <3>3. CASE \E v \in Values : file' = [file EXCEPT !.bundle.versions[i].doc.value = v]
      <4>1. PICK v \in Values : file' = [file EXCEPT !.bundle.versions[i].doc.value = v]
        BY <3>3
      <4>2. file' = [file EXCEPT !.bundle.versions = [vs EXCEPT ![i].doc.value = v]]
        BY <4>1
      <4> QED
        BY <1>4, <1>6, <4>2
    <3>4. CASE \E v \in Values : file' = [file EXCEPT !.bundle.versions[i].doc = DocOf(v)]
      <4>1. PICK v \in Values : file' = [file EXCEPT !.bundle.versions[i].doc = DocOf(v)]
        BY <3>4
      <4>2. file' = [file EXCEPT !.bundle.versions = [vs EXCEPT ![i].doc = DocOf(v)]]
        BY <4>1
      <4> QED
        BY <1>4, <1>6, <4>2
    <3> QED
      BY <3>1, <3>2, <3>3, <3>4
  <2>2. CASE \E i \in DOMAIN ls, n \in 1 .. MaxVersion :
               file' = [file EXCEPT !.bundle.labels[i].version = n]
    <3>1. PICK i \in DOMAIN ls, n \in 1 .. MaxVersion :
               file' = [file EXCEPT !.bundle.labels[i].version = n]
      BY <2>2
    <3>2. file' = [file EXCEPT !.bundle.labels = [ls EXCEPT ![i].version = n]]
      BY <3>1
    <3> QED
      BY <1>5, <1>7, <3>2
  <2> QED
    BY <2>1, <2>2 DEF EditFile
<1> QED
  BY <1>3, <1>8

-----------------------------------------------------------------------------
\* The kinds of step, and what every one of them leaves.

LEMMA Kinds ==
  ASSUME Next
  PROVE  \/ \E j \in Jobs :
              \/ \E op \in {"migrate", "export", "backup"}, s \in Secrets \cup {None} :
                   BeginExport(j, op, s)
              \/ \E s \in Secrets \cup {None} : BeginRestore(j, s)
              \/ BeginImport(j)
              \/ ReadKeys(j) \/ ReadVersions(j) \/ ReadLabel(j)
              \/ (Seal(j) \/ WriteBundle(j)) \/ StartImport(j)
              \/ InsertVersion(j) \/ UpsertLabel(j) \/ Imported(j) \/ Compare(j)
              \/ AwaitRejects(j)
         \/ EditFile
         \/ \E s \in Sides, k \in Keys, v \in Values : AddVersion(s, k, v)
         \/ \E s \in Sides, k \in Keys, l \in Labels, n \in 1 .. MaxVersion :
              Promote(s, k, l, n)
  BY DEF Next, Work

\* The rows stay what they are, or one comes: imported by a job from its bundle,
\* or written by a user.
RowsSame == UNCHANGED rows

RowImported ==
  \E j \in Jobs : \E r \in Range(job[j].bundle.versions) :
    /\ r \in Row /\ job[j].pc = "import" /\ RowPut("target", r.key, r.version, r.doc)
    /\ UNCHANGED own

RowWritten ==
  \E s \in Sides, k \in Keys, n \in 1 .. MaxVersion, v \in Values :
    /\ RowPut(s, k, n, DocOf(v))
    /\ own' = IF s = "target" THEN own \cup {<<k, n>>} ELSE own

LEMMA RowsKinds ==
  ASSUME TInv, Next
  PROVE  (RowsSame /\ UNCHANGED own) \/ RowImported \/ RowWritten
<1>1. ASSUME NEW j \in Jobs, NEW op \in {"migrate", "export", "backup"},
             NEW s \in Secrets \cup {None}, BeginExport(j, op, s)
      PROVE  RowsSame /\ UNCHANGED own
  BY <1>1 DEF BeginExport, Begin, stores, RowsSame
<1>2. ASSUME NEW j \in Jobs, NEW s \in Secrets \cup {None}, BeginRestore(j, s)
      PROVE  RowsSame /\ UNCHANGED own
  BY <1>2 DEF BeginRestore, Begin, stores, RowsSame
<1>3. ASSUME NEW j \in Jobs, BeginImport(j) PROVE RowsSame /\ UNCHANGED own
  BY <1>3 DEF BeginImport, Begin, stores, RowsSame
<1>4. ASSUME NEW j \in Jobs,
             \/ ReadKeys(j) \/ ReadVersions(j) \/ ReadLabel(j) \/ StartImport(j)
             \/ UpsertLabel(j) \/ Imported(j) \/ Compare(j)
      PROVE  RowsSame /\ UNCHANGED own
  BY <1>4 DEF ReadKeys, ReadVersions, ReadLabel, StartImport, UpsertLabel, Imported, Compare,
              Step, stores, watches, RowsSame
<1>5. ASSUME NEW j \in Jobs, Seal(j) \/ WriteBundle(j) PROVE RowsSame /\ UNCHANGED own
  BY <1>5 DEF Seal, WriteBundle, Keep, stores, RowsSame
<1>6. ASSUME NEW j \in Jobs, InsertVersion(j)
      PROVE  (RowsSame /\ UNCHANGED own) \/ RowImported
  <2>1. UNCHANGED own
    BY <1>6 DEF InsertVersion, Step, watches
  <2>2. job[j].pc = "import"
    BY <1>6 DEF InsertVersion, Importing, At
  <2>3. PICK r \in Row :
          /\ r \in Range(job[j].bundle.versions)
          /\ \/ rows["target"][r.key][r.version] # None /\ UNCHANGED rows
             \/ RowPut("target", r.key, r.version, r.doc)
    BY <1>6, InsertShape
  <2> QED
    BY <2>1, <2>2, <2>3 DEF RowImported, RowsSame
<1>7. ASSUME NEW j \in Jobs, AwaitRejects(j) PROVE RowsSame /\ UNCHANGED own
  BY <1>7 DEF AwaitRejects, stores, watches, RowsSame
<1>8. ASSUME EditFile PROVE RowsSame /\ UNCHANGED own
  BY <1>8 DEF EditFile, stores, RowsSame
<1>9. ASSUME NEW s \in Sides, NEW k \in Keys, NEW v \in Values, AddVersion(s, k, v)
      PROVE  RowWritten
  <2>1. PICK n \in 1 .. MaxVersion :
          /\ RowPut(s, k, n, DocOf(v))
          /\ own' = IF s = "target" THEN own \cup {<<k, n>>} ELSE own
    BY <1>9, AddShape
  <2> QED
    BY <2>1 DEF RowWritten
<1>10. ASSUME NEW s \in Sides, NEW k \in Keys, NEW l \in Labels, NEW n \in 1 .. MaxVersion,
              Promote(s, k, l, n)
       PROVE  RowsSame /\ UNCHANGED own
  BY <1>10 DEF Promote, RowsSame
<1> QED
  BY <1>1, <1>2, <1>3, <1>4, <1>5, <1>6, <1>7, <1>8, <1>9, <1>10, Kinds

\* No row that either side holds is changed, by any step.
RowsStay ==
  \A s \in Sides, k \in Keys, n \in 1 .. MaxVersion :
    rows[s][k][n] # None => rows'[s][k][n] = rows[s][k][n]

LEMMA RowsKept ==
  ASSUME TInv, [Next]_vars
  PROVE  RowsStay /\ RowsTyped'
<1>1. CASE UNCHANGED vars
  BY <1>1 DEF vars, stores, RowsStay, TInv, RowsTyped
<1>2. CASE Next
  <2>1. CASE RowsSame
    BY <2>1 DEF RowsSame, RowsStay, TInv, RowsTyped
  <2>2. CASE RowImported
    <3>1. PICK r \in Row : RowPut("target", r.key, r.version, r.doc)
      BY <2>2 DEF RowImported
    <3> QED
      BY <3>1 DEF RowPut, RowsStay
  <2>3. CASE RowWritten
    <3>1. PICK s \in Sides, k \in Keys, n \in 1 .. MaxVersion, v \in Values :
            RowPut(s, k, n, DocOf(v))
      BY <2>3 DEF RowWritten
    <3> QED
      BY <3>1 DEF RowPut, RowsStay
  <2> QED
    BY <1>2, <2>1, <2>2, <2>3, RowsKinds
<1> QED
  BY <1>1, <1>2

-----------------------------------------------------------------------------
\* Every variable keeps its type.

LEMMA TypedFrom ==
  ASSUME TInv, NEW j \in Jobs, job' \in [Jobs -> JobRecords], Others(j),
         job'[j].left # {} => job'[j].reading \in Keys,
         job'[j].at <= Len(job'[j].bundle.versions) + Len(job'[j].bundle.labels)
  PROVE  JobsTyped'
<1>1. ASSUME NEW i \in Jobs
      PROVE  /\ job'[i].left # {} => job'[i].reading \in Keys
             /\ job'[i].at <= Len(job'[i].bundle.versions) + Len(job'[i].bundle.labels)
  <2>1. CASE i = j
    BY <2>1
  <2>2. CASE i # j
    <3>1. job'[i] = job[i]
      BY <2>2 DEF Others
    <3>2. /\ job[i].left # {} => job[i].reading \in Keys
          /\ job[i].at <= Len(job[i].bundle.versions) + Len(job[i].bundle.labels)
      BY AtTyped, ReadsKey
    <3> QED
      BY <3>1, <3>2
  <2> QED
    BY <2>1, <2>2
<1> QED
  BY <1>1 DEF JobsTyped

LEMMA StartTyped ==
  ASSUME TInv, NEW j \in Jobs,
         atStart' = [atStart EXCEPT ![j] = [k \in Keys |-> Stored("source", k)]],
         UNCHANGED <<own, raced, edited>>, unchecked' \in BOOLEAN
  PROVE  WatchesTyped'
<1>1. [k \in Keys |-> Stored("source", k)] \in [Keys -> SUBSET (1 .. MaxVersion)]
  BY StoredTyped
<1>2. atStart \in [Jobs -> [Keys -> SUBSET (1 .. MaxVersion)]]
  BY DEF TInv, WatchesTyped
<1>3. atStart' \in [Jobs -> [Keys -> SUBSET (1 .. MaxVersion)]]
  BY <1>1, <1>2
<1> QED
  BY <1>3 DEF TInv, WatchesTyped

LEMMA BeginTyped ==
  ASSUME TInv, NEW j \in Jobs, job' \in [Jobs -> JobRecords], Others(j), BeginsAs(j, job'[j])
  PROVE  JobsTyped'
<1>1. job'[j].bundle \in Bundles
  BY DEF JobRecords
<1>2. Len(job'[j].bundle.versions) \in Nat /\ Len(job'[j].bundle.labels) \in Nat
  BY <1>1, BundleTyped
<1>3. job'[j].left = {} /\ job'[j].at = 0
  BY DEF BeginsAs
<1>4. \A m, n \in Nat : 0 <= m + n
  OBVIOUS
<1>5. job'[j].at <= Len(job'[j].bundle.versions) + Len(job'[j].bundle.labels)
  BY <1>2, <1>3, <1>4
<1> QED
  BY <1>3, <1>5, TypedFrom

\* A job whose bundle and labels to read stay is within them still.
LEMMA SameTyped ==
  ASSUME TInv, NEW j \in Jobs, job' \in [Jobs -> JobRecords], Others(j),
         job'[j].left = job[j].left, job'[j].reading = job[j].reading,
         job'[j].bundle = job[j].bundle, job'[j].at = job[j].at
  PROVE  JobsTyped'
<1>1. job'[j].left # {} => job'[j].reading \in Keys
  BY ReadsKey
<1>2. job'[j].at <= Len(job'[j].bundle.versions) + Len(job'[j].bundle.labels)
  BY AtTyped
<1> QED
  BY <1>1, <1>2, TypedFrom

LEMMA QuietTyped ==
  ASSUME TInv, Quiet
  PROVE  WatchesTyped' /\ CountersTyped'
  BY DEF TInv, Quiet, watches, WatchesTyped, CountersTyped

LEMMA StoresTyped ==
  ASSUME TInv, UNCHANGED stores
  PROVE  RowsTyped' /\ LabelsTyped'
  BY DEF TInv, stores, RowsTyped, LabelsTyped

LEMMA BoundedUp ==
  ASSUME NEW m \in Nat, NEW n \in 0 .. m, n < m
  PROVE  n + 1 \in 0 .. m
  OBVIOUS

LEMMA TInvInit ==
  ASSUME Init
  PROVE  TInv
<1>1. PICK held \in [Keys -> UNION {[1 .. n -> Values] : n \in 0 .. MaxVersion}] :
         /\ rows = [s \in Sides |-> [k \in Keys |-> [n \in 1 .. MaxVersion |->
              IF s = "source" /\ n \in DOMAIN held[k] THEN DocOf(held[k][n]) ELSE None]]]
         /\ labels \in [Sides -> [Keys -> [Labels -> 0 .. MaxVersion]]]
  BY DEF Init
<1>2. ASSUME NEW k \in Keys, NEW n \in DOMAIN held[k] PROVE DocOf(held[k][n]) \in Docs
  <2>1. held[k] \in UNION {[1 .. m -> Values] : m \in 0 .. MaxVersion}
    OBVIOUS
  <2>2. held[k][n] \in Values
    BY <2>1
  <2> QED
    BY <2>2, DocTyped
<1>3. RowsTyped
  <2> DEFINE put(s, k, n) == IF s = "source" /\ n \in DOMAIN held[k]
                             THEN DocOf(held[k][n]) ELSE None
  <2>1. \A s \in Sides, k \in Keys, n \in 1 .. MaxVersion : put(s, k, n) \in Docs \cup {None}
    BY <1>2
  <2>2. rows = [s \in Sides |-> [k \in Keys |-> [n \in 1 .. MaxVersion |-> put(s, k, n)]]]
    BY <1>1
  <2> HIDE DEF put
  <2> QED
    BY <2>1, <2>2 DEF RowsTyped
<1>4. LabelsTyped
  BY <1>1 DEF LabelsTyped
<1>5. file \in Files
  BY EmptyBundle, SealTyped DEF Init
<1>6. job \in [Jobs -> JobRecords] /\ \A j \in Jobs : job[j] = NoJob
  BY IdleJob DEF Init
<1>7. JobsTyped
  <2>1. Len(NoBundle.versions) + Len(NoBundle.labels) = 0
    BY EmptyBundle
  <2>2. ASSUME NEW j \in Jobs
        PROVE  /\ job[j].left = {} /\ job[j].at = 0
               /\ Len(job[j].bundle.versions) + Len(job[j].bundle.labels) = 0
    BY <1>6, <2>1, IdleJob
  <2>3. 0 <= 0
    OBVIOUS
  <2>4. ASSUME NEW j \in Jobs
        PROVE  job[j].at <= Len(job[j].bundle.versions) + Len(job[j].bundle.labels)
    BY <2>2, <2>3
  <2> QED
    BY <1>6, <2>2, <2>4 DEF JobsTyped
<1>8. WatchesTyped
  <2>1. atStart = [j \in Jobs |-> [k \in Keys |-> {}]]
    BY DEF Init
  <2>2. atStart \in [Jobs -> [Keys -> SUBSET (1 .. MaxVersion)]]
    BY <2>1
  <2> QED
    BY <2>2 DEF Init, WatchesTyped
<1>9. CountersTyped
  BY MigrationAssumption DEF Init, CountersTyped
<1> QED
  BY <1>3, <1>4, <1>5, <1>7, <1>8, <1>9 DEF TInv

LEMMA TInvNext ==
  ASSUME TInv, [Next]_vars
  PROVE  TInv'
<1>0. RowsTyped'
  BY RowsKept
<1>1. ASSUME NEW j \in Jobs, NEW op \in {"migrate", "export", "backup"},
             NEW s \in Secrets \cup {None}, BeginExport(j, op, s)
      PROVE  TInv'
  <2>1. /\ job' \in [Jobs -> JobRecords] /\ Others(j) /\ BeginsAs(j, job'[j])
        /\ UNCHANGED <<stores, file, own, raced, edited, unchecked, writes, faults>>
        /\ atStart' = [atStart EXCEPT ![j] = [k \in Keys |-> Stored("source", k)]]
    BY <1>1, BeginExportShape
  <2>2. unchecked' \in BOOLEAN
    BY <2>1 DEF TInv, WatchesTyped
  <2>3. WatchesTyped' /\ JobsTyped' /\ LabelsTyped'
    BY <2>1, <2>2, StartTyped, BeginTyped, StoresTyped
  <2> QED
    BY <1>0, <2>1, <2>3 DEF TInv, CountersTyped
<1>2. ASSUME NEW j \in Jobs, NEW s \in Secrets \cup {None}, BeginRestore(j, s)
      PROVE  TInv'
  <2>1. /\ job' \in [Jobs -> JobRecords] /\ Others(j) /\ BeginsAs(j, job'[j])
        /\ UNCHANGED <<stores, file, own, raced, edited, unchecked, writes, faults>>
        /\ atStart' = [atStart EXCEPT ![j] = [k \in Keys |-> Stored("source", k)]]
    BY <1>2, BeginRestoreShape
  <2>2. unchecked' \in BOOLEAN
    BY <2>1 DEF TInv, WatchesTyped
  <2>3. WatchesTyped' /\ JobsTyped' /\ LabelsTyped'
    BY <2>1, <2>2, StartTyped, BeginTyped, StoresTyped
  <2> QED
    BY <1>0, <2>1, <2>3 DEF TInv, CountersTyped
<1>3. ASSUME NEW j \in Jobs, BeginImport(j)
      PROVE  TInv'
  <2>1. /\ job' \in [Jobs -> JobRecords] /\ Others(j) /\ BeginsAs(j, job'[j])
        /\ unchecked' = (unchecked \/ edited)
        /\ UNCHANGED <<stores, file, own, raced, edited, writes, faults>>
        /\ atStart' = [atStart EXCEPT ![j] = [k \in Keys |-> Stored("source", k)]]
    BY <1>3, BeginImportShape
  <2>2. unchecked' \in BOOLEAN
    BY <2>1
  <2>3. WatchesTyped' /\ JobsTyped' /\ LabelsTyped'
    BY <2>1, <2>2, StartTyped, BeginTyped, StoresTyped
  <2> QED
    BY <1>0, <2>1, <2>3 DEF TInv, CountersTyped
<1>4. ASSUME NEW j \in Jobs, ReadKeys(j) PROVE TInv'
  <2>1. /\ job' \in [Jobs -> JobRecords] /\ Others(j)
        /\ job'[j].at = job[j].at /\ SameBundles(job'[j], job[j])
        /\ job'[j].left = job[j].left /\ job'[j].reading = job[j].reading
        /\ UNCHANGED <<stores, file>> /\ Quiet
    BY <1>4, ReadKeysShape
  <2>2. JobsTyped'
    BY <2>1, SameTyped DEF SameBundles
  <2> QED
    BY <1>0, <2>1, <2>2, QuietTyped, StoresTyped DEF TInv
<1>5. ASSUME NEW j \in Jobs, ReadVersions(j) PROVE TInv'
  <2>1. PICK k \in job[j].todo :
         /\ job' \in [Jobs -> JobRecords] /\ Others(j)
         /\ job'[j].at = job[j].at /\ job'[j].reading = k
         /\ job[j].side = "source" =>
              /\ job'[j].bundle.versions =
                   job[j].bundle.versions \o ListVersionsDesc("source", k)
              /\ job'[j].bundle.labels = job[j].bundle.labels
         /\ job[j].side # "source" => job'[j].bundle = job[j].bundle
         /\ UNCHANGED <<stores, file>> /\ Quiet
    BY <1>5, ReadVersionsShape
  <2>2. k \in Keys /\ job[j].bundle \in Bundles /\ job'[j].bundle \in Bundles
    BY <2>1, JobTyped DEF JobRecords
  <2>3. Len(job'[j].bundle.versions) >= Len(job[j].bundle.versions)
    <3> DEFINE list == ListVersionsDesc("source", k)
               vs == job[j].bundle.versions
    <3>1. vs \in Seq(Row) /\ list \in Seq(Row)
      BY <2>2, BundleTyped, ListedRows DEF TInv, Sides
    <3> HIDE DEF list, vs
    <3>2. Len(vs \o list) >= Len(vs) /\ Len(vs) >= Len(vs)
      BY <3>1
    <3> QED
      BY <2>1, <3>2 DEF list, vs
  <2>4. job'[j].bundle.labels = job[j].bundle.labels
    BY <2>1
  <2>5. job'[j].at <= Len(job'[j].bundle.versions) + Len(job'[j].bundle.labels)
    <3> DEFINE a == job[j].at
               m == Len(job[j].bundle.versions)
               n == Len(job[j].bundle.labels)
               q == Len(job'[j].bundle.versions)
    <3>1. a \in Nat /\ a <= m + n
      BY AtTyped
    <3>2. m \in Nat /\ n \in Nat /\ q \in Nat
      BY <2>2, BundleTyped
    <3>3. q >= m
      BY <2>3
    <3> HIDE DEF a, m, n, q
    <3>4. a <= q + n
      BY <3>1, <3>2, <3>3
    <3> QED
      BY <2>1, <2>4, <3>4 DEF a, n, q
  <2>6. JobsTyped'
    BY <2>1, <2>2, <2>5, TypedFrom
  <2> QED
    BY <1>0, <2>1, <2>6, QuietTyped, StoresTyped DEF TInv
<1>6. ASSUME NEW j \in Jobs, ReadLabel(j) PROVE TInv'
  <2>1. PICK l \in job[j].left :
         /\ job' \in [Jobs -> JobRecords] /\ Others(j)
         /\ job'[j].at = job[j].at /\ job'[j].reading = job[j].reading
         /\ job[j].side = "source" =>
              /\ job'[j].bundle.versions = job[j].bundle.versions
              /\ \/ job'[j].bundle.labels = job[j].bundle.labels
                 \/ \E p \in Pointer :
                      job'[j].bundle.labels = Append(job[j].bundle.labels, p)
         /\ job[j].side # "source" => job'[j].bundle = job[j].bundle
         /\ UNCHANGED <<stores, file>> /\ Quiet
    BY <1>6, ReadLabelShape
  <2>2. job[j].bundle \in Bundles /\ job[j].reading \in Keys
    BY <2>1, JobTyped, ReadsKey
  <2>3. Len(job'[j].bundle.labels) >= Len(job[j].bundle.labels)
    <3> DEFINE ls == job[j].bundle.labels
    <3>1. ls \in Seq(Pointer)
      BY <2>2, BundleTyped
    <3> HIDE DEF ls
    <3>2. \A p \in Pointer : Len(Append(ls, p)) >= Len(ls)
      BY <3>1
    <3>3. Len(ls) >= Len(ls)
      BY <3>1
    <3> QED
      BY <2>1, <3>2, <3>3 DEF ls
  <2>4. job'[j].bundle.versions = job[j].bundle.versions
    BY <2>1
  <2>5. job'[j].at <= Len(job'[j].bundle.versions) + Len(job'[j].bundle.labels)
    <3> DEFINE a == job[j].at
               m == Len(job[j].bundle.versions)
               n == Len(job[j].bundle.labels)
               q == Len(job'[j].bundle.labels)
    <3>1. a \in Nat /\ a <= m + n
      BY AtTyped
    <3>2. job'[j].bundle \in Bundles
      BY <2>1 DEF JobRecords
    <3>3. m \in Nat /\ n \in Nat /\ q \in Nat
      BY <2>2, <3>2, BundleTyped
    <3>4. q >= n
      BY <2>3
    <3> HIDE DEF a, m, n, q
    <3>5. a <= m + q
      BY <3>1, <3>3, <3>4
    <3> QED
      BY <2>1, <2>4, <3>5 DEF a, m, q
  <2>6. JobsTyped'
    BY <2>1, <2>2, <2>5, TypedFrom
  <2> QED
    BY <1>0, <2>1, <2>6, QuietTyped, StoresTyped DEF TInv
<1>7. ASSUME NEW j \in Jobs, Seal(j) \/ WriteBundle(j) PROVE TInv'
  <2>1. /\ job' \in [Jobs -> JobRecords] /\ Others(j)
        /\ job'[j].at = job[j].at
        /\ SameBundles(job'[j], job[j]) /\ SameReading(job'[j], job[j])
        /\ file' \in Files /\ edited' = FALSE
        /\ UNCHANGED <<stores, atStart, own, raced, unchecked, writes, faults>>
    BY <1>7, KeepShape
  <2>2. JobsTyped'
    BY <2>1, SameTyped DEF SameBundles, SameReading
  <2>3. WatchesTyped' /\ CountersTyped'
    BY <2>1 DEF TInv, WatchesTyped, CountersTyped
  <2> QED
    BY <1>0, <2>1, <2>2, <2>3, StoresTyped DEF TInv
<1>8. ASSUME NEW j \in Jobs, StartImport(j) PROVE TInv'
  <2>1. /\ job' \in [Jobs -> JobRecords] /\ Others(j)
        /\ job'[j].at = job[j].at
        /\ SameBundles(job'[j], job[j]) /\ SameReading(job'[j], job[j])
        /\ UNCHANGED <<stores, file>> /\ Quiet
    BY <1>8, StartImportShape
  <2>2. JobsTyped'
    BY <2>1, SameTyped DEF SameBundles, SameReading
  <2> QED
    BY <1>0, <2>1, <2>2, QuietTyped, StoresTyped DEF TInv
<1>9. ASSUME NEW j \in Jobs, InsertVersion(j) \/ UpsertLabel(j) PROVE TInv'
  <2>1. ImportedOne(j)
    BY <1>9, ImportShape
  <2>2. LabelsTyped'
    <3>1. CASE InsertVersion(j)
      BY <3>1 DEF InsertVersion, TInv, LabelsTyped
    <3>2. CASE UpsertLabel(j)
      BY <3>2, UpsertShape DEF LabelPut
    <3> QED
      BY <1>9, <3>1, <3>2
  <2>3. job'[j].left # {} => job'[j].reading \in Keys
    BY <2>1, ReadsKey DEF ImportedOne, SameReading
  <2>4. job'[j].at <= Len(job'[j].bundle.versions) + Len(job'[j].bundle.labels)
    BY <2>1 DEF ImportedOne, SameBundles
  <2>5. JobsTyped'
    BY <2>1, <2>3, <2>4, TypedFrom DEF ImportedOne
  <2>6. UNCHANGED file /\ Quiet
    BY <2>1 DEF ImportedOne
  <2> QED
    BY <1>0, <2>2, <2>5, <2>6, QuietTyped DEF TInv
<1>10. ASSUME NEW j \in Jobs, Imported(j) PROVE TInv'
  <2>1. /\ job' \in [Jobs -> JobRecords] /\ Others(j)
        /\ job'[j].at = job[j].at
        /\ SameBundles(job'[j], job[j]) /\ SameReading(job'[j], job[j])
        /\ UNCHANGED <<stores, file>> /\ Quiet
    BY <1>10, ImportedShape
  <2>2. JobsTyped'
    BY <2>1, SameTyped DEF SameBundles, SameReading
  <2> QED
    BY <1>0, <2>1, <2>2, QuietTyped, StoresTyped DEF TInv
<1>11. ASSUME NEW j \in Jobs, Compare(j) PROVE TInv'
  <2>1. /\ job' \in [Jobs -> JobRecords] /\ Others(j)
        /\ job'[j].at = job[j].at
        /\ SameBundles(job'[j], job[j]) /\ SameReading(job'[j], job[j])
        /\ UNCHANGED <<stores, file>> /\ Quiet
    BY <1>11, CompareShape
  <2>2. JobsTyped'
    BY <2>1, SameTyped DEF SameBundles, SameReading
  <2> QED
    BY <1>0, <2>1, <2>2, QuietTyped, StoresTyped DEF TInv
<1>12. ASSUME NEW j \in Jobs, AwaitRejects(j) PROVE TInv'
  <2>1. /\ job' \in [Jobs -> JobRecords] /\ Others(j) /\ BeginsAs(j, job'[j])
        /\ faults' = faults + 1 /\ faults < MaxFaults
        /\ UNCHANGED <<stores, file, watches, writes>>
    BY <1>12, RejectShape
  <2>2. JobsTyped'
    BY <2>1, BeginTyped
  <2>3. faults' \in 0 .. MaxFaults
    BY <2>1, BoundedUp, MigrationAssumption DEF TInv, CountersTyped
  <2> QED
    BY <1>0, <2>1, <2>2, <2>3, StoresTyped DEF TInv, watches, WatchesTyped, CountersTyped
<1>13. ASSUME EditFile PROVE TInv'
  <2>1. /\ file' \in Files /\ edited' = TRUE
        /\ faults' = faults + 1 /\ faults < MaxFaults
        /\ UNCHANGED <<stores, job, atStart, own, raced, unchecked, writes>>
    BY <1>13, EditShape
  <2>2. faults' \in 0 .. MaxFaults
    BY <2>1, BoundedUp, MigrationAssumption DEF TInv, CountersTyped
  <2> QED
    BY <1>0, <2>1, <2>2, StoresTyped DEF TInv, WatchesTyped, CountersTyped, JobsTyped
<1>14. ASSUME NEW s \in Sides, NEW k \in Keys, NEW v \in Values, AddVersion(s, k, v)
       PROVE  TInv'
  <2>1. PICK n \in 1 .. MaxVersion :
          own' = IF s = "target" THEN own \cup {<<k, n>>} ELSE own
    BY <1>14, AddShape
  <2>2. /\ writes' = writes + 1 /\ writes < MaxWrites
        /\ UNCHANGED <<labels, file, job, atStart, raced, edited, unchecked, faults>>
    BY <1>14, AddShape
  <2>3. own' \in SUBSET (Keys \X (1 .. MaxVersion))
    BY <2>1 DEF TInv, WatchesTyped
  <2>4. writes' \in 0 .. MaxWrites
    BY <2>2, BoundedUp, MigrationAssumption DEF TInv, CountersTyped
  <2> QED
    BY <1>0, <2>2, <2>3, <2>4 DEF TInv, WatchesTyped, CountersTyped, JobsTyped, LabelsTyped
<1>15. ASSUME NEW s \in Sides, NEW k \in Keys, NEW l \in Labels, NEW n \in 1 .. MaxVersion,
              Promote(s, k, l, n)
       PROVE  TInv'
  <2>1. /\ LabelPut(s, k, l, n)
        /\ raced' = (raced \/ Races(s, k, n))
        /\ writes' = writes + 1 /\ writes < MaxWrites
        /\ UNCHANGED <<rows, file, job, atStart, own, edited, unchecked, faults>>
    BY <1>15, PromoteShape
  <2>2. writes' \in 0 .. MaxWrites
    BY <2>1, BoundedUp, MigrationAssumption DEF TInv, CountersTyped
  <2>3. raced' \in BOOLEAN
    BY <2>1
  <2> QED
    BY <1>0, <2>1, <2>2, <2>3
       DEF TInv, WatchesTyped, CountersTyped, JobsTyped, LabelPut
<1>16. CASE UNCHANGED vars
  BY <1>16 DEF vars, stores, watches, TInv, RowsTyped, LabelsTyped, JobsTyped, WatchesTyped,
              CountersTyped
<1> QED
  BY <1>1, <1>2, <1>3, <1>4, <1>5, <1>6, <1>7, <1>8, <1>9, <1>10, <1>11, <1>12, <1>13,
     <1>14, <1>15, <1>16, Kinds

LEMMA Typed == Spec => []TInv
<1>1. Init => TInv
  BY TInvInit
<1>2. TInv /\ [Next]_vars => TInv'
  BY TInvNext
<1> QED
  BY <1>1, <1>2, PTL DEF Spec

\* Every variable has its type at every moment: whatever order jobs, users and
\* faults come in, a bundle holds whole rows and pointers and a job never imports
\* past the end of its own.
THEOREM MigrationTypes == Spec => []TypeOK
<1>1. ASSUME TInv PROVE TypeOK
  <2>1. \A j \in Jobs : job[j].bundle \in Bundles /\ job[j].back \in Bundles
    BY <1>1, JobTyped
  <2>2. file.bundle \in Bundles
    BY <1>1 DEF TInv, Files
  <2>3. ASSUME NEW b \in {file.bundle} \cup UNION {{job[j].bundle, job[j].back} : j \in Jobs}
        PROVE  Range(b.versions) \subseteq Row /\ Range(b.labels) \subseteq Pointer
    <3>1. b \in Bundles
      BY <2>1, <2>2
    <3> QED
      BY <3>1, BundleTyped
  <2>4. ASSUME NEW j \in Jobs PROVE job[j].at \in 0 .. Len(Import(j))
    <3> DEFINE a == job[j].at
               m == Len(job[j].bundle.versions)
               n == Len(job[j].bundle.labels)
    <3>1. a \in Nat /\ a <= m + n
      BY <1>1, AtTyped
    <3>2. Len(Import(j)) = m + n /\ m \in Nat /\ n \in Nat
      BY <1>1, ItemShape
    <3> HIDE DEF m, n, a
    <3>3. a \in 0 .. (m + n)
      BY <3>1, <3>2
    <3> QED
      BY <3>2, <3>3 DEF a
  <2> QED
    BY <1>1, <2>3, <2>4
       DEF TInv, TypeOK, RowsTyped, LabelsTyped, WatchesTyped, CountersTyped
<1> QED
  BY <1>1, Typed, PTL

\* A step of the program adds rows and changes none: not a job of either side,
\* not an import that meets a row that is there, not a write of a user; and the
\* source changes by its own users' writes only.
THEOREM JobsAddOnly == Spec => JobsOnlyAdd
<1> DEFINE A == /\ \A s \in Sides, k \in Keys, n \in 1 .. MaxVersion :
                     rows[s][k][n] # None => rows'[s][k][n] = rows[s][k][n]
                /\ writes' = writes =>
                     rows'["source"] = rows["source"] /\ labels'["source"] = labels["source"]
<1>1. ASSUME TInv, [Next]_vars PROVE A
  <2>1. RowsStay
    BY <1>1, RowsKept
  <2>2. writes \in Nat
    BY <1>1, MigrationAssumption DEF TInv, CountersTyped
  <2>3. ASSUME writes' = writes
        PROVE  rows'["source"] = rows["source"] /\ labels'["source"] = labels["source"]
    <3>1. ASSUME NEW j \in Jobs, InsertVersion(j)
          PROVE  rows'["source"] = rows["source"] /\ labels'["source"] = labels["source"]
      <4>1. rows \in [Sides -> [Keys -> [1 .. MaxVersion -> Docs \cup {None}]]]
        BY <1>1 DEF TInv, RowsTyped
      <4>2. "source" \in Sides /\ "source" # "target"
        BY DEF Sides
      <4> QED
        BY <3>1, <4>1, <4>2 DEF InsertVersion
    <3>2. ASSUME NEW j \in Jobs, UpsertLabel(j)
          PROVE  rows'["source"] = rows["source"] /\ labels'["source"] = labels["source"]
      <4>1. labels \in [Sides -> [Keys -> [Labels -> 0 .. MaxVersion]]]
        BY <1>1 DEF TInv, LabelsTyped
      <4>2. "source" \in Sides /\ "source" # "target"
        BY DEF Sides
      <4> QED
        BY <3>2, <4>1, <4>2 DEF UpsertLabel
    <3>3. ASSUME NEW s \in Sides, NEW k \in Keys, NEW v \in Values, AddVersion(s, k, v)
          PROVE  FALSE
      <4>1. writes' = writes + 1
        BY <3>3 DEF AddVersion
      <4> QED
        BY <2>2, <2>3, <4>1
    <3>4. ASSUME NEW s \in Sides, NEW k \in Keys, NEW l \in Labels,
                 NEW n \in 1 .. MaxVersion, Promote(s, k, l, n)
          PROVE  FALSE
      <4>1. writes' = writes + 1
        BY <3>4 DEF Promote
      <4> QED
        BY <2>2, <2>3, <4>1
    <3>5. ASSUME NEW j \in Jobs,
                 \/ \E op \in {"migrate", "export", "backup"}, s \in Secrets \cup {None} :
                      BeginExport(j, op, s)
                 \/ \E s \in Secrets \cup {None} : BeginRestore(j, s)
                 \/ BeginImport(j)
                 \/ ReadKeys(j) \/ ReadVersions(j) \/ ReadLabel(j)
                 \/ Seal(j) \/ WriteBundle(j) \/ StartImport(j)
                 \/ Imported(j) \/ Compare(j) \/ AwaitRejects(j)
          PROVE  UNCHANGED stores
      BY <3>5 DEF BeginExport, BeginRestore, BeginImport, Begin, ReadKeys, ReadVersions,
         ReadLabel, Seal, WriteBundle, Keep, StartImport, Imported, Compare, AwaitRejects
    <3>6. EditFile => UNCHANGED stores
      BY DEF EditFile
    <3>7. CASE UNCHANGED vars
      BY <3>7 DEF vars, stores
    <3>8. UNCHANGED stores => rows' = rows /\ labels' = labels
      BY DEF stores
    <3>9. CASE Next
      BY <3>1, <3>2, <3>3, <3>4, <3>5, <3>6, <3>8, <3>9, Kinds
    <3> QED
      BY <1>1, <3>7, <3>9
  <2> QED
    BY <2>1, <2>3 DEF RowsStay
<1>2. TInv /\ [Next]_vars => [A]_vars
  BY <1>1
<1>3. [][A]_vars <=> JobsOnlyAdd
  BY DEF JobsOnlyAdd
<1> HIDE DEF A
<1> QED
  BY <1>2, <1>3, Typed, PTL DEF Spec

-----------------------------------------------------------------------------
\* Where the rows of the target come from.

\* Every one of R is a row of the side S, as S holds it.
HeldBy(R, S) == \A r \in R : S[r.key][r.version] = r.doc

\* A bundle on its way to the target holds rows of the source, unless the import
\* verb took it from an edited file; a seal was computed over rows of the source,
\* whatever became of the file since.
Traced ==
  /\ \A j \in Jobs : \/ job[j].op = "import" /\ unchecked
                     \/ HeldBy(Range(job[j].bundle.versions), rows["source"])
  /\ edited \/ HeldBy(Range(file.bundle.versions), rows["source"])
  /\ file.contentHash # None => HeldBy(file.contentHash[1], rows["source"])
  /\ TargetIsTraceable

\* A document hashes to what is stored with it, but for those of an edited file.
Honest ==
  \A s \in Sides, k \in Keys, n \in 1 .. MaxVersion :
    rows[s][k][n] # None =>
      \/ s = "target" /\ unchecked
      \/ rows[s][k][n].sha256 = Hash[rows[s][k][n].value]

LEMMA StillHeld ==
  ASSUME RowsStay, NEW s \in Sides, NEW R \in SUBSET Row, HeldBy(R, rows[s])
  PROVE  HeldBy(R, rows'[s])
<1> SUFFICES ASSUME NEW r \in R PROVE rows'[s][r.key][r.version] = r.doc
  BY DEF HeldBy
<1>1. r.key \in Keys /\ r.version \in 1 .. MaxVersion /\ r.doc \in Docs
  BY DEF Row
<1>2. rows[s][r.key][r.version] = r.doc /\ r.doc # None
  BY <1>1, NoneAssumption DEF HeldBy
<1> QED
  BY <1>1, <1>2 DEF RowsStay

\* The kinds of change to a job's bundle.
BundleStays(i) == job'[i].bundle = job[i].bundle /\ job'[i].op = job[i].op

BundleEmpty(i) == job'[i].bundle = NoBundle

BundleTaken(i) ==
  /\ job'[i].bundle = file.bundle
  /\ \/ job'[i].op = "restore" /\ ContentHashOf(file.bundle) = file.contentHash
     \/ job'[i].op = "import" /\ unchecked' = (unchecked \/ edited)

RowsRead(i) ==
  /\ job'[i].op = job[i].op /\ job'[i].bundle.labels = job[i].bundle.labels
  /\ \E k \in Keys :
       job'[i].bundle.versions = job[i].bundle.versions \o ListVersionsDesc("source", k)

LabelRead(i) ==
  /\ job'[i].op = job[i].op /\ job'[i].bundle.versions = job[i].bundle.versions
  /\ job[i].side = "source" /\ job[i].pc = "export"
  /\ \E p \in Pointer :
       /\ p.key = job[i].reading /\ p.label \in job[i].left
       /\ p.version = labels["source"][p.key][p.label]
       /\ job'[i].bundle.labels = Append(job[i].bundle.labels, p)

BundleMoves(i) ==
  BundleStays(i) \/ BundleEmpty(i) \/ BundleTaken(i) \/ RowsRead(i) \/ LabelRead(i)

LEMMA BundleKinds ==
  ASSUME TInv, Next
  PROVE  \A i \in Jobs : BundleMoves(i)
<1>0. ASSUME NEW j \in Jobs, Others(j), BundleMoves(j) PROVE \A i \in Jobs : BundleMoves(i)
  <2>1. ASSUME NEW i \in Jobs, i # j PROVE BundleMoves(i)
    BY <1>0, <2>1 DEF Others, BundleMoves, BundleStays
  <2> QED
    BY <1>0, <2>1
<1>1. ASSUME NEW j \in Jobs, NEW op \in {"migrate", "export", "backup"},
             NEW s \in Secrets \cup {None}, BeginExport(j, op, s)
      PROVE  \A i \in Jobs : BundleMoves(i)
  <2>1. job'[j].bundle = NoBundle /\ Others(j)
    BY <1>1, BeginExportShape
  <2> QED
    BY <1>0, <2>1 DEF BundleMoves, BundleEmpty
<1>2. ASSUME NEW j \in Jobs, NEW s \in Secrets \cup {None}, BeginRestore(j, s)
      PROVE  \A i \in Jobs : BundleMoves(i)
  <2>1. /\ Others(j) /\ job'[j].op = "restore"
        /\ \/ job'[j].bundle = file.bundle /\ ContentHashOf(file.bundle) = file.contentHash
           \/ job'[j].bundle = NoBundle
    BY <1>2, BeginRestoreShape
  <2> QED
    BY <1>0, <2>1 DEF BundleMoves, BundleEmpty, BundleTaken
<1>3. ASSUME NEW j \in Jobs, BeginImport(j)
      PROVE  \A i \in Jobs : BundleMoves(i)
  <2>1. /\ Others(j) /\ job'[j].op = "import" /\ job'[j].bundle = file.bundle
        /\ unchecked' = (unchecked \/ edited)
    BY <1>3, BeginImportShape
  <2> QED
    BY <1>0, <2>1 DEF BundleMoves, BundleTaken
<1>4. ASSUME NEW j \in Jobs, ReadVersions(j) PROVE \A i \in Jobs : BundleMoves(i)
  <2>1. PICK k \in job[j].todo :
          /\ Others(j) /\ job'[j].op = job[j].op
          /\ job[j].side = "source" =>
               /\ job'[j].bundle.versions =
                    job[j].bundle.versions \o ListVersionsDesc("source", k)
               /\ job'[j].bundle.labels = job[j].bundle.labels
          /\ job[j].side # "source" => job'[j].bundle = job[j].bundle
    BY <1>4, ReadVersionsShape
  <2>2. k \in Keys
    BY JobTyped
  <2>3. BundleMoves(j)
    BY <2>1, <2>2 DEF BundleMoves, BundleStays, RowsRead
  <2> QED
    BY <1>0, <2>1, <2>3
<1>5. ASSUME NEW j \in Jobs, ReadLabel(j) PROVE \A i \in Jobs : BundleMoves(i)
  <2>1. PICK l \in job[j].left :
          /\ Others(j) /\ job'[j].op = job[j].op /\ job[j].pc = "export"
          /\ job[j].side = "source" =>
               /\ job'[j].bundle.versions = job[j].bundle.versions
               /\ \/ job'[j].bundle.labels = job[j].bundle.labels
                  \/ \E p \in Pointer :
                       /\ p.key = job[j].reading /\ p.label = l
                       /\ p.version = labels["source"][job[j].reading][l]
                       /\ job'[j].bundle.labels = Append(job[j].bundle.labels, p)
          /\ job[j].side # "source" => job'[j].bundle = job[j].bundle
    BY <1>5, ReadLabelShape
  <2>2. job[j].bundle \in Bundles /\ job'[j].bundle \in Bundles
    <3>1. job' \in [Jobs -> JobRecords]
      BY <1>5, ReadLabelShape
    <3> QED
      BY <3>1, JobTyped DEF JobRecords
  <2>3. CASE job[j].side # "source"
    BY <1>0, <2>1, <2>3 DEF BundleMoves, BundleStays
  <2>4. CASE job[j].side = "source" /\ job'[j].bundle.labels = job[j].bundle.labels
    <3>1. job'[j].bundle.versions = job[j].bundle.versions
      BY <2>1, <2>4
    <3>2. job'[j].bundle = job[j].bundle
      BY <2>2, <2>4, <3>1 DEF Bundles
    <3> QED
      BY <1>0, <2>1, <3>2 DEF BundleMoves, BundleStays
  <2>5. CASE /\ job[j].side = "source"
             /\ \E p \in Pointer :
                  /\ p.key = job[j].reading /\ p.label = l
                  /\ p.version = labels["source"][job[j].reading][l]
                  /\ job'[j].bundle.labels = Append(job[j].bundle.labels, p)
    <3>1. LabelRead(j)
      BY <2>1, <2>5 DEF LabelRead
    <3> QED
      BY <1>0, <2>1, <3>1 DEF BundleMoves
  <2> QED
    BY <2>1, <2>3, <2>4, <2>5
<1>6. ASSUME NEW j \in Jobs, ReadKeys(j) PROVE \A i \in Jobs : BundleMoves(i)
  <2>1. Others(j) /\ job'[j].op = job[j].op /\ SameBundles(job'[j], job[j])
    BY <1>6, ReadKeysShape
  <2> QED
    BY <1>0, <2>1 DEF BundleMoves, BundleStays, SameBundles
<1>7. ASSUME NEW j \in Jobs, Seal(j) \/ WriteBundle(j) PROVE \A i \in Jobs : BundleMoves(i)
  <2>1. Others(j) /\ job'[j].op = job[j].op /\ SameBundles(job'[j], job[j])
    BY <1>7, KeepShape
  <2> QED
    BY <1>0, <2>1 DEF BundleMoves, BundleStays, SameBundles
<1>8. ASSUME NEW j \in Jobs, StartImport(j) PROVE \A i \in Jobs : BundleMoves(i)
  <2>1. Others(j) /\ job'[j].op = job[j].op /\ SameBundles(job'[j], job[j])
    BY <1>8, StartImportShape
  <2> QED
    BY <1>0, <2>1 DEF BundleMoves, BundleStays, SameBundles
<1>9. ASSUME NEW j \in Jobs, InsertVersion(j) \/ UpsertLabel(j)
      PROVE  \A i \in Jobs : BundleMoves(i)
  <2>1. Others(j) /\ job'[j].op = job[j].op /\ SameBundles(job'[j], job[j])
    BY <1>9, ImportShape DEF ImportedOne
  <2> QED
    BY <1>0, <2>1 DEF BundleMoves, BundleStays, SameBundles
<1>10. ASSUME NEW j \in Jobs, Imported(j) PROVE \A i \in Jobs : BundleMoves(i)
  <2>1. Others(j) /\ job'[j].op = job[j].op /\ SameBundles(job'[j], job[j])
    BY <1>10, ImportedShape
  <2> QED
    BY <1>0, <2>1 DEF BundleMoves, BundleStays, SameBundles
<1>11. ASSUME NEW j \in Jobs, Compare(j) PROVE \A i \in Jobs : BundleMoves(i)
  <2>1. Others(j) /\ job'[j].op = job[j].op /\ SameBundles(job'[j], job[j])
    BY <1>11, CompareShape
  <2> QED
    BY <1>0, <2>1 DEF BundleMoves, BundleStays, SameBundles
<1>12. ASSUME NEW j \in Jobs, AwaitRejects(j) PROVE \A i \in Jobs : BundleMoves(i)
  <2>1. Others(j) /\ job'[j].bundle = NoBundle
    BY <1>12, RejectShape
  <2> QED
    BY <1>0, <2>1 DEF BundleMoves, BundleEmpty
<1>13. ASSUME UNCHANGED job PROVE \A i \in Jobs : BundleMoves(i)
  BY <1>13 DEF BundleMoves, BundleStays
<1>14. EditFile => UNCHANGED job
  BY DEF EditFile
<1>15. \A s \in Sides, k \in Keys, v \in Values : AddVersion(s, k, v) => UNCHANGED job
  BY DEF AddVersion
<1>16. \A s \in Sides, k \in Keys, l \in Labels, n \in 1 .. MaxVersion :
         Promote(s, k, l, n) => UNCHANGED job
  BY DEF Promote
<1> QED
  BY <1>1, <1>2, <1>3, <1>4, <1>5, <1>6, <1>7, <1>8, <1>9, <1>10, <1>11, <1>12, <1>13,
     <1>14, <1>15, <1>16, Kinds

\* The kinds of change to the file.
FileStays == UNCHANGED <<file, edited>>

FileKept ==
  \E j \in Jobs :
    /\ job[j].op \in {"export", "backup"} /\ file'.bundle = job[j].bundle
    /\ file'.contentHash \in {None, ContentHashOf(job[j].bundle)}

FileEdited == edited' = TRUE /\ file'.contentHash = file.contentHash

LEMMA FileKinds ==
  ASSUME TInv, Next
  PROVE  FileStays \/ FileKept \/ FileEdited
<1>1. ASSUME NEW j \in Jobs,
             \/ \E op \in {"migrate", "export", "backup"}, s \in Secrets \cup {None} :
                  BeginExport(j, op, s)
             \/ \E s \in Secrets \cup {None} : BeginRestore(j, s)
             \/ BeginImport(j)
      PROVE  FileStays
  BY <1>1 DEF BeginExport, BeginRestore, BeginImport, Begin, FileStays
<1>2. ASSUME NEW j \in Jobs,
             \/ ReadKeys(j) \/ ReadVersions(j) \/ ReadLabel(j) \/ StartImport(j)
             \/ InsertVersion(j) \/ UpsertLabel(j) \/ Imported(j) \/ Compare(j)
             \/ AwaitRejects(j)
      PROVE  FileStays
  BY <1>2 DEF ReadKeys, ReadVersions, ReadLabel, StartImport, InsertVersion, UpsertLabel,
     Imported, Compare, AwaitRejects, Step, watches, FileStays
<1>3. ASSUME NEW j \in Jobs, Seal(j) \/ WriteBundle(j) PROVE FileKept
  <2>1. /\ job[j].op \in {"export", "backup"} /\ file'.bundle = job[j].bundle
        /\ \/ file'.contentHash = None
           \/ file'.contentHash = ContentHashOf(job[j].bundle)
    BY <1>3, KeepShape
  <2> QED
    BY <2>1 DEF FileKept
<1>4. EditFile => FileEdited
  BY EditShape DEF FileEdited
<1>5. \A s \in Sides, k \in Keys, v \in Values : AddVersion(s, k, v) => FileStays
  BY DEF AddVersion, FileStays
<1>6. \A s \in Sides, k \in Keys, l \in Labels, n \in 1 .. MaxVersion :
         Promote(s, k, l, n) => FileStays
  BY DEF Promote, FileStays
<1> QED
  BY <1>1, <1>2, <1>3, <1>4, <1>5, <1>6, Kinds

\* Once an edited file was imported, it was.
LEMMA UncheckedStays ==
  ASSUME Next, unchecked
  PROVE  unchecked'
<1>1. ASSUME NEW j \in Jobs,
             \/ \E op \in {"migrate", "export", "backup"}, s \in Secrets \cup {None} :
                  BeginExport(j, op, s)
             \/ \E s \in Secrets \cup {None} : BeginRestore(j, s)
             \/ BeginImport(j)
      PROVE  unchecked'
  BY <1>1 DEF BeginExport, BeginRestore, BeginImport
<1>2. ASSUME NEW j \in Jobs,
             \/ ReadKeys(j) \/ ReadVersions(j) \/ ReadLabel(j) \/ StartImport(j)
             \/ InsertVersion(j) \/ UpsertLabel(j) \/ Imported(j) \/ Compare(j)
             \/ AwaitRejects(j)
      PROVE  unchecked'
  BY <1>2 DEF ReadKeys, ReadVersions, ReadLabel, StartImport, InsertVersion, UpsertLabel,
     Imported, Compare, AwaitRejects, Step, watches
<1>3. ASSUME NEW j \in Jobs, Seal(j) \/ WriteBundle(j) PROVE unchecked'
  BY <1>3 DEF Seal, WriteBundle, Keep
<1>4. EditFile => unchecked'
  BY DEF EditFile
<1>5. \A s \in Sides, k \in Keys, v \in Values : AddVersion(s, k, v) => unchecked'
  BY DEF AddVersion
<1>6. \A s \in Sides, k \in Keys, l \in Labels, n \in 1 .. MaxVersion :
         Promote(s, k, l, n) => unchecked'
  BY DEF Promote
<1> QED
  BY <1>1, <1>2, <1>3, <1>4, <1>5, <1>6, Kinds

LEMMA TracedInit ==
  ASSUME Init, TInv
  PROVE  Traced
<1>1. file = SealBundle(NoBundle, None) /\ \A j \in Jobs : job[j].bundle = NoBundle
  BY IdleJob DEF Init
<1>2. file.bundle = NoBundle /\ file.contentHash = <<{}, {}>>
  BY <1>1, EmptyBundle, SealTyped DEF ContentHashOf
<1>3. HeldBy({}, rows["source"]) /\ file.contentHash[1] = {}
  BY <1>2 DEF HeldBy
<1>4. TargetIsTraceable
  <2>1. PICK held \in [Keys -> UNION {[1 .. n -> Values] : n \in 0 .. MaxVersion}] :
          rows = [s \in Sides |-> [k \in Keys |-> [n \in 1 .. MaxVersion |->
            IF s = "source" /\ n \in DOMAIN held[k] THEN DocOf(held[k][n]) ELSE None]]]
    BY DEF Init
  <2>2. "target" \in Sides /\ "target" # "source"
    BY DEF Sides
  <2>3. \A k \in Keys, n \in 1 .. MaxVersion : rows["target"][k][n] = None
    BY <2>1, <2>2
  <2> QED
    BY <2>3 DEF TargetIsTraceable, Stored
<1> QED
  BY <1>1, <1>2, <1>3, <1>4, EmptyBundle DEF Traced

LEMMA TracedNext ==
  ASSUME TInv, Traced, [Next]_vars
  PROVE  Traced'
<1>1. CASE UNCHANGED vars
  BY <1>1 DEF vars, stores, watches, Traced, TargetIsTraceable, Stored
<1>2. ASSUME Next PROVE Traced'
  <2>0. RowsStay /\ TInv'
    BY RowsKept, TInvNext
  <2>1. unchecked => unchecked'
    BY <1>2, UncheckedStays
  <2>2. file.bundle \in Bundles /\ \A j \in Jobs : job[j].bundle \in Bundles
    BY JobTyped DEF TInv, Files
  <2>3. \A R \in SUBSET Row :
          HeldBy(R, rows["source"]) => HeldBy(R, rows'["source"])
    BY <2>0, StillHeld DEF Sides
  <2>4. \A b \in Bundles : Range(b.versions) \in SUBSET Row
    BY BundleTyped
  <2>5. file.contentHash # None => file.contentHash[1] \in SUBSET Row
    BY DEF TInv, Files, Hashes
  <2>6. ASSUME NEW i \in Jobs
        PROVE  \/ job'[i].op = "import" /\ unchecked'
               \/ HeldBy(Range(job'[i].bundle.versions), rows'["source"])
    <3>1. \/ job[i].op = "import" /\ unchecked
          \/ HeldBy(Range(job[i].bundle.versions), rows'["source"])
      BY <2>2, <2>3, <2>4 DEF Traced
    <3>2. edited \/ HeldBy(Range(file.bundle.versions), rows'["source"])
      BY <2>2, <2>3, <2>4 DEF Traced
    <3>3. file.contentHash # None => HeldBy(file.contentHash[1], rows'["source"])
      BY <2>3, <2>5 DEF Traced
    <3>4. CASE BundleStays(i)
      BY <2>1, <3>1, <3>4 DEF BundleStays
    <3>5. CASE BundleEmpty(i)
      BY <3>5, EmptyBundle DEF BundleEmpty, HeldBy
    <3>6. CASE BundleTaken(i)
      <4>1. CASE job'[i].op = "import" /\ unchecked' = (unchecked \/ edited)
        BY <3>2, <3>6, <4>1 DEF BundleTaken
      <4>2. CASE job'[i].op = "restore" /\ ContentHashOf(file.bundle) = file.contentHash
        <5>1. ContentHashOf(file.bundle) \in Hashes
              /\ ContentHashOf(file.bundle)[1] = Range(file.bundle.versions)
          BY <2>2, BundleTyped DEF ContentHashOf
        <5>2. file.contentHash # None
          BY <4>2, <5>1, NoneAssumption DEF Hashes
        <5> QED
          BY <3>3, <3>6, <4>2, <5>1, <5>2 DEF BundleTaken
      <4> QED
        BY <3>6, <4>1, <4>2 DEF BundleTaken
    <3>7. CASE RowsRead(i)
      <4>1. PICK k \in Keys :
              job'[i].bundle.versions = job[i].bundle.versions \o ListVersionsDesc("source", k)
        BY <3>7 DEF RowsRead
      <4> DEFINE list == ListVersionsDesc("source", k)
      <4>2. /\ list \in Seq(Row)
            /\ \A r \in Range(list) : /\ r.key = k /\ r.version \in Stored("source", k)
                                      /\ r.doc = rows["source"][k][r.version]
        BY ListedRows DEF TInv, Sides
      <4>3. job[i].bundle.versions \in Seq(Row)
        BY <2>2, BundleTyped
      <4> HIDE DEF list
      <4>4. Range(job'[i].bundle.versions) = Range(job[i].bundle.versions) \cup Range(list)
        BY <4>1, <4>2, <4>3, ConcatRange DEF list
      <4>5. Range(list) \in SUBSET Row /\ HeldBy(Range(list), rows["source"])
        BY <4>2, SeqRange DEF HeldBy
      <4>6. HeldBy(Range(list), rows'["source"])
        BY <2>3, <4>5
      <4>7. HeldBy(Range(job[i].bundle.versions), rows'["source"]) =>
              HeldBy(Range(job'[i].bundle.versions), rows'["source"])
        BY <4>4, <4>6 DEF HeldBy
      <4> QED
        BY <2>1, <3>1, <3>7, <4>7 DEF RowsRead
    <3>8. CASE LabelRead(i)
      BY <2>1, <3>1, <3>8 DEF LabelRead
    <3> QED
      BY <1>2, <3>4, <3>5, <3>6, <3>7, <3>8, BundleKinds DEF BundleMoves
  <2>7. /\ edited' \/ HeldBy(Range(file'.bundle.versions), rows'["source"])
        /\ file'.contentHash # None => HeldBy(file'.contentHash[1], rows'["source"])
    <3>1. edited \/ HeldBy(Range(file.bundle.versions), rows'["source"])
      BY <2>2, <2>3, <2>4 DEF Traced
    <3>2. file.contentHash # None => HeldBy(file.contentHash[1], rows'["source"])
      BY <2>3, <2>5 DEF Traced
    <3>3. CASE FileStays
      BY <3>1, <3>2, <3>3 DEF FileStays
    <3>4. CASE FileEdited
      BY <3>2, <3>4 DEF FileEdited
    <3>5. CASE FileKept
      <4>1. PICK j \in Jobs :
              /\ job[j].op \in {"export", "backup"} /\ file'.bundle = job[j].bundle
              /\ file'.contentHash \in {None, ContentHashOf(job[j].bundle)}
        BY <3>5 DEF FileKept
      <4>2. HeldBy(Range(job[j].bundle.versions), rows["source"])
        BY <4>1 DEF Traced
      <4>3. HeldBy(Range(job[j].bundle.versions), rows'["source"])
        BY <2>2, <2>3, <2>4, <4>2
      <4>4. ContentHashOf(job[j].bundle)[1] = Range(job[j].bundle.versions)
        BY DEF ContentHashOf
      <4> QED
        BY <4>1, <4>3, <4>4
    <3> QED
      BY <1>2, <3>3, <3>4, <3>5, FileKinds
  <2>8. TargetIsTraceable'
    <3>0. SUFFICES ASSUME ~ unchecked', NEW k \in Keys, NEW n \in 1 .. MaxVersion,
                          rows'["target"][k][n] # None
                   PROVE  <<k, n>> \in own' \/ rows'["target"][k][n] = rows'["source"][k][n]
      BY DEF TargetIsTraceable, Stored
    <3>1. ~ unchecked /\ "source" \in Sides /\ "target" \in Sides
      BY <2>1, <3>0 DEF Sides
    <3>2. rows["target"][k][n] # None =>
            <<k, n>> \in own \/ rows["target"][k][n] = rows["source"][k][n]
      BY <3>1 DEF Traced, TargetIsTraceable, Stored
    <3>3. rows["target"][k][n] # None =>
            <<k, n>> \in own \/ rows'["target"][k][n] = rows'["source"][k][n]
      BY <2>0, <3>1, <3>2 DEF RowsStay
    <3>4. CASE RowsSame /\ UNCHANGED own
      BY <3>0, <3>3, <3>4 DEF RowsSame
    <3>5. CASE RowImported
      <4>0. PICK j \in Jobs : \E r \in Range(job[j].bundle.versions) :
              /\ r \in Row /\ RowPut("target", r.key, r.version, r.doc) /\ UNCHANGED own
        BY <3>5 DEF RowImported
      <4>1. PICK r \in Range(job[j].bundle.versions) :
              /\ r \in Row /\ RowPut("target", r.key, r.version, r.doc) /\ UNCHANGED own
        BY <4>0
      <4>2. CASE k = r.key /\ n = r.version
        <5>1. HeldBy(Range(job[j].bundle.versions), rows'["source"])
          BY <2>6, <3>0, <2>2, <2>3, <2>4, <3>1 DEF Traced
        <5>2. rows'["source"][k][n] = r.doc
          BY <4>2, <5>1 DEF HeldBy
        <5>3. rows'["target"][k][n] = r.doc
          BY <4>1, <4>2 DEF RowPut
        <5> QED
          BY <5>2, <5>3
      <4>3. CASE ~ (k = r.key /\ n = r.version)
        <5>1. rows'["target"][k][n] = rows["target"][k][n]
          BY <3>1, <4>1, <4>3 DEF RowPut
        <5> QED
          BY <3>0, <3>3, <4>1, <5>1
      <4> QED
        BY <4>2, <4>3
    <3>6. CASE RowWritten
      <4>1. PICK s \in Sides, q \in Keys, m \in 1 .. MaxVersion, v \in Values :
              /\ RowPut(s, q, m, DocOf(v))
              /\ own' = IF s = "target" THEN own \cup {<<q, m>>} ELSE own
        BY <3>6 DEF RowWritten
      <4>2. CASE s = "target" /\ k = q /\ n = m
        BY <4>1, <4>2
      <4>3. CASE ~ (s = "target" /\ k = q /\ n = m)
        <5>1. rows'["target"][k][n] = rows["target"][k][n]
          BY <3>1, <4>1, <4>3 DEF RowPut
        <5>2. own \subseteq own'
          BY <4>1
        <5> QED
          BY <3>0, <3>3, <5>1, <5>2
      <4> QED
        BY <4>2, <4>3
    <3> QED
      BY <1>2, <3>4, <3>5, <3>6, RowsKinds
  <2> QED
    BY <2>6, <2>7, <2>8 DEF Traced
<1> QED
  BY <1>1, <1>2

\* What is on the target came from the source or from the target's own users, at
\* every moment and whatever mixture of dead, concurrent and repeated jobs put it
\* there: a bundle on its way holds rows of the source only, and what a seal was
\* computed over is not changed by an edit of the file.
THEOREM TargetIsTraced == Spec => []TargetIsTraceable
<1>1. Init => TInv /\ Traced
  BY TInvInit, TracedInit
<1>2. TInv /\ Traced /\ [Next]_vars => TInv' /\ Traced'
  BY TInvNext, TracedNext
<1>3. Traced => TargetIsTraceable
  BY DEF Traced
<1> QED
  BY <1>1, <1>2, <1>3, PTL DEF Spec

LEMMA HonestInit ==
  ASSUME Init
  PROVE  Honest
<1>1. PICK held \in [Keys -> UNION {[1 .. n -> Values] : n \in 0 .. MaxVersion}] :
        rows = [s \in Sides |-> [k \in Keys |-> [n \in 1 .. MaxVersion |->
          IF s = "source" /\ n \in DOMAIN held[k] THEN DocOf(held[k][n]) ELSE None]]]
  BY DEF Init
<1>2. ASSUME NEW s \in Sides, NEW k \in Keys, NEW n \in 1 .. MaxVersion,
             rows[s][k][n] # None
      PROVE  rows[s][k][n].sha256 = Hash[rows[s][k][n].value]
  <2>1. n \in DOMAIN held[k] /\ rows[s][k][n] = DocOf(held[k][n])
    BY <1>1, <1>2
  <2>2. held[k] \in UNION {[1 .. m -> Values] : m \in 0 .. MaxVersion}
    OBVIOUS
  <2>3. held[k][n] \in Values
    BY <2>1, <2>2
  <2> QED
    BY <2>1, <2>3, DocTyped
<1> QED
  BY <1>2 DEF Honest

LEMMA HonestNext ==
  ASSUME TInv, Traced, Honest, [Next]_vars
  PROVE  Honest'
<1>1. CASE UNCHANGED vars
  BY <1>1 DEF vars, stores, watches, Honest
<1>2. ASSUME Next PROVE Honest'
  <2>1. unchecked => unchecked'
    BY <1>2, UncheckedStays
  <2>2. SUFFICES ASSUME NEW s \in Sides, NEW k \in Keys, NEW n \in 1 .. MaxVersion,
                        rows'[s][k][n] # None, ~ (s = "target" /\ unchecked')
                 PROVE  rows'[s][k][n].sha256 = Hash[rows'[s][k][n].value]
    BY DEF Honest
  <2>3. rows[s][k][n] # None => rows[s][k][n].sha256 = Hash[rows[s][k][n].value]
    BY <2>1, <2>2 DEF Honest
  <2>4. CASE RowsSame
    BY <2>2, <2>3, <2>4 DEF RowsSame
  <2>5. CASE RowImported
    <3>0. PICK j \in Jobs : \E r \in Range(job[j].bundle.versions) :
            r \in Row /\ RowPut("target", r.key, r.version, r.doc)
      BY <2>5 DEF RowImported
    <3>1. PICK r \in Range(job[j].bundle.versions) :
            r \in Row /\ RowPut("target", r.key, r.version, r.doc)
      BY <3>0
    <3>2. CASE s = "target" /\ k = r.key /\ n = r.version
      <4>1. ~ unchecked
        BY <2>1, <2>2, <3>2
      <4>2. HeldBy(Range(job[j].bundle.versions), rows["source"])
        BY <4>1 DEF Traced
      <4>3. rows["source"][k][n] = r.doc /\ rows'[s][k][n] = r.doc
        BY <3>1, <3>2, <4>2 DEF HeldBy, RowPut
      <4>4. r.doc # None /\ "source" # "target" /\ "source" \in Sides
        BY <3>1, NoneAssumption DEF Row, Sides
      <4> QED
        BY <4>3, <4>4 DEF Honest
    <3>3. CASE ~ (s = "target" /\ k = r.key /\ n = r.version)
      <4>1. rows'[s][k][n] = rows[s][k][n]
        BY <3>1, <3>3 DEF RowPut
      <4> QED
        BY <2>2, <2>3, <4>1
    <3> QED
      BY <3>2, <3>3
  <2>6. CASE RowWritten
    <3>1. PICK t \in Sides, q \in Keys, m \in 1 .. MaxVersion, v \in Values :
            RowPut(t, q, m, DocOf(v))
      BY <2>6 DEF RowWritten
    <3>2. CASE s = t /\ k = q /\ n = m
      <4>1. rows'[s][k][n] = DocOf(v)
        BY <3>1, <3>2 DEF RowPut
      <4> QED
        BY <4>1, DocTyped
    <3>3. CASE ~ (s = t /\ k = q /\ n = m)
      <4>1. rows'[s][k][n] = rows[s][k][n]
        BY <3>1, <3>3 DEF RowPut
      <4> QED
        BY <2>2, <2>3, <4>1
    <3> QED
      BY <3>2, <3>3
  <2> QED
    BY <1>2, <2>4, <2>5, <2>6, RowsKinds
<1> QED
  BY <1>1, <1>2

-----------------------------------------------------------------------------
\* What a clean report is worth.

\* A bundle sends all of a key's versions ns.
Sends(b, k, ns) == \A n \in ns : \E r \in Range(b.versions) : r.key = k /\ r.version = n

\* A migrate's bundle holds all that its source held for every key it has read, and
\* for every key once it imports; only it reads the target, and only it reports.
CoveredBy(jb, held) ==
  /\ jb.side = "target" => jb.op = "migrate"
  /\ jb.outcome = "report" => jb.side = "target" /\ jb.pc = "done"
  /\ jb.op = "migrate" /\ jb.pc = "export" /\ jb.side = "source" =>
       \A k \in Keys \ jb.todo : Sends(jb.bundle, k, held[k])
  /\ jb.op = "migrate" /\ (jb.pc = "import" \/ jb.side = "target") =>
       \A k \in Keys : Sends(jb.bundle, k, held[k])

\* A clean report is true of every row that was sent.
ConfirmedBy(jb, T) ==
  jb.outcome = "report" /\ jb.missing = {} /\ jb.mismatched = {} =>
    \A r \in Range(jb.bundle.versions) :
      T[r.key][r.version] # None /\ T[r.key][r.version].sha256 = r.doc.sha256

\* The source still holds what it held when the job began.
Kept(j) == \A k \in Keys : atStart[j][k] \subseteq Stored("source", k)

Reported(j) ==
  /\ Kept(j) /\ CoveredBy(job[j], atStart[j])
  /\ HeldBy(Range(job[j].back.versions), rows["target"])
  /\ ConfirmedBy(job[j], rows["target"])

ReportInv == \A j \in Jobs : Reported(j)

LEMMA StoredGrows ==
  ASSUME RowsStay, NEW s \in Sides, NEW k \in Keys
  PROVE  Stored(s, k) \subseteq Stored(s, k)'
  BY DEF Stored, RowsStay

\* What was confirmed stays so, as rows do.
LEMMA StillConfirmed ==
  ASSUME TInv, RowsStay, NEW jb \in JobRecords, ConfirmedBy(jb, rows["target"])
  PROVE  ConfirmedBy(jb, rows'["target"])
<1>1. Range(jb.bundle.versions) \subseteq Row
  BY BundleTyped DEF JobRecords
<1>2. ASSUME NEW r \in Row, rows["target"][r.key][r.version] # None
      PROVE  rows'["target"][r.key][r.version] = rows["target"][r.key][r.version]
  BY <1>2 DEF RowsStay, Row, Sides
<1> QED
  BY <1>1, <1>2 DEF ConfirmedBy

\* It is enough to look at the job that moved.
LEMMA ReportFrom ==
  ASSUME TInv, RowsStay, ReportInv, NEW j \in Jobs, Others(j),
         \/ UNCHANGED atStart
         \/ atStart' = [atStart EXCEPT ![j] = [k \in Keys |-> Stored("source", k)]],
         CoveredBy(job'[j], atStart'[j]),
         HeldBy(Range(job'[j].back.versions), rows'["target"]),
         ConfirmedBy(job'[j], rows'["target"])
  PROVE  ReportInv'
<1>0. atStart \in [Jobs -> [Keys -> SUBSET (1 .. MaxVersion)]]
  BY DEF TInv, WatchesTyped
<1>1. ASSUME NEW i \in Jobs PROVE Kept(i)'
  <2>1. ASSUME NEW k \in Keys
        PROVE  atStart'[i][k] = atStart[i][k] \/ atStart'[i][k] = Stored("source", k)
    BY <1>0
  <2>2. ASSUME NEW k \in Keys PROVE atStart'[i][k] \subseteq Stored("source", k)
    BY <2>1, <2>2 DEF ReportInv, Reported, Kept
  <2>3. ASSUME NEW k \in Keys PROVE Stored("source", k) \subseteq Stored("source", k)'
    BY StoredGrows DEF Sides
  <2> QED
    BY <2>2, <2>3 DEF Kept
<1>2. ASSUME NEW i \in Jobs, i # j PROVE Reported(i)'
  <2>1. job'[i] = job[i] /\ atStart'[i] = atStart[i]
    BY <1>0, <1>2 DEF Others
  <2>2. job[i] \in JobRecords /\ Range(job[i].back.versions) \in SUBSET Row
    BY JobTyped, BundleTyped
  <2>3. /\ CoveredBy(job[i], atStart[i]) /\ ConfirmedBy(job[i], rows["target"])
        /\ HeldBy(Range(job[i].back.versions), rows["target"])
    BY DEF ReportInv, Reported
  <2>4. /\ ConfirmedBy(job[i], rows'["target"])
        /\ HeldBy(Range(job[i].back.versions), rows'["target"])
    BY <2>2, <2>3, StillHeld, StillConfirmed DEF Sides
  <2> QED
    BY <1>1, <2>1, <2>3, <2>4 DEF Reported
<1>3. Reported(j)'
  BY <1>1 DEF Reported
<1> QED
  BY <1>2, <1>3 DEF ReportInv

\* A job that begins, or is refused or rejected, has nothing to account for.
LEMMA ReportBegins ==
  ASSUME TInv, RowsStay, ReportInv, NEW j \in Jobs, Others(j), BeginsAs(j, job'[j]),
         \/ UNCHANGED atStart
         \/ atStart' = [atStart EXCEPT ![j] = [k \in Keys |-> Stored("source", k)]],
         job'[j].outcome # "report", job'[j].pc = "import" => job'[j].op # "migrate"
  PROVE  ReportInv'
<1>1. CoveredBy(job'[j], atStart'[j])
  BY DEF CoveredBy, BeginsAs
<1>2. HeldBy(Range(job'[j].back.versions), rows'["target"])
  BY EmptyBundle DEF BeginsAs, HeldBy
<1>3. ConfirmedBy(job'[j], rows'["target"])
  BY DEF ConfirmedBy
<1> QED
  BY <1>1, <1>2, <1>3, ReportFrom

\* A job that reads nothing more of the target, and does not report.
LEMMA ReportMoves ==
  ASSUME TInv, RowsStay, ReportInv, NEW j \in Jobs, Others(j), UNCHANGED atStart,
         CoveredBy(job'[j], atStart[j]), job'[j].back.versions = job[j].back.versions,
         job'[j].outcome # "report"
  PROVE  ReportInv'
<1>1. CoveredBy(job'[j], atStart'[j])
  OBVIOUS
<1>2. Range(job[j].back.versions) \in SUBSET Row
  BY JobTyped, BundleTyped
<1>3. HeldBy(Range(job[j].back.versions), rows["target"])
  BY DEF ReportInv, Reported
<1>4. HeldBy(Range(job[j].back.versions), rows'["target"])
  BY <1>2, <1>3, StillHeld DEF Sides
<1>5. ConfirmedBy(job'[j], rows'["target"])
  BY DEF ConfirmedBy
<1> QED
  BY <1>1, <1>4, <1>5, ReportFrom

LEMMA ReportInit ==
  ASSUME Init
  PROVE  ReportInv
<1>1. \A j \in Jobs : job[j] = NoJob /\ \A k \in Keys : atStart[j][k] = {}
  BY DEF Init
<1>2. HeldBy(Range(NoJob.back.versions), rows["target"])
  BY EmptyBundle, IdleJob DEF HeldBy
<1>3. \A held : CoveredBy(NoJob, held)
  BY IdleJob DEF CoveredBy
<1>4. ConfirmedBy(NoJob, rows["target"])
  BY IdleJob DEF ConfirmedBy
<1> QED
  BY <1>1, <1>2, <1>3, <1>4 DEF ReportInv, Reported, Kept

LEMMA ReportReads ==
  ASSUME TInv, RowsStay, ReportInv, NEW j \in Jobs, ReadVersions(j)
  PROVE  ReportInv'
<1>1. PICK k \in job[j].todo :
         /\ Others(j) /\ job[j].pc = "export" /\ job'[j].pc = "export"
         /\ job'[j].op = job[j].op /\ job'[j].side = job[j].side
         /\ SameReport(job'[j], job[j]) /\ job'[j].todo = job[j].todo \ {k}
         /\ job[j].side = "source" =>
              /\ job'[j].back = job[j].back
              /\ job'[j].bundle.versions =
                   job[j].bundle.versions \o ListVersionsDesc("source", k)
         /\ job[j].side # "source" =>
              /\ job'[j].bundle = job[j].bundle
              /\ job'[j].back.versions =
                   job[j].back.versions \o ListVersionsDesc("target", k)
         /\ Quiet
  BY ReadVersionsShape
<1>2. /\ k \in Keys /\ job[j].side \in Sides
      /\ job[j].bundle.versions \in Seq(Row) /\ job[j].back.versions \in Seq(Row)
  BY JobTyped, BundleTyped
<1>3. UNCHANGED atStart
  BY <1>1 DEF Quiet, watches
<1>4. CoveredBy(job[j], atStart[j]) /\ Kept(j)
  BY DEF ReportInv, Reported
<1>5. job[j].outcome # "report" /\ job'[j].outcome # "report"
  BY <1>1, <1>4 DEF CoveredBy, SameReport
<1>6. CASE job[j].side = "source"
  <2> DEFINE list == ListVersionsDesc("source", k)
             vs == job[j].bundle.versions
  <2>1. /\ list \in Seq(Row)
        /\ \A n \in Stored("source", k) : \E r \in Range(list) : r.key = k /\ r.version = n
    BY <1>2, ListedRows DEF TInv, Sides
  <2>2. Range(job'[j].bundle.versions) = Range(vs) \cup Range(list)
    <3>1. job'[j].bundle.versions = vs \o list
      BY <1>1, <1>6
    <3>2. vs \in Seq(Row) /\ list \in Seq(Row)
      BY <1>2, <2>1
    <3> HIDE DEF list, vs
    <3> QED
      BY <3>1, <3>2, ConcatRange
  <2>3. Sends(job'[j].bundle, k, atStart[j][k])
    BY <1>2, <1>4, <2>1, <2>2 DEF Kept, Sends
  <2> HIDE DEF list
  <2>4. ASSUME NEW q \in Keys, Sends(job[j].bundle, q, atStart[j][q])
        PROVE  Sends(job'[j].bundle, q, atStart[j][q])
    BY <2>2, <2>4 DEF Sends
  <2>5. CoveredBy(job'[j], atStart[j])
    BY <1>1, <1>4, <1>5, <1>6, <2>3, <2>4 DEF CoveredBy
  <2> QED
    BY <1>1, <1>3, <1>5, <1>6, <2>5, ReportMoves
<1>7. CASE job[j].side # "source"
  <2> DEFINE list == ListVersionsDesc("target", k)
             vs == job[j].back.versions
  <2>1. /\ list \in Seq(Row)
        /\ \A r \in Range(list) : /\ r.key = k /\ r.version \in Stored("target", k)
                                  /\ r.doc = rows["target"][k][r.version]
    BY <1>2, ListedRows DEF TInv, Sides
  <2>2. Range(job'[j].back.versions) = Range(vs) \cup Range(list)
    <3>1. job'[j].back.versions = vs \o list
      BY <1>1, <1>7
    <3>2. vs \in Seq(Row) /\ list \in Seq(Row)
      BY <1>2, <2>1
    <3> HIDE DEF list, vs
    <3> QED
      BY <3>1, <3>2, ConcatRange
  <2>3. Range(vs) \in SUBSET Row /\ Range(list) \in SUBSET Row
    BY <1>2, <2>1, SeqRange
  <2>4. HeldBy(Range(vs), rows["target"]) /\ HeldBy(Range(list), rows["target"])
    BY <2>1 DEF ReportInv, Reported, HeldBy
  <2> HIDE DEF list
  <2>5. HeldBy(Range(vs), rows'["target"]) /\ HeldBy(Range(list), rows'["target"])
    BY <2>3, <2>4, StillHeld DEF Sides
  <2>6. HeldBy(Range(job'[j].back.versions), rows'["target"])
    BY <2>2, <2>5 DEF HeldBy
  <2>7. CoveredBy(job'[j], atStart'[j])
    BY <1>1, <1>3, <1>4, <1>5, <1>7 DEF CoveredBy
  <2>8. ConfirmedBy(job'[j], rows'["target"])
    BY <1>5 DEF ConfirmedBy
  <2> QED
    BY <1>1, <1>3, <2>6, <2>7, <2>8, ReportFrom
<1> QED
  BY <1>6, <1>7

LEMMA ReportCompares ==
  ASSUME TInv, RowsStay, ReportInv, NEW j \in Jobs, Compare(j)
  PROVE  ReportInv'
<1> DEFINE sent == Range(job[j].bundle.versions)
           there == Range(job[j].back.versions)
<1>1. /\ job' \in [Jobs -> JobRecords] /\ Others(j) /\ job[j].pc = "export"
      /\ job'[j].pc = "done" /\ job[j].side = "target" /\ job'[j].side = "target"
      /\ job'[j].op = job[j].op /\ job'[j].bundle = job[j].bundle
      /\ job'[j].back = job[j].back
      /\ job'[j].missing = {r \in sent : \A t \in there :
                              ~ (r.key = t.key /\ r.version = t.version)}
      /\ job'[j].mismatched = {r \in sent : \E t \in there :
           (r.key = t.key /\ r.version = t.version) /\ r.doc.sha256 # t.doc.sha256}
      /\ UNCHANGED stores /\ UNCHANGED atStart
  BY CompareShape DEF SameBundles, Quiet, watches
<1>2. CoveredBy(job[j], atStart[j]) /\ HeldBy(there, rows["target"])
  BY DEF ReportInv, Reported
<1>3. CoveredBy(job'[j], atStart'[j])
  BY <1>1, <1>2 DEF CoveredBy
<1>4. rows' = rows
  BY <1>1 DEF stores
<1>5. HeldBy(Range(job'[j].back.versions), rows'["target"])
  BY <1>1, <1>2, <1>4
<1>6. ConfirmedBy(job'[j], rows'["target"])
  <2>1. SUFFICES ASSUME job'[j].missing = {}, job'[j].mismatched = {}, NEW r \in sent
                 PROVE  /\ rows["target"][r.key][r.version] # None
                        /\ rows["target"][r.key][r.version].sha256 = r.doc.sha256
    BY <1>1, <1>4 DEF ConfirmedBy
  <2>2. PICK t \in there : r.key = t.key /\ r.version = t.version
    BY <1>1, <2>1
  <2>3. r.doc.sha256 = t.doc.sha256
    BY <1>1, <2>1, <2>2
  <2>4. rows["target"][r.key][r.version] = t.doc
    BY <1>2, <2>2 DEF HeldBy
  <2>5. t \in Row
    BY JobTyped, BundleTyped
  <2>6. t.doc # None
    BY <2>5, NoneAssumption DEF Row
  <2> QED
    BY <2>3, <2>4, <2>6
<1> QED
  BY <1>1, <1>3, <1>5, <1>6, ReportFrom

LEMMA ReportNext ==
  ASSUME TInv, ReportInv, [Next]_vars
  PROVE  ReportInv'
<1>0. RowsStay
  BY RowsKept
<1>1. ASSUME NEW j \in Jobs, NEW op \in {"migrate", "export", "backup"},
             NEW s \in Secrets \cup {None}, BeginExport(j, op, s)
      PROVE  ReportInv'
  <2>1. /\ Others(j) /\ BeginsAs(j, job'[j]) /\ job'[j].pc = "keys"
        /\ job'[j].outcome = "none"
        /\ atStart' = [atStart EXCEPT ![j] = [k \in Keys |-> Stored("source", k)]]
    BY <1>1, BeginExportShape
  <2> QED
    BY <1>0, <2>1, ReportBegins
<1>2. ASSUME NEW j \in Jobs, NEW s \in Secrets \cup {None}, BeginRestore(j, s)
      PROVE  ReportInv'
  <2>1. /\ Others(j) /\ BeginsAs(j, job'[j]) /\ job'[j].op = "restore"
        /\ job'[j].outcome \in {"none", "refused"}
        /\ atStart' = [atStart EXCEPT ![j] = [k \in Keys |-> Stored("source", k)]]
    BY <1>2, BeginRestoreShape
  <2> QED
    BY <1>0, <2>1, ReportBegins
<1>3. ASSUME NEW j \in Jobs, BeginImport(j) PROVE ReportInv'
  <2>1. /\ Others(j) /\ BeginsAs(j, job'[j]) /\ job'[j].op = "import"
        /\ job'[j].outcome = "none"
        /\ atStart' = [atStart EXCEPT ![j] = [k \in Keys |-> Stored("source", k)]]
    BY <1>3, BeginImportShape
  <2> QED
    BY <1>0, <2>1, ReportBegins
<1>4. ASSUME NEW j \in Jobs PROVE CoveredBy(job[j], atStart[j]) /\ Kept(j)
  BY DEF ReportInv, Reported
<1>5. ASSUME NEW j \in Jobs, ReadKeys(j) PROVE ReportInv'
  <2>1. /\ Others(j) /\ job[j].pc = "keys" /\ job'[j].pc = "export"
        /\ job'[j].op = job[j].op /\ job'[j].side = job[j].side
        /\ job'[j].outcome = job[j].outcome
        /\ job'[j].bundle = job[j].bundle /\ job'[j].back = job[j].back
        /\ job'[j].todo = DistinctKeys(job[j].side) /\ UNCHANGED atStart
    BY <1>5, ReadKeysShape DEF SameReport, SameBundles, Quiet, watches
  <2>2. ASSUME NEW k \in Keys \ DistinctKeys("source") PROVE atStart[j][k] = {}
    BY <1>4 DEF Kept, DistinctKeys
  <2>3. job'[j].outcome # "report" /\ CoveredBy(job'[j], atStart[j])
    BY <1>4, <2>1, <2>2 DEF CoveredBy, Sends
  <2> QED
    BY <1>0, <2>1, <2>3, ReportMoves
<1>6. ASSUME NEW j \in Jobs, ReadVersions(j) PROVE ReportInv'
  BY <1>0, <1>6, ReportReads
<1>7. ASSUME NEW j \in Jobs, ReadLabel(j) PROVE ReportInv'
  <2>1. /\ Others(j) /\ job[j].pc = "export" /\ job'[j].pc = "export"
        /\ job'[j].op = job[j].op /\ job'[j].side = job[j].side
        /\ job'[j].outcome = job[j].outcome /\ job'[j].todo = job[j].todo
        /\ job'[j].bundle.versions = job[j].bundle.versions
        /\ job'[j].back.versions = job[j].back.versions /\ UNCHANGED atStart
    BY <1>7, ReadLabelShape DEF SameReport, Quiet, watches
  <2>2. job'[j].outcome # "report" /\ CoveredBy(job'[j], atStart[j])
    BY <1>4, <2>1 DEF CoveredBy, Sends
  <2> QED
    BY <1>0, <2>1, <2>2, ReportMoves
<1>8. ASSUME NEW j \in Jobs, Seal(j) \/ WriteBundle(j) PROVE ReportInv'
  <2>1. /\ Others(j) /\ job'[j].pc = "done" /\ job'[j].outcome = "ok"
        /\ job[j].op \in {"export", "backup"} /\ job'[j].op = job[j].op
        /\ job'[j].side = job[j].side /\ job'[j].back = job[j].back /\ UNCHANGED atStart
    BY <1>8, KeepShape DEF SameBundles
  <2>2. CoveredBy(job'[j], atStart[j])
    BY <1>4, <2>1 DEF CoveredBy
  <2> QED
    BY <1>0, <2>1, <2>2, ReportMoves
<1>9. ASSUME NEW j \in Jobs, StartImport(j) PROVE ReportInv'
  <2>1. /\ Others(j) /\ job[j].pc = "export" /\ job[j].todo = {} /\ job[j].op = "migrate"
        /\ job[j].side = "source" /\ job'[j].pc = "import"
        /\ job'[j].op = job[j].op /\ job'[j].side = job[j].side
        /\ job'[j].outcome = job[j].outcome
        /\ job'[j].bundle = job[j].bundle /\ job'[j].back = job[j].back
        /\ UNCHANGED atStart
    BY <1>9, StartImportShape DEF SameReport, SameBundles, Quiet, watches
  <2>2. job'[j].outcome # "report" /\ CoveredBy(job'[j], atStart[j])
    BY <1>4, <2>1 DEF CoveredBy
  <2> QED
    BY <1>0, <2>1, <2>2, ReportMoves
<1>10. ASSUME NEW j \in Jobs, InsertVersion(j) \/ UpsertLabel(j) PROVE ReportInv'
  <2>1. /\ Others(j) /\ job[j].pc = "import" /\ job'[j].pc = "import"
        /\ job'[j].op = job[j].op /\ job'[j].side = job[j].side
        /\ job'[j].outcome = job[j].outcome
        /\ job'[j].bundle = job[j].bundle /\ job'[j].back = job[j].back
        /\ UNCHANGED atStart
    BY <1>10, ImportShape DEF ImportedOne, SameReport, SameBundles, Quiet, watches
  <2>2. job'[j].outcome # "report" /\ CoveredBy(job'[j], atStart[j])
    BY <1>4, <2>1 DEF CoveredBy
  <2> QED
    BY <1>0, <2>1, <2>2, ReportMoves
<1>11. ASSUME NEW j \in Jobs, Imported(j) PROVE ReportInv'
  <2>1. /\ Others(j) /\ job[j].pc = "import" /\ job'[j].op = job[j].op
        /\ job'[j].bundle = job[j].bundle /\ job'[j].back = job[j].back
        /\ \/ /\ job[j].op = "migrate" /\ job'[j].pc = "keys" /\ job'[j].side = "target"
              /\ job'[j].outcome = job[j].outcome
           \/ /\ job[j].op # "migrate" /\ job'[j].pc = "done"
              /\ job'[j].side = job[j].side /\ job'[j].outcome = "ok"
        /\ UNCHANGED atStart
    BY <1>11, ImportedShape DEF SameReport, SameBundles, Quiet, watches
  <2>2. job'[j].outcome # "report" /\ CoveredBy(job'[j], atStart[j])
    BY <1>4, <2>1 DEF CoveredBy
  <2> QED
    BY <1>0, <2>1, <2>2, ReportMoves
<1>12. ASSUME NEW j \in Jobs, Compare(j) PROVE ReportInv'
  BY <1>0, <1>12, ReportCompares
<1>13. ASSUME NEW j \in Jobs, AwaitRejects(j) PROVE ReportInv'
  <2>1. /\ Others(j) /\ BeginsAs(j, job'[j]) /\ job'[j].outcome = "rejected"
        /\ job'[j].pc = "done" /\ UNCHANGED atStart
    BY <1>13, RejectShape DEF watches
  <2> QED
    BY <1>0, <2>1, ReportBegins
<1>14. ASSUME UNCHANGED <<job, atStart>> PROVE ReportInv'
  <2>1. ASSUME NEW j \in Jobs PROVE Reported(j)'
    <3>1. job[j] \in JobRecords /\ Range(job[j].back.versions) \in SUBSET Row
      BY JobTyped, BundleTyped
    <3>2. /\ CoveredBy(job[j], atStart[j]) /\ ConfirmedBy(job[j], rows["target"])
          /\ HeldBy(Range(job[j].back.versions), rows["target"])
      BY DEF ReportInv, Reported
    <3>3. /\ ConfirmedBy(job[j], rows'["target"])
          /\ HeldBy(Range(job[j].back.versions), rows'["target"])
      BY <1>0, <3>1, <3>2, StillHeld, StillConfirmed DEF Sides
    <3>4. \A k \in Keys : Stored("source", k) \subseteq Stored("source", k)'
      BY <1>0, StoredGrows DEF Sides
    <3>5. Kept(j)'
      BY <1>4, <1>14, <3>4 DEF Kept
    <3> QED
      BY <1>14, <3>2, <3>3, <3>5 DEF Reported
  <2> QED
    BY <2>1 DEF ReportInv
<1>15. EditFile => UNCHANGED <<job, atStart>>
  BY DEF EditFile
<1>16. \A s \in Sides, k \in Keys, v \in Values :
         AddVersion(s, k, v) => UNCHANGED <<job, atStart>>
  BY DEF AddVersion
<1>17. \A s \in Sides, k \in Keys, l \in Labels, n \in 1 .. MaxVersion :
         Promote(s, k, l, n) => UNCHANGED <<job, atStart>>
  BY DEF Promote
<1>18. UNCHANGED vars => UNCHANGED <<job, atStart>>
  BY DEF vars, watches
<1> QED
  BY <1>1, <1>2, <1>3, <1>5, <1>6, <1>7, <1>8, <1>9, <1>10, <1>11, <1>12, <1>13,
     <1>14, <1>15, <1>16, <1>17, <1>18, Kinds

\* A migrate that ends with a clean report has copied every row that its source
\* held when it began, with its hash and, unless an import took an edited file,
\* its value; and the copy is still there, whatever other jobs, users and faults
\* did before and since.
THEOREM CleanReportsAreTrue == Spec => []CleanReportIsCopied
<1>1. ASSUME TInv, Traced, Honest, ReportInv PROVE CleanReportIsCopied
  <2>1. SUFFICES ASSUME NEW j \in Jobs, Verified(j), NEW k \in Keys, NEW n \in atStart[j][k]
                 PROVE  /\ rows["target"][k][n] # None
                        /\ rows["target"][k][n].sha256 = rows["source"][k][n].sha256
                        /\ \/ unchecked
                           \/ Hash[rows["target"][k][n].value]
                                = Hash[rows["source"][k][n].value]
    BY DEF CleanReportIsCopied
  <2>2. Reported(j)
    BY <1>1 DEF ReportInv
  <2>3. job[j].op = "migrate" /\ Sends(job[j].bundle, k, atStart[j][k])
    BY <2>1, <2>2 DEF Reported, CoveredBy, Verified
  <2>4. PICK r \in Range(job[j].bundle.versions) : r.key = k /\ r.version = n
    BY <2>1, <2>3 DEF Sends
  <2>5. /\ rows["target"][k][n] # None
        /\ rows["target"][k][n].sha256 = r.doc.sha256
    BY <2>1, <2>2, <2>4 DEF Reported, ConfirmedBy, Verified
  <2>6. rows["source"][k][n] = r.doc
    BY <1>1, <2>3, <2>4 DEF Traced, HeldBy
  <2>7. n \in 1 .. MaxVersion /\ rows["source"][k][n] # None
    BY <2>1, <2>2 DEF Reported, Kept, Stored
  <2>8. /\ rows["source"][k][n].sha256 = Hash[rows["source"][k][n].value]
        /\ unchecked \/ rows["target"][k][n].sha256 = Hash[rows["target"][k][n].value]
    BY <1>1, <2>5, <2>7 DEF Honest, Sides
  <2> QED
    BY <2>5, <2>6, <2>8
<1>2. Init => TInv /\ Traced /\ Honest /\ ReportInv
  BY TInvInit, TracedInit, HonestInit, ReportInit
<1>3. TInv /\ Traced /\ Honest /\ ReportInv /\ [Next]_vars
        => TInv' /\ Traced' /\ Honest' /\ ReportInv'
  BY TInvNext, TracedNext, HonestNext, ReportNext
<1> QED
  BY <1>1, <1>2, <1>3, PTL DEF Spec

-----------------------------------------------------------------------------
\* What the labels of the target name.

\* Every pointer of P names a row of R.
Backs(R, P) == \A p \in P : \E r \in R : r.key = p.key /\ r.version = p.version

BundleBacks(b) == Backs(Range(b.versions), Range(b.labels))

\* Every label L of a side S that is set names a row.
Resolves(S, L) == \A k \in Keys, l \in Labels : L[k][l] # 0 => S[k][L[k][l]] # None

\* The rows that a job is past are on the target T.
Arrived(jb, T) ==
  jb.pc = "import" =>
    \A i \in 1 .. Len(jb.bundle.versions) : i <= jb.at =>
      T[jb.bundle.versions[i].key][jb.bundle.versions[i].version] # None

\* The labels a job has yet to read, of the source's L, name rows it has read.
ReadsBacked(jb, L) ==
  jb.side = "source" /\ jb.pc = "export" /\ jb.left # {} =>
    \A l \in Labels : L[jb.reading][l] # 0 =>
      Sends(jb.bundle, jb.reading, {L[jb.reading][l]})

\* An export of the source is fresh; the rest holds unless an export was raced.
SteadyBy(jb, T, L, z) ==
  /\ jb.side = "source" /\ jb.pc \in {"keys", "export"} => jb.at = 0
  /\ jb.side = "source" /\ jb.pc = "keys" => jb.left = {}
  /\ Arrived(jb, T)
  /\ z \/ ReadsBacked(jb, L)

Steady == \A j \in Jobs : SteadyBy(job[j], rows["target"], labels["source"], raced)

Backed ==
  /\ \A j \in Jobs : raced \/ (job[j].op = "import" /\ unchecked) \/ BundleBacks(job[j].bundle)
  /\ raced \/ edited \/ BundleBacks(file.bundle)
  /\ file.contentHash # None => raced \/ Backs(file.contentHash[1], file.contentHash[2])

LabelInv ==
  /\ Resolves(rows["source"], labels["source"]) /\ Steady /\ Backed
  /\ raced \/ unchecked \/ Resolves(rows["target"], labels["target"])

\* The labels stay, or a job imports one, or a user promotes.
LabelsSame == UNCHANGED <<labels, raced>>

LabelImported ==
  \E j \in Jobs :
    /\ job[j].pc = "import" /\ job[j].at >= Len(job[j].bundle.versions)
    /\ UNCHANGED <<rows, raced, unchecked>>
    /\ \E p \in Pointer :
         p \in Range(job[j].bundle.labels) /\ LabelPut("target", p.key, p.label, p.version)

LabelPromoted ==
  \E s \in Sides, k \in Keys, l \in Labels, n \in 1 .. MaxVersion :
    /\ rows[s][k][n] # None /\ LabelPut(s, k, l, n)
    /\ raced' = (raced \/ Races(s, k, n))
    /\ UNCHANGED <<rows, job, file, edited, unchecked>>

LEMMA LabelsKinds ==
  ASSUME TInv, Next
  PROVE  LabelsSame \/ LabelImported \/ LabelPromoted
<1>1. ASSUME NEW j \in Jobs,
             \/ \E op \in {"migrate", "export", "backup"}, s \in Secrets \cup {None} :
                  BeginExport(j, op, s)
             \/ \E s \in Secrets \cup {None} : BeginRestore(j, s)
             \/ BeginImport(j)
      PROVE  LabelsSame
  BY <1>1 DEF BeginExport, BeginRestore, BeginImport, Begin, stores, LabelsSame
<1>2. ASSUME NEW j \in Jobs,
             \/ ReadKeys(j) \/ ReadVersions(j) \/ ReadLabel(j) \/ StartImport(j)
             \/ InsertVersion(j) \/ Imported(j) \/ Compare(j) \/ AwaitRejects(j)
      PROVE  LabelsSame
  BY <1>2 DEF ReadKeys, ReadVersions, ReadLabel, StartImport, InsertVersion,
     Imported, Compare, AwaitRejects, Step, stores, watches, LabelsSame
<1>3. ASSUME NEW j \in Jobs, Seal(j) \/ WriteBundle(j) PROVE LabelsSame
  BY <1>3 DEF Seal, WriteBundle, Keep, stores, LabelsSame
<1>4. ASSUME NEW j \in Jobs, UpsertLabel(j) PROVE LabelImported
  <2>1. /\ job[j].pc = "import" /\ UNCHANGED <<rows, raced, unchecked>>
    BY <1>4 DEF UpsertLabel, Importing, At, Step, watches
  <2>2. PICK p \in Pointer :
          /\ job[j].at >= Len(job[j].bundle.versions)
          /\ p \in Range(job[j].bundle.labels) /\ LabelPut("target", p.key, p.label, p.version)
    BY <1>4, UpsertShape
  <2> QED
    BY <2>1, <2>2 DEF LabelImported
<1>5. EditFile => LabelsSame
  BY DEF EditFile, stores, LabelsSame
<1>6. \A s \in Sides, k \in Keys, v \in Values : AddVersion(s, k, v) => LabelsSame
  BY DEF AddVersion, LabelsSame
<1>7. ASSUME NEW s \in Sides, NEW k \in Keys, NEW l \in Labels, NEW n \in 1 .. MaxVersion,
             Promote(s, k, l, n)
      PROVE  LabelPromoted
  <2>1. /\ rows[s][k][n] # None /\ LabelPut(s, k, l, n)
        /\ raced' = (raced \/ Races(s, k, n))
        /\ UNCHANGED <<rows, job, file, edited, unchecked>>
    BY <1>7, PromoteShape
  <2> QED
    BY <2>1 DEF LabelPromoted
<1> QED
  BY <1>1, <1>2, <1>3, <1>4, <1>5, <1>6, <1>7, Kinds

LEMMA RacedStays ==
  ASSUME TInv, Next, raced
  PROVE  raced'
  BY LabelsKinds DEF LabelsSame, LabelImported, LabelPromoted

LEMMA LabelsOf ==
  ASSUME LabelsTyped, NEW s \in Sides, NEW k \in Keys, NEW l \in Labels, labels[s][k][l] # 0
  PROVE  labels[s][k][l] \in 1 .. MaxVersion
<1>1. labels[s][k][l] \in 0 .. MaxVersion
  BY DEF LabelsTyped
<1> QED
  BY <1>1, MigrationAssumption

\* A label that resolved does so still, for rows stay.
LEMMA StillResolves ==
  ASSUME TInv, RowsStay, NEW s \in Sides, Resolves(rows[s], labels[s])
  PROVE  Resolves(rows'[s], labels[s])
<1> SUFFICES ASSUME NEW k \in Keys, NEW l \in Labels, labels[s][k][l] # 0
             PROVE  rows'[s][k][labels[s][k][l]] # None
  BY DEF Resolves
<1>1. labels[s][k][l] \in 1 .. MaxVersion
  BY LabelsOf DEF TInv
<1>2. rows[s][k][labels[s][k][l]] # None
  BY DEF Resolves
<1> QED
  BY <1>1, <1>2 DEF RowsStay

\* So does a label that was put to a row.
LEMMA PutResolves ==
  ASSUME NEW s \in Sides, NEW t \in Sides, NEW k \in Keys, NEW l \in Labels,
         NEW n \in 1 .. MaxVersion, LabelPut(t, k, l, n), rows'[t][k][n] # None,
         Resolves(rows'[s], labels[s])
  PROVE  Resolves(rows'[s], labels'[s])
<1> SUFFICES ASSUME NEW q \in Keys, NEW m \in Labels, labels'[s][q][m] # 0
             PROVE  rows'[s][q][labels'[s][q][m]] # None
  BY DEF Resolves
<1>1. CASE s = t /\ q = k /\ m = l
  BY <1>1 DEF LabelPut
<1>2. CASE ~ (s = t /\ q = k /\ m = l)
  <2>1. labels'[s][q][m] = labels[s][q][m]
    BY <1>2 DEF LabelPut
  <2> QED
    BY <2>1 DEF Resolves
<1> QED
  BY <1>1, <1>2

LEMMA SourceResolvesNext ==
  ASSUME TInv, Next, Resolves(rows["source"], labels["source"])
  PROVE  Resolves(rows'["source"], labels'["source"])
<1>0. RowsStay /\ "source" \in Sides /\ "target" \in Sides /\ "source" # "target"
  BY RowsKept DEF Sides
<1>1. Resolves(rows'["source"], labels["source"])
  BY <1>0, StillResolves
<1>2. CASE LabelsSame
  BY <1>1, <1>2 DEF LabelsSame
<1>3. CASE LabelImported
  <2>1. PICK p \in Pointer : LabelPut("target", p.key, p.label, p.version)
    BY <1>3 DEF LabelImported
  <2>2. \A k \in Keys, l \in Labels : labels'["source"][k][l] = labels["source"][k][l]
    BY <1>0, <2>1 DEF LabelPut
  <2> QED
    BY <1>1, <2>2 DEF Resolves
<1>4. CASE LabelPromoted
  <2>1. PICK s \in Sides, k \in Keys, l \in Labels, n \in 1 .. MaxVersion :
          rows[s][k][n] # None /\ LabelPut(s, k, l, n)
    BY <1>4 DEF LabelPromoted
  <2>2. rows'[s][k][n] # None
    BY <1>0, <2>1 DEF RowsStay
  <2> QED
    BY <1>0, <1>1, <2>1, <2>2, PutResolves
<1> QED
  BY <1>2, <1>3, <1>4, LabelsKinds

\* A job is as steady when rows come, and when labels of the target change.
LEMMA StillSteady ==
  ASSUME TInv, RowsStay, NEW jb \in JobRecords, NEW z,
         SteadyBy(jb, rows["target"], labels["source"], z),
         \A k \in Keys, l \in Labels : labels'["source"][k][l] = labels["source"][k][l],
         jb.left # {} => jb.reading \in Keys
  PROVE  SteadyBy(jb, rows'["target"], labels'["source"], z)
<1>1. jb.bundle.versions \in Seq(Row)
  BY BundleTyped DEF JobRecords
<1>2. ASSUME NEW r \in Row, rows["target"][r.key][r.version] # None
      PROVE  rows'["target"][r.key][r.version] # None
  BY <1>2 DEF RowsStay, Row, Sides
<1>3. \A i \in 1 .. Len(jb.bundle.versions) : jb.bundle.versions[i] \in Row
  BY <1>1, SeqRange
<1>4. Arrived(jb, rows'["target"])
  BY <1>2, <1>3 DEF Arrived, SteadyBy
<1>5. ReadsBacked(jb, labels["source"]) => ReadsBacked(jb, labels'["source"])
  BY DEF ReadsBacked
<1> QED
  BY <1>4, <1>5 DEF SteadyBy

\* It is enough to look at the job that moved.
LEMMA SteadyFrom ==
  ASSUME TInv, RowsStay, Steady, NEW j \in Jobs, Others(j), UNCHANGED raced,
         \A k \in Keys, l \in Labels : labels'["source"][k][l] = labels["source"][k][l],
         SteadyBy(job'[j], rows'["target"], labels'["source"], raced)
  PROVE  Steady'
<1>1. ASSUME NEW i \in Jobs, i # j
      PROVE  SteadyBy(job'[i], rows'["target"], labels'["source"], raced')
  <2>1. job'[i] = job[i]
    BY <1>1 DEF Others
  <2>2. job[i] \in JobRecords /\ (job[i].left # {} => job[i].reading \in Keys)
    BY JobTyped, ReadsKey
  <2>3. SteadyBy(job[i], rows["target"], labels["source"], raced)
    BY DEF Steady
  <2>4. SteadyBy(job[i], rows'["target"], labels'["source"], raced)
    BY <2>2, <2>3, StillSteady
  <2> QED
    BY <2>1, <2>4
<1> QED
  BY <1>1 DEF Steady

\* A job that neither exports nor imports is steady.
LEMMA SteadyIdle ==
  ASSUME TInv, RowsStay, Steady, NEW j \in Jobs, Others(j), UNCHANGED <<labels, raced>>,
         job'[j].pc \in {"keys", "done"} \/ (job'[j].side # "source" /\ job'[j].pc # "import"),
         job'[j].side = "source" /\ job'[j].pc = "keys" => job'[j].at = 0 /\ job'[j].left = {}
  PROVE  Steady'
<1>1. SteadyBy(job'[j], rows'["target"], labels'["source"], raced)
  BY DEF SteadyBy, Arrived, ReadsBacked
<1> QED
  BY <1>1, SteadyFrom

\* Nor has one that begins to import anything to show.
LEMMA SteadyStarts ==
  ASSUME TInv, RowsStay, Steady, NEW j \in Jobs, Others(j), UNCHANGED <<labels, raced>>,
         job'[j].pc = "import", job'[j].at = 0
  PROVE  Steady'
<1>1. \A i \in Nat \ {0} : ~ (i <= 0)
  OBVIOUS
<1>2. \A n : \A i \in 1 .. n : i \in Nat \ {0}
  OBVIOUS
<1>3. SteadyBy(job'[j], rows'["target"], labels'["source"], raced)
  BY <1>1, <1>2 DEF SteadyBy, Arrived, ReadsBacked
<1> QED
  BY <1>3, SteadyFrom

LEMMA SteadyReads ==
  ASSUME TInv, RowsStay, Steady, Resolves(rows["source"], labels["source"]),
         NEW j \in Jobs, ReadVersions(j)
  PROVE  Steady'
<1>1. PICK k \in job[j].todo :
         /\ Others(j) /\ job[j].pc = "export" /\ job'[j].pc = "export"
         /\ job'[j].side = job[j].side /\ job'[j].at = job[j].at /\ job'[j].reading = k
         /\ job[j].side = "source" =>
              job'[j].bundle.versions =
                job[j].bundle.versions \o ListVersionsDesc("source", k)
         /\ UNCHANGED stores /\ Quiet
  BY ReadVersionsShape
<1>2. k \in Keys /\ job[j].bundle.versions \in Seq(Row)
  BY JobTyped, BundleTyped
<1>3. UNCHANGED <<rows, labels, raced>>
  BY <1>1 DEF stores, Quiet, watches
<1>4. SteadyBy(job[j], rows["target"], labels["source"], raced)
  BY DEF Steady
<1>5. ReadsBacked(job'[j], labels["source"])
  <2>1. SUFFICES ASSUME job[j].side = "source", NEW l \in Labels, labels["source"][k][l] # 0
                 PROVE  Sends(job'[j].bundle, k, {labels["source"][k][l]})
    BY <1>1 DEF ReadsBacked
  <2> DEFINE list == ListVersionsDesc("source", k)
             vs == job[j].bundle.versions
  <2>2. labels["source"][k][l] \in Stored("source", k)
    <3>1. labels["source"][k][l] \in 1 .. MaxVersion
      BY <1>2, <2>1, LabelsOf DEF TInv, Sides
    <3> QED
      BY <1>2, <2>1, <3>1 DEF Resolves, Stored
  <2>3. /\ list \in Seq(Row)
        /\ \A n \in Stored("source", k) : \E r \in Range(list) : r.key = k /\ r.version = n
    BY <1>2, ListedRows DEF TInv, Sides
  <2>4. job'[j].bundle.versions = vs \o list /\ vs \in Seq(Row)
    BY <1>1, <1>2, <2>1
  <2> HIDE DEF list, vs
  <2>5. Range(job'[j].bundle.versions) = Range(vs) \cup Range(list)
    BY <2>3, <2>4, ConcatRange
  <2> QED
    BY <2>2, <2>3, <2>5 DEF Sends
<1>6. SteadyBy(job'[j], rows'["target"], labels'["source"], raced)
  BY <1>1, <1>3, <1>4, <1>5 DEF SteadyBy, Arrived
<1> QED
  BY <1>1, <1>3, <1>6, SteadyFrom

LEMMA SteadyImports ==
  ASSUME TInv, RowsStay, Steady, NEW j \in Jobs, InsertVersion(j) \/ UpsertLabel(j)
  PROVE  Steady'
<1> DEFINE vs == job[j].bundle.versions
           T == rows'["target"]
<1>1. /\ Others(j) /\ job[j].pc = "import" /\ job'[j].pc = "import"
      /\ job'[j].at = job[j].at + 1 /\ job'[j].bundle.versions = vs /\ UNCHANGED raced
  BY ImportShape DEF ImportedOne, SameBundles, Quiet, watches
<1>2. /\ vs \in Seq(Row) /\ Len(vs) \in Nat /\ job[j].at \in Nat
  BY JobTyped, BundleTyped, AtTyped
<1>3. \A k \in Keys, l \in Labels : labels'["source"][k][l] = labels["source"][k][l]
  <2>1. CASE InsertVersion(j)
    BY <2>1 DEF InsertVersion
  <2>2. CASE UpsertLabel(j)
    <3>1. PICK p \in Pointer : LabelPut("target", p.key, p.label, p.version)
      BY <2>2, UpsertShape
    <3> QED
      BY <3>1 DEF LabelPut, Sides
  <2> QED
    BY <2>1, <2>2
<1>4. SteadyBy(job[j], T, labels'["source"], raced)
  <2>1. /\ job[j] \in JobRecords /\ (job[j].left # {} => job[j].reading \in Keys)
        /\ SteadyBy(job[j], rows["target"], labels["source"], raced)
    BY JobTyped, ReadsKey DEF Steady
  <2> QED
    BY <1>3, <2>1, StillSteady
<1>5. ASSUME NEW i \in 1 .. Len(vs), i <= job[j].at + 1
      PROVE  T[vs[i].key][vs[i].version] # None
  <2>1. CASE i <= job[j].at
    BY <1>1, <1>4, <2>1 DEF SteadyBy, Arrived
  <2>2. CASE ~ (i <= job[j].at)
    <3>1. i = job[j].at + 1
      BY <1>2, <1>5, <2>2
    <3>2. InsertVersion(j)
      <4>1. SUFFICES ASSUME UpsertLabel(j) PROVE FALSE
        OBVIOUS
      <4>2. job[j].at >= Len(vs)
        BY <4>1, UpsertShape
      <4> QED
        BY <1>2, <2>2, <4>2
    <3>3. PICK r \in Row :
            /\ r = vs[job[j].at + 1]
            /\ \/ rows["target"][r.key][r.version] # None /\ UNCHANGED rows
               \/ RowPut("target", r.key, r.version, r.doc)
      BY <3>2, InsertShape
    <3>4. r.doc # None
      BY NoneAssumption DEF Row
    <3>5. T[r.key][r.version] # None
      BY <3>3, <3>4 DEF RowPut
    <3> QED
      BY <3>1, <3>3, <3>5
  <2> QED
    BY <2>1, <2>2
<1>6. Arrived(job'[j], T)
  BY <1>1, <1>5 DEF Arrived
<1> HIDE DEF T, vs
<1>7. SteadyBy(job'[j], T, labels'["source"], raced)
  BY <1>1, <1>6 DEF SteadyBy, ReadsBacked
<1> QED
  BY <1>1, <1>3, <1>7, SteadyFrom DEF T

\* A promote of a version that an export has not read is what raced tells.
LEMMA SteadyPromotes ==
  ASSUME TInv, RowsStay, Steady, LabelPromoted
  PROVE  Steady'
<1>1. PICK s \in Sides, k \in Keys, l \in Labels, n \in 1 .. MaxVersion :
        /\ LabelPut(s, k, l, n) /\ raced' = (raced \/ Races(s, k, n))
        /\ UNCHANGED <<rows, job>>
  BY DEF LabelPromoted
<1>2. SUFFICES ASSUME NEW j \in Jobs
               PROVE  SteadyBy(job[j], rows["target"], labels'["source"], raced')
  BY <1>1 DEF Steady
<1>3. SteadyBy(job[j], rows["target"], labels["source"], raced)
  BY DEF Steady
<1>4. CASE raced'
  BY <1>3, <1>4 DEF SteadyBy
<1>5. CASE ~ raced'
  <2>1. ~ raced /\ ~ Races(s, k, n)
    BY <1>1, <1>5
  <2>2. ReadsBacked(job[j], labels["source"])
    BY <1>3, <2>1 DEF SteadyBy
  <2>3. ReadsBacked(job[j], labels'["source"])
    <3>1. SUFFICES ASSUME job[j].side = "source", job[j].pc = "export", job[j].left # {},
                          NEW m \in Labels, labels'["source"][job[j].reading][m] # 0
                   PROVE  Sends(job[j].bundle, job[j].reading,
                                {labels'["source"][job[j].reading][m]})
      BY DEF ReadsBacked
    <3>2. job[j].reading \in Keys
      BY <3>1, ReadsKey
    <3>3. CASE s = "source" /\ job[j].reading = k /\ m = l
      <4>1. labels'["source"][job[j].reading][m] = n
        BY <1>1, <3>3 DEF LabelPut
      <4>2. PICK r \in Range(job[j].bundle.versions) : <<r.key, r.version>> = <<k, n>>
        BY <2>1, <3>1, <3>3 DEF Races, At
      <4>3. r.key = k /\ r.version = n
        BY <4>2
      <4> QED
        BY <3>3, <4>1, <4>3 DEF Sends
    <3>4. CASE ~ (s = "source" /\ job[j].reading = k /\ m = l)
      <4>1. labels'["source"][job[j].reading][m] = labels["source"][job[j].reading][m]
        BY <1>1, <3>2, <3>4 DEF LabelPut, Sides
      <4> QED
        BY <2>2, <3>1, <4>1 DEF ReadsBacked
    <3> QED
      BY <3>3, <3>4
  <2> QED
    BY <1>3, <2>3 DEF SteadyBy
<1> QED
  BY <1>4, <1>5

LEMMA SteadyNext ==
  ASSUME TInv, Steady, Resolves(rows["source"], labels["source"]), Next
  PROVE  Steady'
<1>0. RowsStay
  BY RowsKept
<1>1. ASSUME NEW j \in Jobs, NEW op \in {"migrate", "export", "backup"},
             NEW s \in Secrets \cup {None}, BeginExport(j, op, s)
      PROVE  Steady'
  <2>1. /\ Others(j) /\ BeginsAs(j, job'[j]) /\ job'[j].pc = "keys"
        /\ UNCHANGED <<labels, raced>>
    BY <1>1, BeginExportShape DEF stores
  <2> QED
    BY <1>0, <2>1, SteadyIdle DEF BeginsAs
<1>2. ASSUME NEW j \in Jobs, NEW s \in Secrets \cup {None}, BeginRestore(j, s)
      PROVE  Steady'
  <2>1. /\ Others(j) /\ BeginsAs(j, job'[j]) /\ job'[j].pc \in {"import", "done"}
        /\ UNCHANGED <<labels, raced>>
    BY <1>2, BeginRestoreShape DEF stores
  <2> QED
    BY <1>0, <2>1, SteadyIdle, SteadyStarts DEF BeginsAs
<1>3. ASSUME NEW j \in Jobs, BeginImport(j) PROVE Steady'
  <2>1. /\ Others(j) /\ BeginsAs(j, job'[j]) /\ job'[j].pc = "import"
        /\ UNCHANGED <<labels, raced>>
    BY <1>3, BeginImportShape DEF stores
  <2> QED
    BY <1>0, <2>1, SteadyStarts DEF BeginsAs
<1>4. ASSUME NEW j \in Jobs
      PROVE  SteadyBy(job[j], rows["target"], labels["source"], raced)
  BY DEF Steady
<1>5. ASSUME NEW j \in Jobs, ReadKeys(j) PROVE Steady'
  <2>1. /\ Others(j) /\ job[j].pc = "keys" /\ job'[j].pc = "export"
        /\ job'[j].side = job[j].side /\ job'[j].at = job[j].at
        /\ job'[j].left = job[j].left /\ UNCHANGED <<labels, raced>>
    BY <1>5, ReadKeysShape DEF Quiet, stores, watches
  <2>2. SteadyBy(job'[j], rows'["target"], labels'["source"], raced)
    BY <1>4, <2>1 DEF SteadyBy, Arrived, ReadsBacked
  <2> QED
    BY <1>0, <2>1, <2>2, SteadyFrom
<1>6. ASSUME NEW j \in Jobs, ReadVersions(j) PROVE Steady'
  BY <1>0, <1>6, SteadyReads
<1>7. ASSUME NEW j \in Jobs, ReadLabel(j) PROVE Steady'
  <2>1. PICK l \in job[j].left :
          /\ Others(j) /\ job[j].pc = "export" /\ job'[j].pc = "export"
          /\ job'[j].side = job[j].side /\ job'[j].at = job[j].at
          /\ job'[j].reading = job[j].reading /\ job'[j].left = job[j].left \ {l}
          /\ job[j].side = "source" =>
               job'[j].bundle.versions = job[j].bundle.versions
          /\ UNCHANGED <<labels, raced>>
    BY <1>7, ReadLabelShape DEF Quiet, stores, watches
  <2>2. SteadyBy(job'[j], rows'["target"], labels'["source"], raced)
    BY <1>4, <2>1 DEF SteadyBy, Arrived, ReadsBacked, Sends
  <2> QED
    BY <1>0, <2>1, <2>2, SteadyFrom
<1>8. ASSUME NEW j \in Jobs, Seal(j) \/ WriteBundle(j) PROVE Steady'
  <2>1. Others(j) /\ job'[j].pc = "done" /\ UNCHANGED <<labels, raced>>
    BY <1>8, KeepShape DEF stores
  <2> QED
    BY <1>0, <2>1, SteadyIdle
<1>9. ASSUME NEW j \in Jobs, StartImport(j) PROVE Steady'
  <2>1. /\ Others(j) /\ job[j].pc = "export" /\ job[j].side = "source"
        /\ job'[j].pc = "import" /\ job'[j].at = job[j].at /\ UNCHANGED <<labels, raced>>
    BY <1>9, StartImportShape DEF Quiet, stores, watches
  <2>2. job'[j].at = 0
    BY <1>4, <2>1 DEF SteadyBy
  <2> QED
    BY <1>0, <2>1, <2>2, SteadyStarts
<1>10. ASSUME NEW j \in Jobs, InsertVersion(j) \/ UpsertLabel(j) PROVE Steady'
  BY <1>0, <1>10, SteadyImports
<1>11. ASSUME NEW j \in Jobs, Imported(j) PROVE Steady'
  <2>1. /\ Others(j) /\ UNCHANGED <<labels, raced>>
        /\ (job'[j].pc = "keys" /\ job'[j].side = "target") \/ job'[j].pc = "done"
    BY <1>11, ImportedShape DEF Quiet, stores, watches
  <2> QED
    BY <1>0, <2>1, SteadyIdle
<1>12. ASSUME NEW j \in Jobs, Compare(j) PROVE Steady'
  <2>1. Others(j) /\ job'[j].pc = "done" /\ UNCHANGED <<labels, raced>>
    BY <1>12, CompareShape DEF Quiet, stores, watches
  <2> QED
    BY <1>0, <2>1, SteadyIdle
<1>13. ASSUME NEW j \in Jobs, AwaitRejects(j) PROVE Steady'
  <2>1. Others(j) /\ job'[j].pc = "done" /\ UNCHANGED <<labels, raced>>
    BY <1>13, RejectShape DEF stores, watches
  <2> QED
    BY <1>0, <2>1, SteadyIdle
<1>14. ASSUME UNCHANGED <<job, labels, raced>> PROVE Steady'
  <2>1. ASSUME NEW j \in Jobs
        PROVE  SteadyBy(job[j], rows'["target"], labels'["source"], raced)
    <3>1. job[j] \in JobRecords /\ (job[j].left # {} => job[j].reading \in Keys)
      BY JobTyped, ReadsKey
    <3> QED
      BY <1>0, <1>4, <1>14, <3>1, StillSteady
  <2> QED
    BY <1>14, <2>1 DEF Steady
<1>15. EditFile => UNCHANGED <<job, labels, raced>>
  BY DEF EditFile, stores
<1>16. \A s \in Sides, k \in Keys, v \in Values :
         AddVersion(s, k, v) => UNCHANGED <<job, labels, raced>>
  BY DEF AddVersion
<1>17. ASSUME NEW s \in Sides, NEW k \in Keys, NEW l \in Labels, NEW n \in 1 .. MaxVersion,
              Promote(s, k, l, n)
       PROVE  Steady'
  <2>1. LabelPromoted
    <3>1. /\ rows[s][k][n] # None /\ LabelPut(s, k, l, n)
          /\ raced' = (raced \/ Races(s, k, n))
          /\ UNCHANGED <<rows, job, file, edited, unchecked>>
      BY <1>17, PromoteShape
    <3> QED
      BY <3>1 DEF LabelPromoted
  <2> QED
    BY <1>0, <2>1, SteadyPromotes
<1> QED
  BY <1>1, <1>2, <1>3, <1>5, <1>6, <1>7, <1>8, <1>9, <1>10, <1>11, <1>12, <1>13,
     <1>14, <1>15, <1>16, <1>17, Kinds

LEMMA BackedNext ==
  ASSUME TInv, Next, Steady, Backed
  PROVE  Backed'
<1>1. (raced => raced') /\ (unchecked => unchecked')
  BY RacedStays, UncheckedStays
<1>2. ASSUME NEW i \in Jobs
      PROVE  raced' \/ (job'[i].op = "import" /\ unchecked') \/ BundleBacks(job'[i].bundle)
  <2>1. raced \/ (job[i].op = "import" /\ unchecked) \/ BundleBacks(job[i].bundle)
    BY DEF Backed
  <2>2. job[i].bundle.versions \in Seq(Row) /\ job[i].bundle.labels \in Seq(Pointer)
    BY JobTyped, BundleTyped
  <2>3. CASE BundleStays(i)
    BY <1>1, <2>1, <2>3 DEF BundleStays
  <2>4. CASE BundleEmpty(i)
    BY <2>4, EmptyBundle DEF BundleEmpty, BundleBacks, Backs
  <2>5. CASE BundleTaken(i)
    <3>1. CASE job'[i].op = "import" /\ unchecked' = (unchecked \/ edited)
      BY <1>1, <2>5, <3>1 DEF BundleTaken, Backed
    <3>2. CASE job'[i].op = "restore" /\ ContentHashOf(file.bundle) = file.contentHash
      <4>1. /\ ContentHashOf(file.bundle) \in Hashes
            /\ ContentHashOf(file.bundle)[1] = Range(file.bundle.versions)
            /\ ContentHashOf(file.bundle)[2] = Range(file.bundle.labels)
        BY BundleTyped DEF ContentHashOf, TInv, Files
      <4>2. file.contentHash # None
        BY <3>2, <4>1, NoneAssumption DEF Hashes
      <4>3. raced \/ BundleBacks(file.bundle)
        BY <3>2, <4>1, <4>2 DEF Backed, BundleBacks
      <4> QED
        BY <1>1, <2>5, <4>3 DEF BundleTaken
    <3> QED
      BY <2>5, <3>1, <3>2 DEF BundleTaken
  <2>6. CASE RowsRead(i)
    <3>1. PICK k \in Keys :
            /\ job'[i].op = job[i].op /\ job'[i].bundle.labels = job[i].bundle.labels
            /\ job'[i].bundle.versions = job[i].bundle.versions \o ListVersionsDesc("source", k)
      BY <2>6 DEF RowsRead
    <3> DEFINE list == ListVersionsDesc("source", k)
    <3>2. list \in Seq(Row)
      BY ListedRows DEF TInv, Sides
    <3> HIDE DEF list
    <3>3. Range(job'[i].bundle.versions) = Range(job[i].bundle.versions) \cup Range(list)
      BY <2>2, <3>1, <3>2, ConcatRange DEF list
    <3>4. BundleBacks(job[i].bundle) => BundleBacks(job'[i].bundle)
      BY <3>1, <3>3 DEF BundleBacks, Backs
    <3> QED
      BY <1>1, <2>1, <3>1, <3>4
  <2>7. CASE LabelRead(i)
    <3>1. PICK p \in Pointer :
            /\ job'[i].op = job[i].op /\ job'[i].bundle.versions = job[i].bundle.versions
            /\ job[i].side = "source" /\ job[i].pc = "export"
            /\ p.key = job[i].reading /\ p.label \in job[i].left
            /\ p.version = labels["source"][p.key][p.label]
            /\ job'[i].bundle.labels = Append(job[i].bundle.labels, p)
      BY <2>7 DEF LabelRead
    <3>2. Range(job'[i].bundle.labels) = Range(job[i].bundle.labels) \cup {p}
      BY <2>2, <3>1, AppendRange
    <3>3. p.label \in Labels /\ p.version # 0
      BY MigrationAssumption DEF Pointer
    <3>4. raced \/ ReadsBacked(job[i], labels["source"])
      BY DEF Steady, SteadyBy
    <3>5. raced \/ Sends(job[i].bundle, p.key, {p.version})
      BY <3>1, <3>3, <3>4 DEF ReadsBacked
    <3>6. raced \/ \E r \in Range(job[i].bundle.versions) : r.key = p.key /\ r.version = p.version
      BY <3>5 DEF Sends
    <3>7. BundleBacks(job[i].bundle) => raced \/ BundleBacks(job'[i].bundle)
      BY <3>1, <3>2, <3>6 DEF BundleBacks, Backs
    <3> QED
      BY <1>1, <2>1, <3>1, <3>7
  <2> QED
    BY <2>3, <2>4, <2>5, <2>6, <2>7, BundleKinds DEF BundleMoves
<1>3. /\ raced' \/ edited' \/ BundleBacks(file'.bundle)
      /\ file'.contentHash # None =>
           raced' \/ Backs(file'.contentHash[1], file'.contentHash[2])
  <2>1. CASE FileStays
    BY <1>1, <2>1 DEF FileStays, Backed
  <2>2. CASE FileEdited
    BY <1>1, <2>2 DEF FileEdited, Backed
  <2>3. CASE FileKept
    <3>1. PICK j \in Jobs :
            /\ job[j].op \in {"export", "backup"} /\ file'.bundle = job[j].bundle
            /\ file'.contentHash \in {None, ContentHashOf(job[j].bundle)}
      BY <2>3 DEF FileKept
    <3>2. raced \/ BundleBacks(job[j].bundle)
      BY <3>1 DEF Backed
    <3>3. /\ ContentHashOf(job[j].bundle)[1] = Range(job[j].bundle.versions)
          /\ ContentHashOf(job[j].bundle)[2] = Range(job[j].bundle.labels)
      BY DEF ContentHashOf
    <3> QED
      BY <1>1, <3>1, <3>2, <3>3 DEF BundleBacks
  <2> QED
    BY <2>1, <2>2, <2>3, FileKinds
<1> QED
  BY <1>2, <1>3 DEF Backed

LEMMA TargetResolvesNext ==
  ASSUME TInv, Next, Steady, Backed,
         raced \/ unchecked \/ Resolves(rows["target"], labels["target"])
  PROVE  raced' \/ unchecked' \/ Resolves(rows'["target"], labels'["target"])
<1>0. RowsStay /\ "target" \in Sides
  BY RowsKept DEF Sides
<1>1. SUFFICES ASSUME ~ raced', ~ unchecked'
               PROVE  Resolves(rows'["target"], labels'["target"])
  OBVIOUS
<1>2. ~ raced /\ ~ unchecked
  BY <1>1, RacedStays, UncheckedStays
<1>3. Resolves(rows'["target"], labels["target"])
  BY <1>0, <1>2, StillResolves
<1>4. CASE LabelsSame
  BY <1>3, <1>4 DEF LabelsSame
<1>5. CASE LabelImported
  <2>1. PICK j \in Jobs :
          /\ job[j].pc = "import" /\ job[j].at >= Len(job[j].bundle.versions)
          /\ UNCHANGED rows
          /\ \E p \in Pointer :
               p \in Range(job[j].bundle.labels) /\ LabelPut("target", p.key, p.label, p.version)
    BY <1>5 DEF LabelImported
  <2>2. PICK p \in Pointer :
          p \in Range(job[j].bundle.labels) /\ LabelPut("target", p.key, p.label, p.version)
    BY <2>1
  <2>3. job[j].bundle.versions \in Seq(Row) /\ Len(job[j].bundle.versions) \in Nat
    BY JobTyped, BundleTyped
  <2>4. BundleBacks(job[j].bundle)
    BY <1>2 DEF Backed
  <2>5. PICK r \in Range(job[j].bundle.versions) : r.key = p.key /\ r.version = p.version
    BY <2>2, <2>4 DEF BundleBacks, Backs
  <2>6. PICK i \in 1 .. Len(job[j].bundle.versions) : job[j].bundle.versions[i] = r
    BY <2>3, SeqRange
  <2>7. i <= job[j].at
    <3>1. job[j].at \in Nat
      BY AtTyped
    <3> QED
      BY <2>1, <2>3, <3>1
  <2>8. rows["target"][r.key][r.version] # None
    BY <2>1, <2>6, <2>7 DEF Steady, SteadyBy, Arrived
  <2>9. rows'["target"][p.key][p.version] # None
    BY <2>1, <2>5, <2>8
  <2>10. p.key \in Keys /\ p.label \in Labels /\ p.version \in 1 .. MaxVersion
    BY DEF Pointer
  <2> QED
    BY <1>0, <1>3, <2>2, <2>9, <2>10, PutResolves
<1>6. CASE LabelPromoted
  <2>1. PICK s \in Sides, k \in Keys, l \in Labels, n \in 1 .. MaxVersion :
          rows[s][k][n] # None /\ LabelPut(s, k, l, n)
    BY <1>6 DEF LabelPromoted
  <2>2. rows'[s][k][n] # None
    BY <1>0, <2>1 DEF RowsStay
  <2> QED
    BY <1>0, <1>3, <2>1, <2>2, PutResolves
<1> QED
  BY <1>4, <1>5, <1>6, LabelsKinds

LEMMA LabelInit ==
  ASSUME Init, TInv
  PROVE  LabelInv
<1>1. PICK held \in [Keys -> UNION {[1 .. n -> Values] : n \in 0 .. MaxVersion}] :
        /\ rows = [s \in Sides |-> [k \in Keys |-> [n \in 1 .. MaxVersion |->
             IF s = "source" /\ n \in DOMAIN held[k] THEN DocOf(held[k][n]) ELSE None]]]
        /\ \A k \in Keys, l \in Labels :
             labels["source"][k][l] \in 0 .. Len(held[k]) /\ labels["target"][k][l] = 0
  BY DEF Init
<1>2. Resolves(rows["source"], labels["source"])
  <2>1. SUFFICES ASSUME NEW k \in Keys, NEW l \in Labels, labels["source"][k][l] # 0
                 PROVE  rows["source"][k][labels["source"][k][l]] # None
    BY DEF Resolves
  <2> DEFINE n == labels["source"][k][l]
  <2>2. PICK m \in 0 .. MaxVersion : held[k] \in [1 .. m -> Values]
    OBVIOUS
  <2>3. m \in Nat
    BY <2>2, MigrationAssumption
  <2>4. Len(held[k]) = m /\ DOMAIN held[k] = 1 .. m
    BY <2>2, <2>3
  <2>5. n \in 1 .. m /\ n \in 1 .. MaxVersion
    <3>1. n \in 0 .. m
      BY <1>1, <2>4
    <3>2. n \in 1 .. MaxVersion
      BY <2>1, LabelsOf DEF TInv, Sides
    <3> QED
      BY <2>1, <2>3, <3>1, <3>2
  <2>6. held[k][n] \in Values
    BY <2>2, <2>5
  <2>7. rows["source"][k][n] = DocOf(held[k][n])
    BY <1>1, <2>4, <2>5 DEF Sides
  <2>8. DocOf(held[k][n]) # None
    BY <2>6, DocTyped, NoneAssumption
  <2> QED
    BY <2>7, <2>8
<1>3. Resolves(rows["target"], labels["target"])
  BY <1>1 DEF Resolves
<1>4. \A j \in Jobs : job[j] = NoJob
  BY DEF Init
<1>5. SteadyBy(NoJob, rows["target"], labels["source"], raced)
  BY IdleJob DEF SteadyBy, Arrived, ReadsBacked
<1>6. BundleBacks(NoBundle) /\ Backs({}, {})
  BY EmptyBundle DEF BundleBacks, Backs
<1>7. file.bundle = NoBundle /\ file.contentHash = <<{}, {}>>
  BY EmptyBundle, SealTyped DEF Init, ContentHashOf
<1>8. Steady
  BY <1>4, <1>5 DEF Steady
<1>9. Backed
  BY <1>4, <1>6, <1>7, IdleJob DEF Backed
<1> QED
  BY <1>2, <1>3, <1>8, <1>9 DEF LabelInv

LEMMA LabelNext ==
  ASSUME TInv, LabelInv, [Next]_vars
  PROVE  LabelInv'
<1>1. CASE Next
  <2>1. Steady /\ Backed /\ Resolves(rows["source"], labels["source"])
    BY DEF LabelInv
  <2>2. Steady' /\ Backed' /\ Resolves(rows'["source"], labels'["source"])
    BY <1>1, <2>1, SteadyNext, BackedNext, SourceResolvesNext
  <2>3. raced' \/ unchecked' \/ Resolves(rows'["target"], labels'["target"])
    BY <1>1, <2>1, TargetResolvesNext DEF LabelInv
  <2> QED
    BY <2>2, <2>3 DEF LabelInv
<1>2. CASE UNCHANGED vars
  BY <1>2 DEF vars, stores, watches, LabelInv, Steady, Backed
<1> QED
  BY <1>1, <1>2

\* A label of the target names a row that the target holds, at every moment of
\* every import, one that dies between two rows included: rows go before labels,
\* and an export reads a key's versions before its labels.  The two ways to break
\* it are named: a promote of a version that came between those two reads, and the
\* import verb on an edited file.
THEOREM TargetLabelsHold == Spec => []TargetLabelsResolve
<1>1. ASSUME TInv, LabelInv PROVE TargetLabelsResolve
  <2>1. SUFFICES ASSUME ~ raced, ~ unchecked, NEW k \in Keys, NEW l \in Labels,
                        labels["target"][k][l] # 0
                 PROVE  labels["target"][k][l] \in Stored("target", k)
    BY DEF TargetLabelsResolve
  <2>2. labels["target"][k][l] \in 1 .. MaxVersion
    BY <1>1, <2>1, LabelsOf DEF TInv, Sides
  <2>3. rows["target"][k][labels["target"][k][l]] # None
    BY <1>1, <2>1 DEF LabelInv, Resolves
  <2> QED
    BY <2>2, <2>3 DEF Stored
<1>2. Init => TInv /\ LabelInv
  BY TInvInit, LabelInit
<1>3. TInv /\ LabelInv /\ [Next]_vars => TInv' /\ LabelInv'
  BY TInvNext, LabelNext
<1> QED
  BY <1>1, <1>2, <1>3, PTL DEF Spec

=============================================================================
