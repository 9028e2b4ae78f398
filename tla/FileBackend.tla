----------------------------- MODULE FileBackend -----------------------------
(***************************************************************************)
(* The file backend, packages/core/src/backends/file.ts: one file per      *)
(* version, created exclusively, and one file per label, overwritten in    *)
(* place.  Several processes call its methods on one directory.            *)
(*                                                                         *)
(* A writeFile is an open, which makes or truncates the file, a write and  *)
(* a close; other calls run between them, and a crash or an error can come *)
(* between them.  A file that does not hold one whole JSON document is     *)
(* Torn: JSON.parse throws on it.  Directories of labels are left out, and *)
(* init with them: a missing directory and a missing file read the same.   *)
(***************************************************************************)
EXTENDS Integers, FiniteSets, FiniteSetsExt

CONSTANTS
  Keys, Labels,
  MaxVersion,  \* bound: version numbers callers insert
  Docs,        \* version documents
  Marks,       \* label documents
  Size,        \* length of a label document's JSON
  Clients, Procs, ProcOf,
  MaxCalls,    \* bound: calls ever begun
  MaxFaults,   \* bound: crashes and failed writes
  None,        \* no such file, null
  Torn         \* a file JSON.parse refuses

ASSUME ConstantsAssumption ==
  /\ MaxVersion \in Nat
  /\ {None, Torn} \cap (Docs \cup Marks) = {} /\ None # Torn
  /\ Size \in [Marks -> Nat \ {0}]
  /\ ProcOf \in [Clients -> Procs]
  /\ MaxCalls \in Nat /\ MaxFaults \in Nat

VARIABLES
  vdirs,   \* keys whose directory of versions exists
  vfile,   \* per key and number, the version file
  lfile,   \* per key and label, the label file and its length
  call,    \* per client, its method call in flight or last answered
  acked,   \* history: the inserts that were answered with success
  before,  \* history: per client, acked when its call began
  begun, faults

files == <<vdirs, vfile, lfile>>
vars == <<vdirs, vfile, lfile, call, acked, before, begun, faults>>

Numbers == 1 .. MaxVersion

Inserted == [key : Keys, number : Numbers, doc : Docs]

Methods == {"insertVersion", "upsertLabel", "getVersion", "maxVersion",
            "listVersionsDesc", "distinctKeys", "getLabel"}

\* outcome "absent" is null; "conflict" is BackendConflictError.
Calls == [op : Methods \cup {None},
          pc : {"idle", "mkdir", "create", "write", "truncate", "overwrite",
                "close", "read", "readEach", "done"},
          key : Keys \cup {None}, number : Nat, doc : Docs \cup {None},
          label : Labels \cup {None}, mark : Marks \cup {None},
          todo : SUBSET Numbers, found : SUBSET Inserted, keys : SUBSET Keys,
          outcome : {"pending", "ok", "absent", "conflict", "rejected"}]

NoCall == [op |-> None, pc |-> "idle", key |-> None, number |-> 0, doc |-> None,
           label |-> None, mark |-> None, todo |-> {}, found |-> {}, keys |-> {},
           outcome |-> "pending"]

Finish(cl, outcome) == [cl EXCEPT !.pc = "done", !.outcome = outcome]
Goto(cl, pc) == [cl EXCEPT !.pc = pc]

\* versionNumbers: what readdir shows for a key, torn files included.
VersionNumbers(k) == {n \in Numbers : vfile[k][n] # None}

RowOf(cl) == [key |-> cl.key, number |-> cl.number, doc |-> cl.doc]

-----------------------------------------------------------------------------
Init ==
  /\ vdirs = {}
  /\ vfile = [k \in Keys |-> [n \in Numbers |-> None]]
  /\ lfile = [k \in Keys |-> [l \in Labels |-> [size |-> 0, mark |-> None]]]
  /\ call = [c \in Clients |-> NoCall]
  /\ acked = {}
  /\ before = [c \in Clients |-> {}]
  /\ begun = 0 /\ faults = 0

\* Client c calls method op; cl holds its arguments and first program point.
Begin(c, op, cl) ==
  /\ call[c].pc \in {"idle", "done"}
  /\ begun < MaxCalls
  /\ begun' = begun + 1
  /\ call' = [call EXCEPT ![c] = [cl EXCEPT !.op = op]]
  /\ before' = [before EXCEPT ![c] = acked]
  /\ UNCHANGED <<files, acked, faults>>

\* A step of c's call in flight, from program point pc of method op on.
Step(c, op, pc, cl) ==
  /\ call[c].op = op /\ call[c].pc = pc
  /\ call' = [call EXCEPT ![c] = cl]
  /\ UNCHANGED <<before, begun, faults>>

-----------------------------------------------------------------------------
\* insertVersion: mkdir, then writeFile with the flag wx.

BeginInsert(c) == \E k \in Keys, n \in Numbers, d \in Docs :
  Begin(c, "insertVersion",
        [NoCall EXCEPT !.pc = "mkdir", !.key = k, !.number = n, !.doc = d])

Mkdir(c) ==
  /\ Step(c, "insertVersion", "mkdir", Goto(call[c], "create"))
  /\ vdirs' = vdirs \cup {call[c].key}
  /\ UNCHANGED <<vfile, lfile, acked>>

\* Mutants of Create: opened with w, an existing file is truncated; the write is
\* not awaited and the call is answered as soon as the file exists.
CreateTruncates(c) ==
  /\ Step(c, "insertVersion", "create", Goto(call[c], "write"))
  /\ vfile' = [vfile EXCEPT ![call[c].key][call[c].number] = Torn]
  /\ UNCHANGED <<vdirs, lfile, acked>>

CreateAnswers(c) ==
  LET cl == call[c] IN
  /\ Step(c, "insertVersion", "create", Finish(cl, "ok"))
  /\ vfile[cl.key][cl.number] = None
  /\ vfile' = [vfile EXCEPT ![cl.key][cl.number] = Torn]
  /\ acked' = acked \cup {RowOf(cl)}
  /\ UNCHANGED <<vdirs, lfile>>

\* O_CREAT | O_EXCL: made empty here, or EEXIST.
Create(c) ==
  LET cl == call[c] IN
  /\ \/ /\ Step(c, "insertVersion", "create", Goto(cl, "write"))
        /\ vfile[cl.key][cl.number] = None
        /\ vfile' = [vfile EXCEPT ![cl.key][cl.number] = Torn]
     \/ /\ Step(c, "insertVersion", "create", Finish(cl, "conflict"))
        /\ vfile[cl.key][cl.number] # None
        /\ UNCHANGED vfile
  /\ UNCHANGED <<vdirs, lfile, acked>>

Write(c) ==
  LET cl == call[c] IN
  /\ Step(c, "insertVersion", "write", Goto(cl, "close"))
  /\ vfile' = [vfile EXCEPT ![cl.key][cl.number] = cl.doc]
  /\ UNCHANGED <<vdirs, lfile, acked>>

CloseVersion(c) ==
  /\ Step(c, "insertVersion", "close", Finish(call[c], "ok"))
  /\ acked' = acked \cup {RowOf(call[c])}
  /\ UNCHANGED files

-----------------------------------------------------------------------------
\* upsertLabel: writeFile with the default flag w.

BeginUpsert(c) == \E k \in Keys, l \in Labels, m \in Marks :
  Begin(c, "upsertLabel",
        [NoCall EXCEPT !.pc = "truncate", !.key = k, !.label = l, !.mark = m])

Truncate(c) ==
  LET cl == call[c] IN
  /\ Step(c, "upsertLabel", "truncate", Goto(cl, "overwrite"))
  /\ lfile' = [lfile EXCEPT ![cl.key][cl.label] = [size |-> 0, mark |-> Torn]]
  /\ UNCHANGED <<vdirs, vfile, acked>>

\* Written from the start of the file: what another call wrote since this one
\* truncated it sticks out behind a shorter document.
Overwrite(c) ==
  LET cl == call[c]
      old == lfile[cl.key][cl.label].size
      new == Size[cl.mark]
  IN /\ Step(c, "upsertLabel", "overwrite", Goto(cl, "close"))
     /\ lfile' = [lfile EXCEPT ![cl.key][cl.label] =
                    IF new >= old THEN [size |-> new, mark |-> cl.mark]
                                  ELSE [size |-> old, mark |-> Torn]]
     /\ UNCHANGED <<vdirs, vfile, acked>>

CloseLabel(c) ==
  /\ Step(c, "upsertLabel", "close", Finish(call[c], "ok"))
  /\ UNCHANGED <<files, acked>>

-----------------------------------------------------------------------------
\* The methods that read.

BeginRead(c) == \E k \in Keys, l \in Labels, n \in Numbers :
  \/ Begin(c, "getVersion", [NoCall EXCEPT !.pc = "read", !.key = k, !.number = n])
  \/ Begin(c, "getLabel", [NoCall EXCEPT !.pc = "read", !.key = k, !.label = l])
  \/ \E op \in {"maxVersion", "listVersionsDesc"} :
       Begin(c, op, [NoCall EXCEPT !.pc = "read", !.key = k])
  \/ Begin(c, "distinctKeys", [NoCall EXCEPT !.pc = "read"])

\* readJson of a file: null, its document, or the error of JSON.parse.
Parsed(content) == CASE content = None -> "absent"
                     [] content = Torn -> "rejected"
                     [] OTHER -> "ok"

Read(c, op, pc, cl) == Step(c, op, pc, cl) /\ UNCHANGED <<files, acked>>

Holds(k, n) == [key |-> k, number |-> n, doc |-> vfile[k][n]]

ReadVersion(c) ==
  LET cl == call[c]
      got == Parsed(vfile[cl.key][cl.number])
  IN Read(c, "getVersion", "read",
          [Finish(cl, got) EXCEPT
             !.found = IF got = "ok" THEN {Holds(cl.key, cl.number)} ELSE {}])

ReadLabel(c) ==
  LET cl == call[c]
      mark == lfile[cl.key][cl.label].mark
  IN Read(c, "getLabel", "read",
          [Finish(cl, Parsed(mark)) EXCEPT
             !.mark = IF mark \in Marks THEN mark ELSE None])

\* Mutants of ReadMax: the files are counted; the empty maximum is returned.
ReadCount(c) == Read(c, "maxVersion", "read",
  [Finish(call[c], "ok") EXCEPT !.number = Cardinality(VersionNumbers(call[c].key))])

ReadMaxOfNone(c) ==
  LET ns == VersionNumbers(call[c].key) IN
  Read(c, "maxVersion", "read",
       [Finish(call[c], "ok") EXCEPT !.number = IF ns = {} THEN -1 ELSE Max(ns)])

ReadMax(c) ==
  LET cl == call[c]
      ns == VersionNumbers(cl.key)
  IN Read(c, "maxVersion", "read",
          IF ns = {} THEN Finish(cl, "absent")
          ELSE [Finish(cl, "ok") EXCEPT !.number = Max(ns)])

\* readdir first, then every file shown, each at its own moment; one that does
\* not parse rejects the whole list.
ReadDir(c) == Read(c, "listVersionsDesc", "read",
  [Goto(call[c], "readEach") EXCEPT !.todo = VersionNumbers(call[c].key)])

ReadEach(c) ==
  LET cl == call[c] IN
  \/ /\ cl.todo = {}
     /\ Read(c, "listVersionsDesc", "readEach", Finish(cl, "ok"))
  \/ \E n \in cl.todo :
       Read(c, "listVersionsDesc", "readEach",
            IF vfile[cl.key][n] = Torn THEN Finish(cl, "rejected")
            ELSE [cl EXCEPT !.todo = @ \ {n}, !.found = @ \cup {Holds(cl.key, n)}])

ReadKeys(c) == Read(c, "distinctKeys", "read",
                    [Finish(call[c], "ok") EXCEPT !.keys = vdirs])

-----------------------------------------------------------------------------
\* A write fails half way (a full disk): the call rejects, the file stays torn.
WriteFails(c) ==
  /\ call[c].pc \in {"write", "overwrite"}
  /\ faults < MaxFaults
  /\ faults' = faults + 1
  /\ call' = [call EXCEPT ![c] = Finish(@, "rejected")]
  /\ UNCHANGED <<files, acked, before, begun>>

\* A process dies; its calls stop where they are.
Crash(p) ==
  /\ faults < MaxFaults
  /\ faults' = faults + 1
  /\ call' = [c \in Clients |-> IF ProcOf[c] = p THEN NoCall ELSE call[c]]
  /\ UNCHANGED <<files, acked, before, begun>>

Rest ==
  /\ begun = MaxCalls
  /\ \A c \in Clients : call[c].pc \in {"idle", "done"}
  /\ UNCHANGED vars

BeginCall(c) == BeginInsert(c) \/ BeginUpsert(c) \/ BeginRead(c)

Continue(c) ==
  \/ Mkdir(c) \/ Create(c) \/ Write(c) \/ CloseVersion(c)
  \/ Truncate(c) \/ Overwrite(c) \/ CloseLabel(c)
  \/ ReadVersion(c) \/ ReadLabel(c) \/ ReadMax(c)
  \/ ReadDir(c) \/ ReadEach(c) \/ ReadKeys(c)

Next ==
  \/ \E c \in Clients : BeginCall(c) \/ Continue(c) \/ WriteFails(c)
  \/ \E p \in Procs : Crash(p)
  \/ Rest

Spec == Init /\ [][Next]_vars

-----------------------------------------------------------------------------
\* Properties.

\* Every variable has its type.
TypeOK ==
  /\ vdirs \subseteq Keys
  /\ vfile \in [Keys -> [Numbers -> Docs \cup {None, Torn}]]
  /\ lfile \in [Keys -> [Labels -> [size : Nat, mark : Marks \cup {None, Torn}]]]
  /\ call \in [Clients -> Calls]
  /\ acked \subseteq Inserted
  /\ before \in [Clients -> SUBSET Inserted]
  /\ begun \in Nat /\ faults \in Nat

\* A version whose insert was answered is in its file, whole and for ever: no
\* rival, crash or failed write touches it ("concurrent writers are safe with no
\* lock file", file.ts 34; immutability, backend.ts 63-65).
AckedIsWhole == \A r \in acked : vfile[r.key][r.number] = r.doc

\* A version file that holds a document never changes again, answered or not: a
\* reader who has seen it may cache it for ever.
WholeFilesStay == [][\A k \in Keys, n \in Numbers :
  vfile[k][n] \in Docs => vfile'[k][n] = vfile[k][n]]_vars

\* What was acknowledged before a read began is in its answer: getVersion finds
\* it, maxVersion is not below it ("must reflect committed writes", backend.ts
\* 131), listVersionsDesc and distinctKeys show it, unless the read rejects.
AnswersKeepUp == \A c \in Clients : \A r \in before[c] :
  LET cl == call[c] IN
  /\ cl.op = "getVersion" /\ cl.pc = "done" /\ cl.key = r.key /\ cl.number = r.number
       => cl.outcome = "ok" /\ cl.found = {r}
  /\ cl.op = "maxVersion" /\ cl.pc = "done" /\ cl.key = r.key
       => cl.outcome = "ok" /\ cl.number >= r.number
  /\ cl.op = "listVersionsDesc" /\ cl.outcome = "ok" /\ cl.key = r.key => r \in cl.found
  /\ cl.op = "distinctKeys" /\ cl.outcome = "ok" => r.key \in cl.keys

\* Claimed by file.ts 33-34, "concurrent writers are safe with no lock file": with
\* no fault and no upsert in flight, every label file can be read.
LabelsReadable ==
  (faults = 0 /\ \A c \in Clients : call[c].pc \notin {"overwrite", "close"}) =>
    \A k \in Keys, l \in Labels : lfile[k][l].mark # Torn
=============================================================================
