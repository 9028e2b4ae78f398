--------------------------- MODULE FileBackendProofs --------------------------
(***************************************************************************)
(* Theorems about FileBackend for every set of keys, labels, documents,    *)
(* clients and processes and every bound, and their proofs.                *)
(***************************************************************************)
EXTENDS FileBackend, WellFoundedInduction, TLAPS

-----------------------------------------------------------------------------
\* The inductive invariant.

\* A call record names what its program point needs.
Sane(cl) ==
  /\ cl \in Calls
  /\ cl.op = "insertVersion" /\ cl.pc \in {"mkdir", "create", "write", "close"} =>
       RowOf(cl) \in Inserted
  /\ cl.op = "upsertLabel" /\ cl.pc \in {"truncate", "overwrite"} =>
       cl.key \in Keys /\ cl.label \in Labels /\ cl.mark \in Marks
  /\ cl.pc = "read" /\ cl.op # "distinctKeys" => cl.key \in Keys
  /\ cl.pc = "read" /\ cl.op = "getVersion" => cl.number \in Numbers
  /\ cl.pc = "read" /\ cl.op = "getLabel" => cl.label \in Labels
  /\ cl.pc = "readEach" => cl.key \in Keys /\ \A n \in cl.todo : vfile[cl.key][n] # None

\* Client c has made a version file and not written it; has written it.
Writing(c) == call[c].op = "insertVersion" /\ call[c].pc = "write"
Closing(c) == call[c].op = "insertVersion" /\ call[c].pc = "close"

FileOf(c) == vfile[call[c].key][call[c].number]

\* The exclusive create makes each version file one client's to write.
OneWriter == \A c, d \in Clients :
  Writing(c) /\ Writing(d) /\ call[c].key = call[d].key
    /\ call[c].number = call[d].number => c = d

WritersHold == \A c \in Clients :
  /\ Writing(c) => FileOf(c) = Torn
  /\ Closing(c) => FileOf(c) = call[c].doc

FInv ==
  /\ TypeOK
  /\ \A c \in Clients : Sane(call[c])
  /\ OneWriter
  /\ WritersHold
  /\ AckedIsWhole

-----------------------------------------------------------------------------
LEMMA MaxIsMember ==
  ASSUME NEW ns \in SUBSET Numbers, ns # {}
  PROVE  Max(ns) \in ns /\ \A q \in ns : Max(ns) >= q
<1> DEFINE T == {x \in Nat : \E n \in ns : x = MaxVersion - n}
<1>1. PICK n \in ns : TRUE
  OBVIOUS
<1>2. MaxVersion - n \in T
  BY ConstantsAssumption DEF Numbers
<1>3. PICK x \in T : \A y \in T : x <= y
  <2> DEFINE R == OpToRel(<, Nat)
  <2>1. IsWellFoundedOn(R, Nat)
    BY NatLessThanWellFounded
  <2>2. \E x \in T : \A y \in T : ~ (<<y, x>> \in R)
    <3>1. T \subseteq Nat /\ T # {}
      BY <1>2
    <3> HIDE DEF T, R
    <3> QED
      BY <2>1, <3>1, WFMin
  <2>3. \A x, y \in Nat : <<y, x>> \in R <=> y < x
    BY DEF OpToRel
  <2>4. T \subseteq Nat
    OBVIOUS
  <2> HIDE DEF T, R
  <2>5. PICK x \in T : \A y \in T : ~ (<<y, x>> \in R)
    BY <2>2
  <2>6. ASSUME NEW y \in T PROVE x <= y
    <3>1. x \in Nat /\ y \in Nat
      BY <2>4
    <3>2. ~ (y < x)
      BY <2>3, <2>5, <3>1
    <3> QED
      BY <3>1, <3>2
  <2> QED
    BY <2>5, <2>6
<1>4. PICK m \in ns : x = MaxVersion - m
  OBVIOUS
<1>5. \A q \in ns : m >= q
  <2> SUFFICES ASSUME NEW q \in ns PROVE m >= q
    OBVIOUS
  <2>1. MaxVersion - q \in T
    BY ConstantsAssumption DEF Numbers
  <2> QED
    BY <1>3, <1>4, <2>1, ConstantsAssumption DEF Numbers
<1> QED
  BY <1>5 DEF Max

-----------------------------------------------------------------------------
\* Steps that leave the version files and acked alone.

\* The variables no invariant but TypeOK speaks of.
RestTyped ==
  /\ vdirs \subseteq Keys
  /\ lfile \in [Keys -> [Labels -> [size : Nat, mark : Marks \cup {None, Torn}]]]
  /\ before \in [Clients -> SUBSET Inserted]
  /\ begun \in Nat /\ faults \in Nat

\* cl is the record of a call that has no version file open.
Aside(cl) == ~ (cl.op = "insertVersion" /\ cl.pc \in {"write", "close"})

LEMMA QuietKeepsFInv ==
  ASSUME FInv, NEW c \in Clients, NEW cl, call' = [call EXCEPT ![c] = cl],
         Sane(cl), Aside(cl), vfile' = vfile, acked' = acked, RestTyped'
  PROVE  FInv'
<1>1. call'[c] = cl /\ \A d \in Clients \ {c} : call'[d] = call[d]
  BY DEF FInv, TypeOK
<1>2. TypeOK'
  BY DEF FInv, TypeOK, RestTyped, Sane
<1>3. \A d \in Clients : Sane(call[d])'
  BY <1>1 DEF FInv, Sane
<1>4. OneWriter' /\ WritersHold'
  BY <1>1 DEF FInv, OneWriter, WritersHold, Writing, Closing, FileOf, Aside
<1> QED
  BY <1>2, <1>3, <1>4 DEF FInv, AckedIsWhole

LEMMA FinishSane ==
  ASSUME NEW cl \in Calls, NEW o \in {"ok", "absent", "conflict", "rejected"}
  PROVE  /\ Sane(Finish(cl, o)) /\ Aside(Finish(cl, o))
         /\ Finish(cl, o) \in Calls /\ Finish(cl, o).pc = "done"
  BY DEF Finish, Sane, Aside, Calls

LEMMA AnsweredSane ==
  ASSUME NEW cl \in Calls, cl.pc = "done"
  PROVE  Sane(cl) /\ Aside(cl)
  BY DEF Sane, Aside

LEMMA BeginKeepsFInv ==
  ASSUME FInv, NEW c \in Clients, NEW op, NEW cl, Begin(c, op, cl),
         Sane([cl EXCEPT !.op = op]), Aside([cl EXCEPT !.op = op])
  PROVE  FInv'
<1>1. RestTyped' /\ vfile' = vfile /\ acked' = acked
  BY DEF FInv, TypeOK, RestTyped, Begin, files
<1> QED
  BY <1>1, QuietKeepsFInv DEF Begin

LEMMA BeginCallKeepsFInv ==
  ASSUME FInv, NEW c \in Clients, BeginCall(c)
  PROVE  FInv'
<1>1. CASE BeginInsert(c)
  <2>1. PICK k \in Keys, n \in Numbers, d \in Docs : Begin(c, "insertVersion",
          [NoCall EXCEPT !.pc = "mkdir", !.key = k, !.number = n, !.doc = d])
    BY <1>1 DEF BeginInsert
  <2> DEFINE cl == [NoCall EXCEPT !.pc = "mkdir", !.key = k, !.number = n, !.doc = d]
             new == [cl EXCEPT !.op = "insertVersion"]
  <2>2. n \in Nat
    BY ConstantsAssumption DEF Numbers
  <2>3. Sane(new) /\ Aside(new)
    BY <2>2 DEF NoCall, Sane, Aside, Calls, Methods, Inserted, RowOf
  <2> QED
    BY <2>1, <2>3, BeginKeepsFInv
<1>2. CASE BeginUpsert(c)
  <2>1. PICK k \in Keys, l \in Labels, m \in Marks : Begin(c, "upsertLabel",
          [NoCall EXCEPT !.pc = "truncate", !.key = k, !.label = l, !.mark = m])
    BY <1>2 DEF BeginUpsert
  <2> DEFINE cl == [NoCall EXCEPT !.pc = "truncate", !.key = k, !.label = l, !.mark = m]
             new == [cl EXCEPT !.op = "upsertLabel"]
  <2>2. Sane(new) /\ Aside(new)
    BY DEF NoCall, Sane, Aside, Calls, Methods
  <2> QED
    BY <2>1, <2>2, BeginKeepsFInv
<1>3. CASE BeginRead(c)
  <2> SUFFICES ASSUME NEW k \in Keys, NEW l \in Labels, NEW n \in Numbers,
        \/ Begin(c, "getVersion", [NoCall EXCEPT !.pc = "read", !.key = k, !.number = n])
        \/ Begin(c, "getLabel", [NoCall EXCEPT !.pc = "read", !.key = k, !.label = l])
        \/ \E op \in {"maxVersion", "listVersionsDesc"} :
             Begin(c, op, [NoCall EXCEPT !.pc = "read", !.key = k])
        \/ Begin(c, "distinctKeys", [NoCall EXCEPT !.pc = "read"])
      PROVE FInv'
    BY <1>3 DEF BeginRead
  <2>1. CASE Begin(c, "getVersion", [NoCall EXCEPT !.pc = "read", !.key = k, !.number = n])
    <3> DEFINE cl == [NoCall EXCEPT !.pc = "read", !.key = k, !.number = n]
               new == [cl EXCEPT !.op = "getVersion"]
    <3>1. n \in Nat
      BY ConstantsAssumption DEF Numbers
    <3>2. Sane(new) /\ Aside(new)
      BY <3>1 DEF NoCall, Sane, Aside, Calls, Methods
    <3> QED
      BY <2>1, <3>2, BeginKeepsFInv
  <2>2. CASE Begin(c, "getLabel", [NoCall EXCEPT !.pc = "read", !.key = k, !.label = l])
    <3> DEFINE cl == [NoCall EXCEPT !.pc = "read", !.key = k, !.label = l]
               new == [cl EXCEPT !.op = "getLabel"]
    <3>1. Sane(new) /\ Aside(new)
      BY DEF NoCall, Sane, Aside, Calls, Methods
    <3> QED
      BY <2>2, <3>1, BeginKeepsFInv
  <2>3. ASSUME NEW op \in {"maxVersion", "listVersionsDesc"},
               Begin(c, op, [NoCall EXCEPT !.pc = "read", !.key = k])
        PROVE  FInv'
    <3> DEFINE cl == [NoCall EXCEPT !.pc = "read", !.key = k]
               new == [cl EXCEPT !.op = op]
    <3>1. Sane(new) /\ Aside(new)
      BY DEF NoCall, Sane, Aside, Calls, Methods
    <3> QED
      BY <2>3, <3>1, BeginKeepsFInv
  <2>4. CASE Begin(c, "distinctKeys", [NoCall EXCEPT !.pc = "read"])
    <3> DEFINE cl == [NoCall EXCEPT !.pc = "read"]
               new == [cl EXCEPT !.op = "distinctKeys"]
    <3>1. Sane(new) /\ Aside(new)
      BY DEF NoCall, Sane, Aside, Calls, Methods
    <3> QED
      BY <2>4, <3>1, BeginKeepsFInv
  <2> QED
    BY <2>1, <2>2, <2>3, <2>4
<1> QED
  BY <1>1, <1>2, <1>3 DEF BeginCall

-----------------------------------------------------------------------------
\* Continue, step by step.

\* A step of a method that leaves the version files and acked alone.
LEMMA StepKeepsFInv ==
  ASSUME FInv, NEW c \in Clients, NEW op, NEW pc, NEW cl, Step(c, op, pc, cl),
         Sane(cl), Aside(cl), vfile' = vfile, acked' = acked,
         vdirs' \subseteq Keys,
         lfile' \in [Keys -> [Labels -> [size : Nat, mark : Marks \cup {None, Torn}]]]
  PROVE  FInv'
<1>1. RestTyped'
  BY DEF FInv, TypeOK, RestTyped, Step
<1> QED
  BY <1>1, QuietKeepsFInv DEF Step

LEMMA ReadKeepsFInv ==
  ASSUME FInv, NEW c \in Clients, NEW op, NEW pc, NEW cl, Read(c, op, pc, cl),
         Sane(cl), Aside(cl)
  PROVE  FInv'
  BY StepKeepsFInv DEF Read, files, FInv, TypeOK

LEMMA ReadsKeepFInv ==
  ASSUME FInv, NEW c \in Clients,
         \/ ReadVersion(c) \/ ReadLabel(c) \/ ReadMax(c)
         \/ ReadDir(c) \/ ReadEach(c) \/ ReadKeys(c)
  PROVE  FInv'
<1> DEFINE cl == call[c]
<1>0. Sane(cl) /\ cl \in Calls
  BY DEF FInv, Sane
<1>1. CASE ReadVersion(c)
  <2> DEFINE got == Parsed(vfile[cl.key][cl.number])
             rows == IF got = "ok" THEN {Holds(cl.key, cl.number)} ELSE {}
             new == [Finish(cl, got) EXCEPT !.found = rows]
  <2>1. Read(c, "getVersion", "read", new) /\ cl.op = "getVersion" /\ cl.pc = "read"
    BY <1>1 DEF ReadVersion, Read, Step
  <2>2. cl.key \in Keys /\ cl.number \in Numbers
    BY <1>0, <2>1 DEF Sane
  <2>3. got \in {"ok", "absent", "rejected"} /\ rows \in SUBSET Inserted
    BY <2>2 DEF FInv, TypeOK, Parsed, Holds, Inserted
  <2> HIDE DEF got, rows
  <2> DEFINE g == Finish(cl, got)
  <2>4. g \in Calls /\ g.pc = "done"
    BY <1>0, <2>3, FinishSane
  <2> HIDE DEF g
  <2>5. [g EXCEPT !.found = rows] \in Calls /\ [g EXCEPT !.found = rows].pc = "done"
    BY <2>3, <2>4 DEF Calls
  <2> QED
    BY <2>1, <2>5, AnsweredSane, ReadKeepsFInv DEF g
<1>2. CASE ReadLabel(c)
  <2> DEFINE mark == lfile[cl.key][cl.label].mark
             got == Parsed(mark)
             kept == IF mark \in Marks THEN mark ELSE None
             new == [Finish(cl, got) EXCEPT !.mark = kept]
  <2>1. Read(c, "getLabel", "read", new)
    BY <1>2 DEF ReadLabel
  <2>2. got \in {"ok", "absent", "rejected"} /\ kept \in Marks \cup {None}
    BY DEF Parsed
  <2> HIDE DEF got, kept
  <2> DEFINE g == Finish(cl, got)
  <2>3. g \in Calls /\ g.pc = "done"
    BY <1>0, <2>2, FinishSane
  <2> HIDE DEF g
  <2>4. [g EXCEPT !.mark = kept] \in Calls /\ [g EXCEPT !.mark = kept].pc = "done"
    BY <2>2, <2>3 DEF Calls
  <2> QED
    BY <2>1, <2>4, AnsweredSane, ReadKeepsFInv DEF g
<1>3. CASE ReadMax(c)
  <2> DEFINE ns == VersionNumbers(cl.key)
             new == [Finish(cl, "ok") EXCEPT !.number = Max(ns)]
  <2>1. Read(c, "maxVersion", "read", IF ns = {} THEN Finish(cl, "absent") ELSE new)
    BY <1>3 DEF ReadMax
  <2>2. ns = {} => Sane(Finish(cl, "absent")) /\ Aside(Finish(cl, "absent"))
    BY <1>0, FinishSane
  <2>3. ns # {} => Max(ns) \in Nat
    BY MaxIsMember, ConstantsAssumption DEF VersionNumbers, Numbers
  <2> HIDE DEF ns
  <2>4. ns # {} => Sane(new) /\ Aside(new)
    BY <1>0, <2>3 DEF Finish, Calls, Sane, Aside
  <2> QED
    BY <2>1, <2>2, <2>4, ReadKeepsFInv
<1>4. CASE ReadDir(c)
  <2> DEFINE ns == VersionNumbers(cl.key)
             new == [Goto(cl, "readEach") EXCEPT !.todo = ns]
  <2>1. /\ Read(c, "listVersionsDesc", "read", new)
        /\ cl.op = "listVersionsDesc" /\ cl.pc = "read"
    BY <1>4 DEF ReadDir, Read, Step
  <2>2. ns \subseteq Numbers /\ \A n \in ns : vfile[cl.key][n] # None
    BY DEF VersionNumbers
  <2>3. cl.key \in Keys
    BY <1>0, <2>1 DEF Sane
  <2> HIDE DEF ns
  <2>4. Sane(new) /\ Aside(new)
    BY <1>0, <2>1, <2>2, <2>3 DEF Goto, Calls, Sane, Aside
  <2> QED
    BY <2>1, <2>4, ReadKeepsFInv
<1>5. CASE ReadEach(c)
  <2>1. CASE Read(c, "listVersionsDesc", "readEach", Finish(cl, "ok"))
    BY <1>0, <2>1, FinishSane, ReadKeepsFInv
  <2>2. ASSUME NEW n \in cl.todo, vfile[cl.key][n] = Torn,
               Read(c, "listVersionsDesc", "readEach", Finish(cl, "rejected"))
        PROVE  FInv'
    BY <1>0, <2>2, FinishSane, ReadKeepsFInv
  <2>3. ASSUME NEW n \in cl.todo, vfile[cl.key][n] # Torn,
               Read(c, "listVersionsDesc", "readEach",
                 [cl EXCEPT !.todo = @ \ {n}, !.found = @ \cup {Holds(cl.key, n)}])
        PROVE  FInv'
    <3> DEFINE row == Holds(cl.key, n)
               new == [cl EXCEPT !.todo = cl.todo \ {n}, !.found = cl.found \cup {row}]
    <3>1. cl.op = "listVersionsDesc" /\ cl.pc = "readEach"
      BY <2>3 DEF Read, Step
    <3>2. /\ cl.key \in Keys /\ n \in Numbers
          /\ \A m \in cl.todo : vfile[cl.key][m] # None
      BY <1>0, <3>1 DEF Sane, Calls
    <3>3. row \in Inserted
      BY <2>3, <3>2 DEF FInv, TypeOK, Holds, Inserted
    <3> HIDE DEF row
    <3>4. new \in Calls /\ new.op = cl.op /\ new.pc = cl.pc /\ new.key = cl.key
          /\ new.todo \subseteq cl.todo
      BY <1>0, <3>3 DEF Calls
    <3>5. Sane(new) /\ Aside(new)
      BY <3>1, <3>2, <3>4 DEF Sane, Aside
    <3> QED
      BY <2>3, <3>5, ReadKeepsFInv DEF row
  <2> QED
    BY <1>5, <2>1, <2>2, <2>3 DEF ReadEach
<1>6. CASE ReadKeys(c)
  <2> DEFINE new == [Finish(cl, "ok") EXCEPT !.keys = vdirs]
  <2>1. Read(c, "distinctKeys", "read", new)
    BY <1>6 DEF ReadKeys
  <2> DEFINE g == Finish(cl, "ok")
  <2>2. g \in Calls /\ g.pc = "done"
    BY <1>0, FinishSane
  <2> HIDE DEF g
  <2>3. [g EXCEPT !.keys = vdirs] \in Calls /\ [g EXCEPT !.keys = vdirs].pc = "done"
    BY <2>2 DEF Calls, FInv, TypeOK
  <2> QED
    BY <2>1, <2>3, AnsweredSane, ReadKeepsFInv DEF g
<1> QED
  BY <1>1, <1>2, <1>3, <1>4, <1>5, <1>6

LEMMA UpsertKeepsFInv ==
  ASSUME FInv, NEW c \in Clients,
         Mkdir(c) \/ Truncate(c) \/ Overwrite(c) \/ CloseLabel(c)
  PROVE  FInv'
<1> DEFINE cl == call[c]
<1>0. /\ Sane(cl) /\ cl \in Calls /\ vdirs \subseteq Keys
      /\ lfile \in [Keys -> [Labels -> [size : Nat, mark : Marks \cup {None, Torn}]]]
  BY DEF FInv, Sane, TypeOK
<1>1. CASE Mkdir(c)
  <2>1. /\ Step(c, "insertVersion", "mkdir", Goto(cl, "create"))
        /\ vdirs' = vdirs \cup {cl.key} /\ vfile' = vfile /\ lfile' = lfile /\ acked' = acked
        /\ cl.op = "insertVersion" /\ cl.pc = "mkdir"
    BY <1>1 DEF Mkdir, Step
  <2>2. cl.key \in Keys /\ RowOf(cl) \in Inserted
    BY <1>0, <2>1 DEF Sane, RowOf, Inserted
  <2>3. Sane(Goto(cl, "create")) /\ Aside(Goto(cl, "create"))
    BY <1>0, <2>1, <2>2 DEF Goto, Calls, Sane, Aside, RowOf
  <2> QED
    BY <1>0, <2>1, <2>2, <2>3, StepKeepsFInv
<1>2. CASE Truncate(c)
  <2>1. /\ Step(c, "upsertLabel", "truncate", Goto(cl, "overwrite"))
        /\ cl.op = "upsertLabel" /\ cl.pc = "truncate"
        /\ lfile' = [lfile EXCEPT ![cl.key][cl.label] = [size |-> 0, mark |-> Torn]]
        /\ vdirs' = vdirs /\ vfile' = vfile /\ acked' = acked
    BY <1>2 DEF Truncate, Step
  <2>2. Sane(Goto(cl, "overwrite")) /\ Aside(Goto(cl, "overwrite"))
    BY <1>0, <2>1 DEF Goto, Calls, Sane, Aside
  <2>3. lfile' \in [Keys -> [Labels -> [size : Nat, mark : Marks \cup {None, Torn}]]]
    BY <1>0, <2>1
  <2> QED
    BY <1>0, <2>1, <2>2, <2>3, StepKeepsFInv
<1>3. CASE Overwrite(c)
  <2> DEFINE old == lfile[cl.key][cl.label].size
             new == Size[cl.mark]
             content == IF new >= old THEN [size |-> new, mark |-> cl.mark]
                                      ELSE [size |-> old, mark |-> Torn]
  <2>1. /\ Step(c, "upsertLabel", "overwrite", Goto(cl, "close"))
        /\ cl.op = "upsertLabel" /\ cl.pc = "overwrite"
        /\ lfile' = [lfile EXCEPT ![cl.key][cl.label] = content]
        /\ vdirs' = vdirs /\ vfile' = vfile /\ acked' = acked
    BY <1>3 DEF Overwrite, Step
  <2>2. cl.key \in Keys /\ cl.label \in Labels /\ cl.mark \in Marks
    BY <1>0, <2>1 DEF Sane
  <2>3. content \in [size : Nat, mark : Marks \cup {None, Torn}]
    BY <1>0, <2>2, ConstantsAssumption
  <2>4. Sane(Goto(cl, "close")) /\ Aside(Goto(cl, "close"))
    BY <1>0, <2>1 DEF Goto, Calls, Sane, Aside
  <2> HIDE DEF content
  <2>5. lfile' \in [Keys -> [Labels -> [size : Nat, mark : Marks \cup {None, Torn}]]]
    BY <1>0, <2>1, <2>3
  <2> QED
    BY <1>0, <2>1, <2>4, <2>5, StepKeepsFInv
<1>4. CASE CloseLabel(c)
  <2>1. /\ Step(c, "upsertLabel", "close", Finish(cl, "ok"))
        /\ vdirs' = vdirs /\ vfile' = vfile /\ lfile' = lfile /\ acked' = acked
    BY <1>4 DEF CloseLabel, files
  <2> QED
    BY <1>0, <2>1, FinishSane, StepKeepsFInv
<1> QED
  BY <1>1, <1>2, <1>3, <1>4

-----------------------------------------------------------------------------
\* The steps on a version file.

LEMMA CreateKeepsFInv ==
  ASSUME FInv, NEW c \in Clients, Create(c)
  PROVE  FInv'
<1> DEFINE cl == call[c]
           k == cl.key
           n == cl.number
<1>0. Sane(cl) /\ cl \in Calls
  BY DEF FInv, Sane
<1>1. cl.op = "insertVersion" /\ cl.pc = "create" /\ RowOf(cl) \in Inserted
  BY <1>0 DEF Create, Step, Sane
<1>2. k \in Keys /\ n \in Numbers /\ cl.doc \in Docs
  BY <1>1 DEF RowOf, Inserted
<1>3. CASE vfile[k][n] # None
  <2>1. /\ Step(c, "insertVersion", "create", Finish(cl, "conflict"))
        /\ vdirs' = vdirs /\ vfile' = vfile /\ lfile' = lfile /\ acked' = acked
    BY <1>3 DEF Create
  <2> QED
    BY <1>0, <2>1, FinishSane, StepKeepsFInv DEF FInv, TypeOK
<1>4. CASE vfile[k][n] = None
  <2> DEFINE new == Goto(cl, "write")
  <2>1. /\ Step(c, "insertVersion", "create", new)
        /\ vfile' = [vfile EXCEPT ![k][n] = Torn]
        /\ vdirs' = vdirs /\ lfile' = lfile /\ acked' = acked
    BY <1>4 DEF Create
  <2>2. /\ new \in Calls /\ new.op = "insertVersion" /\ new.pc = "write"
        /\ new.key = k /\ new.number = n /\ new.doc = cl.doc /\ new.todo = cl.todo
    BY <1>0, <1>1 DEF Goto, Calls
  <2> HIDE DEF new
  <2>3. call'[c] = new /\ \A d \in Clients \ {c} : call'[d] = call[d]
    BY <2>1 DEF Step, FInv, TypeOK
  <2>4. /\ vfile' \in [Keys -> [Numbers -> Docs \cup {None, Torn}]]
        /\ vfile'[k][n] = Torn
        /\ \A kk \in Keys, nn \in Numbers :
             kk # k \/ nn # n => vfile'[kk][nn] = vfile[kk][nn]
    BY <1>2, <2>1 DEF FInv, TypeOK
  <2>5. ASSUME NEW d \in Clients PROVE Sane(call[d])'
    <3>1. CASE d = c
      BY <1>1, <2>2, <2>3, <3>1 DEF Sane, RowOf
    <3>2. CASE d # c
      <4>1. Sane(call[d]) /\ call'[d] = call[d]
        BY <2>3, <3>2 DEF FInv
      <4>2. \A m \in call[d].todo :
              call[d].key \in Keys /\ vfile[call[d].key][m] # None
                => vfile'[call[d].key][m] # None
        BY <2>4, <4>1, ConstantsAssumption DEF Sane, Calls
      <4> QED
        BY <4>1, <4>2 DEF Sane
    <3> QED
      BY <3>1, <3>2
  <2>6. ASSUME NEW d \in Clients, Writing(d) \/ Closing(d)
        PROVE  /\ call[d].key \in Keys /\ call[d].number \in Numbers
               /\ FileOf(d) # None /\ d # c
    <3>1. RowOf(call[d]) \in Inserted /\ d # c
      BY <1>1, <2>6 DEF FInv, Sane, Writing, Closing
    <3> QED
      BY <2>6, <3>1, ConstantsAssumption
      DEF FInv, WritersHold, RowOf, Inserted
  <2>7. OneWriter' /\ WritersHold'
    <3>1. \A d \in Clients \ {c} : Writing(d)' = Writing(d) /\ Closing(d)' = Closing(d)
      BY <2>3 DEF Writing, Closing
    <3>2. Writing(c)' /\ ~ Closing(c)' /\ FileOf(c)' = Torn
      BY <2>2, <2>3, <2>4 DEF Writing, Closing, FileOf
    <3>3. ASSUME NEW d \in Clients \ {c}, Writing(d) \/ Closing(d)
          PROVE  FileOf(d)' = FileOf(d) /\ (call[d].key # k \/ call[d].number # n)
      BY <1>4, <2>3, <2>4, <2>6, <3>3 DEF FileOf
    <3>4. WritersHold'
      BY <2>3, <3>1, <3>2, <3>3 DEF WritersHold, FInv
    <3>5. OneWriter'
      BY <2>2, <2>3, <3>1, <3>2, <3>3 DEF OneWriter, FInv
    <3> QED
      BY <3>4, <3>5
  <2>8. AckedIsWhole'
    BY <1>4, <2>1, <2>4, ConstantsAssumption DEF FInv, TypeOK, AckedIsWhole, Inserted
  <2>9. TypeOK'
    BY <2>1, <2>2, <2>4 DEF FInv, TypeOK, Step
  <2> QED
    BY <2>5, <2>7, <2>8, <2>9 DEF FInv
<1> QED
  BY <1>3, <1>4

\* One proof for Write: the file of c goes from Torn to c's document.
LEMMA WriteKeepsFInv ==
  ASSUME FInv, NEW c \in Clients, Write(c)
  PROVE  FInv'
<1> DEFINE cl == call[c]
           k == cl.key
           n == cl.number
           new == Goto(cl, "close")
<1>0. Sane(cl) /\ cl \in Calls
  BY DEF FInv, Sane
<1>1. cl.op = "insertVersion" /\ cl.pc = "write" /\ RowOf(cl) \in Inserted
  BY <1>0 DEF Write, Step, Sane
<1>2. k \in Keys /\ n \in Numbers /\ cl.doc \in Docs
  BY <1>1 DEF RowOf, Inserted
<1>3. /\ call' = [call EXCEPT ![c] = new]
      /\ vfile' = [vfile EXCEPT ![k][n] = cl.doc]
      /\ vdirs' = vdirs /\ lfile' = lfile /\ acked' = acked
      /\ before' = before /\ begun' = begun /\ faults' = faults
  BY DEF Write, Step
<1>4. vfile[k][n] = Torn
  BY <1>1 DEF FInv, WritersHold, Writing, FileOf
<1>5. /\ new \in Calls /\ new.op = "insertVersion" /\ new.pc = "close"
      /\ new.key = k /\ new.number = n /\ new.doc = cl.doc /\ new.todo = cl.todo
  BY <1>0, <1>1 DEF Goto, Calls
<1> HIDE DEF new
<1>6. call'[c] = new /\ \A d \in Clients \ {c} : call'[d] = call[d]
  BY <1>3 DEF FInv, TypeOK
<1>7. /\ vfile' \in [Keys -> [Numbers -> Docs \cup {None, Torn}]]
      /\ vfile'[k][n] = cl.doc
      /\ \A kk \in Keys, nn \in Numbers :
           kk # k \/ nn # n => vfile'[kk][nn] = vfile[kk][nn]
  BY <1>2, <1>3 DEF FInv, TypeOK
<1>8. ASSUME NEW d \in Clients PROVE Sane(call[d])'
  <2>1. CASE d = c
    BY <1>1, <1>5, <1>6, <2>1 DEF Sane, RowOf
  <2>2. CASE d # c
    <3>1. Sane(call[d]) /\ call'[d] = call[d]
      BY <1>6, <2>2 DEF FInv
    <3>2. call[d].pc = "readEach" =>
            \A m \in call[d].todo : vfile'[call[d].key][m] # None
      BY <1>2, <1>7, <3>1, ConstantsAssumption DEF Sane, Calls
    <3> QED
      BY <3>1, <3>2 DEF Sane
  <2> QED
    BY <2>1, <2>2
<1>9. ASSUME NEW d \in Clients \ {c}, Writing(d) \/ Closing(d)
      PROVE  FileOf(d)' = FileOf(d)
  <2>1. RowOf(call[d]) \in Inserted
    BY <1>9 DEF FInv, Sane, Writing, Closing
  <2>2. call[d].key \in Keys /\ call[d].number \in Numbers /\ call[d].doc \in Docs
    BY <2>1 DEF RowOf, Inserted
  <2>3. call[d].key # k \/ call[d].number # n
    <3>1. CASE Writing(d)
      BY <1>1, <3>1 DEF FInv, OneWriter, Writing
    <3>2. CASE Closing(d)
      BY <1>4, <2>2, <3>2, ConstantsAssumption DEF FInv, WritersHold, FileOf
    <3> QED
      BY <1>9, <3>1, <3>2
  <2> QED
    BY <1>6, <1>7, <2>2, <2>3 DEF FileOf
<1>10. OneWriter' /\ WritersHold'
  <2>1. \A d \in Clients \ {c} : Writing(d)' = Writing(d) /\ Closing(d)' = Closing(d)
    BY <1>6 DEF Writing, Closing
  <2>2. ~ Writing(c)' /\ Closing(c)' /\ FileOf(c)' = call'[c].doc
    BY <1>5, <1>6, <1>7 DEF Writing, Closing, FileOf
  <2>3. WritersHold'
    BY <1>6, <1>9, <2>1, <2>2 DEF WritersHold, FInv
  <2>4. OneWriter'
    BY <1>6, <2>1, <2>2 DEF OneWriter, FInv
  <2> QED
    BY <2>3, <2>4
<1>11. AckedIsWhole'
  BY <1>3, <1>4, <1>7, ConstantsAssumption DEF FInv, TypeOK, AckedIsWhole, Inserted
<1>12. TypeOK'
  BY <1>3, <1>5, <1>7 DEF FInv, TypeOK
<1> QED
  BY <1>8, <1>10, <1>11, <1>12 DEF FInv

LEMMA CloseKeepsFInv ==
  ASSUME FInv, NEW c \in Clients, CloseVersion(c)
  PROVE  FInv'
<1> DEFINE cl == call[c]
           new == Finish(cl, "ok")
<1>0. Sane(cl) /\ cl \in Calls
  BY DEF FInv, Sane
<1>1. /\ cl.op = "insertVersion" /\ cl.pc = "close"
      /\ call' = [call EXCEPT ![c] = new] /\ acked' = acked \cup {RowOf(cl)}
      /\ vdirs' = vdirs /\ vfile' = vfile /\ lfile' = lfile
      /\ before' = before /\ begun' = begun /\ faults' = faults
  BY DEF CloseVersion, Step, files
<1>2. RowOf(cl) \in Inserted /\ vfile[cl.key][cl.number] = cl.doc
  BY <1>0, <1>1 DEF Sane, FInv, WritersHold, Closing, FileOf
<1>3. Sane(new) /\ Aside(new) /\ new \in Calls
  BY <1>0, FinishSane
<1> HIDE DEF new
<1>4. call'[c] = new /\ \A d \in Clients \ {c} : call'[d] = call[d]
  BY <1>1 DEF FInv, TypeOK
<1>5. \A d \in Clients : Sane(call[d])'
  BY <1>1, <1>3, <1>4 DEF FInv, Sane
<1>6. OneWriter' /\ WritersHold'
  BY <1>1, <1>3, <1>4 DEF FInv, OneWriter, WritersHold, Writing, Closing, FileOf, Aside
<1>7. AckedIsWhole'
  BY <1>1, <1>2 DEF FInv, AckedIsWhole, RowOf
<1>8. TypeOK'
  BY <1>1, <1>2, <1>3 DEF FInv, TypeOK
<1> QED
  BY <1>5, <1>6, <1>7, <1>8 DEF FInv

-----------------------------------------------------------------------------
\* Faults, and the theorems.

LEMMA FaultKeepsFInv ==
  ASSUME FInv, (\E c \in Clients : WriteFails(c)) \/ (\E p \in Procs : Crash(p))
  PROVE  FInv'
<1>1. CASE \E c \in Clients : WriteFails(c)
  <2>1. PICK c \in Clients : WriteFails(c)
    BY <1>1
  <2> DEFINE new == Finish(call[c], "rejected")
  <2>2. /\ call' = [call EXCEPT ![c] = new] /\ vfile' = vfile /\ acked' = acked
        /\ RestTyped'
    BY <2>1 DEF WriteFails, files, FInv, TypeOK, RestTyped
  <2>3. Sane(new) /\ Aside(new)
    BY FinishSane DEF FInv, TypeOK
  <2> QED
    BY <2>2, <2>3, QuietKeepsFInv
<1>2. CASE \E p \in Procs : Crash(p)
  <2>1. PICK p \in Procs : Crash(p)
    BY <1>2
  <2>2. /\ vdirs' = vdirs /\ vfile' = vfile /\ lfile' = lfile /\ acked' = acked
        /\ before' = before /\ begun' = begun /\ faults' = faults + 1
        /\ call' = [c \in Clients |-> IF ProcOf[c] = p THEN NoCall ELSE call[c]]
    BY <2>1 DEF Crash, files
  <2>3. NoCall \in Calls /\ Sane(NoCall) /\ Aside(NoCall)
    BY DEF NoCall, Calls, Sane, Aside
  <2>4. \A c \in Clients : call'[c] = call[c] \/ call'[c] = NoCall
    BY <2>2
  <2> HIDE DEF NoCall
  <2>5. TypeOK'
    BY <2>2, <2>3 DEF FInv, TypeOK
  <2>6. \A c \in Clients : Sane(call[c])'
    BY <2>2, <2>3, <2>4 DEF FInv, Sane
  <2>7. OneWriter' /\ WritersHold'
    BY <2>2, <2>3, <2>4
    DEF FInv, OneWriter, WritersHold, Writing, Closing, FileOf, Aside
  <2> QED
    BY <2>2, <2>5, <2>6, <2>7 DEF FInv, AckedIsWhole
<1> QED
  BY <1>1, <1>2

LEMMA InitFInv == Init => FInv
<1> SUFFICES ASSUME Init PROVE FInv
  OBVIOUS
<1>1. NoCall \in Calls /\ Sane(NoCall) /\ Aside(NoCall)
  BY DEF NoCall, Calls, Sane, Aside
<1>2. \A c \in Clients : call[c] = NoCall
  BY DEF Init
<1>3. TypeOK
  BY <1>1 DEF Init, TypeOK
<1> QED
  BY <1>1, <1>2, <1>3
  DEF Init, FInv, OneWriter, WritersHold, Writing, Closing, Aside, AckedIsWhole

LEMMA StepFInv == FInv /\ [Next]_vars => FInv'
<1> SUFFICES ASSUME FInv, [Next]_vars PROVE FInv'
  OBVIOUS
<1>1. CASE UNCHANGED vars
  BY <1>1 DEF vars, FInv, TypeOK, Sane, OneWriter, WritersHold, Writing, Closing,
              FileOf, AckedIsWhole
<1>2. CASE Rest
  BY <1>1, <1>2 DEF Rest
<1>3. ASSUME NEW c \in Clients, BeginCall(c) PROVE FInv'
  BY <1>3, BeginCallKeepsFInv
<1>4. ASSUME NEW c \in Clients, Continue(c) PROVE FInv'
  BY <1>4, CreateKeepsFInv, WriteKeepsFInv, CloseKeepsFInv, UpsertKeepsFInv, ReadsKeepFInv
  DEF Continue
<1> QED
  BY <1>1, <1>2, <1>3, <1>4, FaultKeepsFInv DEF Next

\* The invariant of the files and of those who are writing them.
THEOREM FileInvariant == Spec => []FInv
<1> QED
  BY InitFInv, StepFInv, PTL DEF Spec

\* Whatever insertVersion acknowledged is in its file, whole, for ever: through
\* rivals for the number, crashes of any process and writes that fail.
THEOREM AcknowledgedIsWhole == Spec => []AckedIsWhole
<1>1. FInv => AckedIsWhole
  BY DEF FInv
<1> QED
  BY <1>1, FileInvariant, PTL

\* A version file that holds a document is never written again, so no reader
\* sees a version change.
THEOREM VersionFilesStay == Spec => WholeFilesStay
<1> DEFINE Stay == \A k \in Keys, n \in Numbers :
             vfile[k][n] \in Docs => vfile'[k][n] = vfile[k][n]
<1>1. FInv /\ [Next]_vars => [Stay]_vars
  <2> SUFFICES ASSUME FInv, Next PROVE Stay
    OBVIOUS
  <2>1. ASSUME NEW c \in Clients, Create(c) PROVE Stay
    <3>1. CASE vfile' = vfile
      BY <3>1
    <3>2. CASE /\ vfile[call[c].key][call[c].number] = None
               /\ vfile' = [vfile EXCEPT ![call[c].key][call[c].number] = Torn]
      <4>1. None \notin Docs
        BY ConstantsAssumption
      <4> QED
        BY <3>2, <4>1 DEF FInv, TypeOK
    <3> QED
      BY <2>1, <3>1, <3>2 DEF Create
  <2>2. ASSUME NEW c \in Clients, Write(c) PROVE Stay
    <3>1. vfile[call[c].key][call[c].number] = Torn
      BY <2>2 DEF Write, Step, FInv, WritersHold, Writing, FileOf
    <3> QED
      BY <2>2, <3>1, ConstantsAssumption DEF Write, FInv, TypeOK
  <2>3. CASE vfile' = vfile
    BY <2>3
  <2>4. (\E c \in Clients : Create(c) \/ Write(c)) \/ vfile' = vfile
    BY DEF Next, BeginCall, Continue, BeginInsert, BeginUpsert, BeginRead, Begin,
           Mkdir, CloseVersion, Truncate, Overwrite, CloseLabel, ReadVersion,
           ReadLabel, ReadMax, ReadDir, ReadEach, ReadKeys, Read, WriteFails,
           Crash, Rest, files, vars
  <2> QED
    BY <2>1, <2>2, <2>3, <2>4
<1> QED
  BY <1>1, FileInvariant, PTL DEF Spec, WholeFilesStay
\* Every variable has its type, each call's record among them.
THEOREM FileTypes == Spec => []TypeOK
<1>1. FInv => TypeOK
  BY DEF FInv
<1> QED
  BY <1>1, FileInvariant, PTL

-----------------------------------------------------------------------------
\* What a read that began later has in its answer.

\* B is what was acknowledged when the call began, A what has been since, and V the
\* keys whose directory is there.
KeepsUp(cl, B, A, V) ==
  /\ B \subseteq A
  /\ cl.pc # "done" => cl.outcome = "pending"
  /\ cl.pc \in {"write", "overwrite"} => cl.op \in {"insertVersion", "upsertLabel"}
  /\ cl.op = "insertVersion" /\ cl.pc \in {"create", "write", "close"} => cl.key \in V
  /\ cl.op = "listVersionsDesc" /\ cl.pc = "readEach" =>
       \A r \in B : r.key = cl.key => r.number \in cl.todo \/ r \in cl.found
  /\ \A r \in B :
       /\ cl.op = "getVersion" /\ cl.pc = "done" /\ cl.key = r.key /\ cl.number = r.number
            => cl.outcome = "ok" /\ cl.found = {r}
       /\ cl.op = "maxVersion" /\ cl.pc = "done" /\ cl.key = r.key
            => cl.outcome = "ok" /\ cl.number >= r.number
       /\ cl.op = "listVersionsDesc" /\ cl.outcome = "ok" /\ cl.key = r.key => r \in cl.found
       /\ cl.op = "distinctKeys" /\ cl.outcome = "ok" => r.key \in cl.keys

KInv ==
  /\ \A r \in acked : r.key \in vdirs
  /\ \A c \in Clients : KeepsUp(call[c], before[c], acked, vdirs)

LEMMA KeepsUpStays ==
  ASSUME NEW cl, NEW B, NEW A, NEW V, NEW A2, NEW V2, A \subseteq A2, V \subseteq V2,
         KeepsUp(cl, B, A, V)
  PROVE  KeepsUp(cl, B, A2, V2)
  BY DEF KeepsUp

\* A call that only writes, and one that has not read yet.
LEMMA WriterKeepsUp ==
  ASSUME NEW cl, NEW B, NEW A, NEW V, B \subseteq A,
         cl.op \in {"insertVersion", "upsertLabel"},
         cl.pc # "done" => cl.outcome = "pending",
         cl.op = "insertVersion" /\ cl.pc \in {"create", "write", "close"} => cl.key \in V
  PROVE  KeepsUp(cl, B, A, V)
  BY DEF KeepsUp

LEMMA YoungKeepsUp ==
  ASSUME NEW cl, NEW B, NEW A, NEW V, B \subseteq A,
         cl.pc \in {"idle", "mkdir", "truncate", "read"}, cl.outcome = "pending"
  PROVE  KeepsUp(cl, B, A, V)
  BY DEF KeepsUp

LEMMA StepKeepsKInv ==
  ASSUME FInv, KInv, NEW c \in Clients, NEW cl, call' = [call EXCEPT ![c] = cl],
         before' = before, acked \subseteq acked', vdirs \subseteq vdirs',
         \A r \in acked' : r.key \in vdirs',
         KeepsUp(cl, before[c], acked', vdirs')
  PROVE  KInv'
<1>1. \A d \in Clients : call'[d] = IF d = c THEN cl ELSE call[d]
  BY DEF FInv, TypeOK
<1>2. ASSUME NEW d \in Clients PROVE KeepsUp(call'[d], before'[d], acked', vdirs')
  <2>1. CASE d = c
    BY <1>1, <2>1
  <2>2. CASE d # c
    <3>1. KeepsUp(call[d], before[d], acked, vdirs)
      BY DEF KInv
    <3>2. KeepsUp(call[d], before[d], acked', vdirs')
      BY <3>1, KeepsUpStays
    <3> QED
      BY <1>1, <2>2, <3>2
  <2> QED
    BY <2>1, <2>2
<1> QED
  BY <1>2 DEF KInv

LEMMA BeginKeepsKInv ==
  ASSUME FInv, KInv, NEW c \in Clients, BeginCall(c)
  PROVE  KInv'
<1>1. ASSUME NEW op, NEW cl, Begin(c, op, cl),
             [cl EXCEPT !.op = op].pc \in {"mkdir", "truncate", "read"},
             [cl EXCEPT !.op = op].outcome = "pending"
      PROVE  KInv'
  <2> DEFINE new == [cl EXCEPT !.op = op]
  <2>1. /\ call' = [call EXCEPT ![c] = new] /\ before' = [before EXCEPT ![c] = acked]
        /\ acked' = acked /\ vdirs' = vdirs
    BY <1>1 DEF Begin, files
  <2>2. new.pc \in {"mkdir", "truncate", "read"} /\ new.outcome = "pending"
    BY <1>1
  <2> HIDE DEF new
  <2>3. KeepsUp(new, acked, acked, vdirs)
    BY <2>2, YoungKeepsUp
  <2>4. ASSUME NEW d \in Clients PROVE KeepsUp(call'[d], before'[d], acked, vdirs)
    <3>1. CASE d = c
      <4>1. call'[d] = new /\ before'[d] = acked
        BY <2>1, <3>1 DEF FInv, TypeOK
      <4> QED
        BY <2>3, <4>1
    <3>2. CASE d # c
      <4>1. call'[d] = call[d] /\ before'[d] = before[d]
        BY <2>1, <3>2 DEF FInv, TypeOK
      <4> QED
        BY <4>1 DEF KInv
    <3> QED
      BY <3>1, <3>2
  <2> QED
    BY <2>1, <2>4 DEF KInv
<1>2. ASSUME NEW k \in Keys, NEW n \in Numbers, NEW d \in Docs, Begin(c, "insertVersion",
               [NoCall EXCEPT !.pc = "mkdir", !.key = k, !.number = n, !.doc = d])
      PROVE  KInv'
  BY <1>1, <1>2 DEF NoCall
<1>3. ASSUME NEW k \in Keys, NEW l \in Labels, NEW m \in Marks, Begin(c, "upsertLabel",
               [NoCall EXCEPT !.pc = "truncate", !.key = k, !.label = l, !.mark = m])
      PROVE  KInv'
  BY <1>1, <1>3 DEF NoCall
<1>4. ASSUME NEW k \in Keys, NEW l \in Labels, NEW n \in Numbers,
        \/ Begin(c, "getVersion", [NoCall EXCEPT !.pc = "read", !.key = k, !.number = n])
        \/ Begin(c, "getLabel", [NoCall EXCEPT !.pc = "read", !.key = k, !.label = l])
        \/ \E op \in {"maxVersion", "listVersionsDesc"} :
             Begin(c, op, [NoCall EXCEPT !.pc = "read", !.key = k])
        \/ Begin(c, "distinctKeys", [NoCall EXCEPT !.pc = "read"])
      PROVE KInv'
  <2>1. CASE Begin(c, "getVersion", [NoCall EXCEPT !.pc = "read", !.key = k, !.number = n])
    BY <1>1, <2>1 DEF NoCall
  <2>2. CASE Begin(c, "getLabel", [NoCall EXCEPT !.pc = "read", !.key = k, !.label = l])
    BY <1>1, <2>2 DEF NoCall
  <2>3. ASSUME NEW op \in {"maxVersion", "listVersionsDesc"},
               Begin(c, op, [NoCall EXCEPT !.pc = "read", !.key = k])
        PROVE  KInv'
    BY <1>1, <2>3 DEF NoCall
  <2>4. CASE Begin(c, "distinctKeys", [NoCall EXCEPT !.pc = "read"])
    BY <1>1, <2>4 DEF NoCall
  <2> QED
    BY <1>4, <2>1, <2>2, <2>3, <2>4
<1> QED
  BY <1>2, <1>3, <1>4 DEF BeginCall, BeginInsert, BeginUpsert, BeginRead
LEMMA FinishFields ==
  ASSUME NEW cl \in Calls, NEW o
  PROVE  LET f == Finish(cl, o) IN
         /\ f.pc = "done" /\ f.outcome = o /\ f.op = cl.op /\ f.key = cl.key
         /\ f.number = cl.number /\ f.found = cl.found /\ f.keys = cl.keys
  BY DEF Finish, Calls

LEMMA GotoFields ==
  ASSUME NEW cl \in Calls, NEW pc
  PROVE  LET g == Goto(cl, pc) IN
         /\ g.pc = pc /\ g.outcome = cl.outcome /\ g.op = cl.op /\ g.key = cl.key
         /\ g.found = cl.found
  BY DEF Goto, Calls

\* What was acknowledged before is whole, and its directory is there.
LEMMA BeforeIsWhole ==
  ASSUME FInv, KInv, NEW c \in Clients, NEW r \in before[c]
  PROVE  /\ r \in acked /\ r \in Inserted /\ r.key \in vdirs
         /\ vfile[r.key][r.number] = r.doc
         /\ vfile[r.key][r.number] # None /\ vfile[r.key][r.number] # Torn
         /\ r.number \in VersionNumbers(r.key) /\ Holds(r.key, r.number) = r
<1>1. r \in acked
  BY DEF KInv, KeepsUp
<1>2. r \in Inserted /\ r.key \in vdirs /\ vfile[r.key][r.number] = r.doc
  BY <1>1 DEF KInv, FInv, TypeOK, AckedIsWhole
<1>3. r.doc # None /\ r.doc # Torn
  BY <1>2, ConstantsAssumption DEF Inserted
<1>4. Holds(r.key, r.number) = r
  BY <1>2 DEF Holds, Inserted
<1> QED
  BY <1>1, <1>2, <1>3, <1>4 DEF VersionNumbers, Inserted

LEMMA WritesKeepKInv ==
  ASSUME FInv, KInv, NEW c \in Clients,
         \/ Mkdir(c) \/ Create(c) \/ Write(c) \/ CloseVersion(c)
         \/ Truncate(c) \/ Overwrite(c) \/ CloseLabel(c)
  PROVE  KInv'
<1> DEFINE cl == call[c]
<1>0. /\ cl \in Calls /\ KeepsUp(cl, before[c], acked, vdirs) /\ before[c] \subseteq acked
      /\ \A r \in acked : r.key \in vdirs
  BY DEF FInv, TypeOK, KInv, KeepsUp
<1>1. ASSUME NEW new, call' = [call EXCEPT ![c] = new], before' = before, acked' = acked,
             vdirs' = vdirs \/ vdirs' = vdirs \cup {cl.key},
             new.op \in {"insertVersion", "upsertLabel"},
             new.pc # "done" => new.outcome = "pending",
             new.op = "insertVersion" /\ new.pc \in {"create", "write", "close"} =>
               new.key \in vdirs'
      PROVE  KInv'
  <2>1. KeepsUp(new, before[c], acked', vdirs')
    BY <1>0, <1>1, WriterKeepsUp
  <2> QED
    BY <1>0, <1>1, <2>1, StepKeepsKInv
<1>2. ASSUME NEW o, call' = [call EXCEPT ![c] = Finish(cl, o)], before' = before,
             acked' = acked, vdirs' = vdirs, cl.op \in {"insertVersion", "upsertLabel"}
      PROVE  KInv'
  <2> DEFINE new == Finish(cl, o)
  <2>1. new.pc = "done" /\ new.op = cl.op
    BY <1>0, FinishFields
  <2> HIDE DEF new
  <2> QED
    BY <1>1, <1>2, <2>1 DEF new
<1>3. ASSUME NEW pc, call' = [call EXCEPT ![c] = Goto(cl, pc)], before' = before,
             acked' = acked, vdirs' = vdirs \/ vdirs' = vdirs \cup {cl.key},
             cl.op \in {"insertVersion", "upsertLabel"}, cl.outcome = "pending",
             cl.op = "insertVersion" /\ pc \in {"create", "write", "close"} => cl.key \in vdirs'
      PROVE  KInv'
  <2> DEFINE new == Goto(cl, pc)
  <2>1. new.pc = pc /\ new.op = cl.op /\ new.outcome = cl.outcome /\ new.key = cl.key
    BY <1>0, GotoFields
  <2> HIDE DEF new
  <2> QED
    BY <1>1, <1>3, <2>1 DEF new
<1>4. ASSUME Mkdir(c) PROVE KInv'
  <2>1. cl.op = "insertVersion" /\ cl.pc = "mkdir" /\ cl.outcome = "pending"
    BY <1>0, <1>4 DEF Mkdir, Step, KeepsUp
  <2> QED
    BY <1>3, <1>4, <2>1 DEF Mkdir, Step
<1>5. ASSUME Create(c) PROVE KInv'
  <2>1. /\ cl.op = "insertVersion" /\ cl.pc = "create" /\ cl.outcome = "pending"
        /\ cl.key \in vdirs
    BY <1>0, <1>5 DEF Create, Step, KeepsUp
  <2> QED
    BY <1>2, <1>3, <1>5, <2>1 DEF Create, Step
<1>6. ASSUME Write(c) PROVE KInv'
  <2>1. /\ cl.op = "insertVersion" /\ cl.pc = "write" /\ cl.outcome = "pending"
        /\ cl.key \in vdirs
    BY <1>0, <1>6 DEF Write, Step, KeepsUp
  <2> QED
    BY <1>3, <1>6, <2>1 DEF Write, Step
<1>7. ASSUME CloseVersion(c) PROVE KInv'
  <2> DEFINE new == Finish(cl, "ok")
  <2>1. /\ cl.op = "insertVersion" /\ cl.pc = "close" /\ cl.key \in vdirs
        /\ call' = [call EXCEPT ![c] = new] /\ before' = before
        /\ acked' = acked \cup {RowOf(cl)} /\ vdirs' = vdirs
    BY <1>0, <1>7 DEF CloseVersion, Step, files, KeepsUp
  <2>2. new.pc = "done" /\ new.op = cl.op
    BY <1>0, FinishFields
  <2> HIDE DEF new
  <2>3. KeepsUp(new, before[c], acked', vdirs')
    BY <1>0, <2>1, <2>2, WriterKeepsUp
  <2>4. \A r \in acked' : r.key \in vdirs'
    BY <1>0, <2>1 DEF RowOf
  <2> QED
    BY <2>1, <2>3, <2>4, StepKeepsKInv
<1>8. ASSUME Truncate(c) PROVE KInv'
  <2>1. cl.op = "upsertLabel" /\ cl.outcome = "pending"
    BY <1>0, <1>8 DEF Truncate, Step, KeepsUp
  <2> QED
    BY <1>3, <1>8, <2>1 DEF Truncate, Step
<1>9. ASSUME Overwrite(c) PROVE KInv'
  <2>1. cl.op = "upsertLabel" /\ cl.outcome = "pending"
    BY <1>0, <1>9 DEF Overwrite, Step, KeepsUp
  <2> QED
    BY <1>3, <1>9, <2>1 DEF Overwrite, Step
<1>10. ASSUME CloseLabel(c) PROVE KInv'
  <2>1. cl.op = "upsertLabel"
    BY <1>10 DEF CloseLabel, Step
  <2> QED
    BY <1>2, <1>10, <2>1 DEF CloseLabel, Step, files
<1> QED
  BY <1>4, <1>5, <1>6, <1>7, <1>8, <1>9, <1>10

LEMMA ReadsKeepKInv ==
  ASSUME FInv, KInv, NEW c \in Clients,
         \/ ReadVersion(c) \/ ReadLabel(c) \/ ReadMax(c)
         \/ ReadDir(c) \/ ReadEach(c) \/ ReadKeys(c)
  PROVE  KInv'
<1> DEFINE cl == call[c]
           B == before[c]
<1>0. /\ cl \in Calls /\ Sane(cl) /\ KeepsUp(cl, B, acked, vdirs) /\ B \subseteq acked
  BY DEF FInv, TypeOK, KInv, KeepsUp
<1>1. ASSUME NEW op, NEW pc, NEW new, Read(c, op, pc, new), KeepsUp(new, B, acked, vdirs)
      PROVE  KInv'
  <2>1. /\ call' = [call EXCEPT ![c] = new] /\ before' = before
        /\ acked' = acked /\ vdirs' = vdirs
    BY <1>1 DEF Read, Step, files
  <2>2. \A r \in acked' : r.key \in vdirs'
    BY <2>1 DEF KInv
  <2> QED
    BY <1>1, <2>1, <2>2, StepKeepsKInv
<1>2. CASE ReadVersion(c)
  <2> DEFINE got == Parsed(vfile[cl.key][cl.number])
             rows == IF got = "ok" THEN {Holds(cl.key, cl.number)} ELSE {}
             new == [Finish(cl, got) EXCEPT !.found = rows]
  <2>1. Read(c, "getVersion", "read", new) /\ cl.op = "getVersion"
    BY <1>2 DEF ReadVersion, Read, Step
  <2>2. /\ new.op = cl.op /\ new.pc = "done" /\ new.key = cl.key /\ new.number = cl.number
        /\ new.outcome = got /\ new.found = rows
    BY <1>0 DEF Finish, Calls
  <2>3. ASSUME NEW r \in B, cl.key = r.key, cl.number = r.number
        PROVE  got = "ok" /\ rows = {r}
    <3>1. got = "ok"
      BY <2>3, BeforeIsWhole DEF Parsed
    <3> QED
      BY <2>3, <3>1, BeforeIsWhole
  <2> HIDE DEF new, got, rows
  <2>4. KeepsUp(new, B, acked, vdirs)
    BY <1>0, <2>1, <2>2, <2>3 DEF KeepsUp
  <2> QED
    BY <1>1, <2>1, <2>4
<1>3. CASE ReadLabel(c)
  <2> DEFINE mark == lfile[cl.key][cl.label].mark
             got == Parsed(mark)
             kept == IF mark \in Marks THEN mark ELSE None
             new == [Finish(cl, got) EXCEPT !.mark = kept]
  <2>1. Read(c, "getLabel", "read", new) /\ cl.op = "getLabel"
    BY <1>3 DEF ReadLabel, Read, Step
  <2>2. new.op = cl.op /\ new.pc = "done"
    BY <1>0 DEF Finish, Calls
  <2> HIDE DEF new
  <2>3. KeepsUp(new, B, acked, vdirs)
    BY <1>0, <2>1, <2>2 DEF KeepsUp
  <2> QED
    BY <1>1, <2>1, <2>3
<1>4. CASE ReadMax(c)
  <2> DEFINE ns == VersionNumbers(cl.key)
  <2>1. /\ Read(c, "maxVersion", "read", IF ns = {} THEN Finish(cl, "absent")
                                         ELSE [Finish(cl, "ok") EXCEPT !.number = Max(ns)])
        /\ cl.op = "maxVersion"
    BY <1>4 DEF ReadMax, Read, Step
  <2>2. ASSUME NEW r \in B, cl.key = r.key PROVE r.number \in ns
    BY <2>2, BeforeIsWhole
  <2>3. CASE ns = {}
    <3> DEFINE new == Finish(cl, "absent")
    <3>1. Read(c, "maxVersion", "read", new)
      BY <2>1, <2>3
    <3>2. new.op = cl.op /\ new.pc = "done" /\ new.key = cl.key
      BY <1>0, FinishFields
    <3> HIDE DEF new
    <3>3. KeepsUp(new, B, acked, vdirs)
      BY <1>0, <2>1, <2>2, <2>3, <3>2 DEF KeepsUp
    <3> QED
      BY <1>1, <3>1, <3>3
  <2>4. CASE ns # {}
    <3> DEFINE new == [Finish(cl, "ok") EXCEPT !.number = Max(ns)]
    <3>1. Read(c, "maxVersion", "read", new)
      BY <2>1, <2>4
    <3>2. /\ new.op = cl.op /\ new.pc = "done" /\ new.key = cl.key
          /\ new.outcome = "ok" /\ new.number = Max(ns)
      BY <1>0 DEF Finish, Calls
    <3>3. \A n \in ns : Max(ns) >= n
      BY <2>4, MaxIsMember DEF VersionNumbers
    <3> HIDE DEF new, ns
    <3>4. KeepsUp(new, B, acked, vdirs)
      BY <1>0, <2>1, <2>2, <3>2, <3>3 DEF KeepsUp
    <3> QED
      BY <1>1, <3>1, <3>4
  <2> QED
    BY <2>3, <2>4
<1>5. CASE ReadDir(c)
  <2> DEFINE ns == VersionNumbers(cl.key)
             new == [Goto(cl, "readEach") EXCEPT !.todo = ns]
  <2>1. /\ Read(c, "listVersionsDesc", "read", new)
        /\ cl.op = "listVersionsDesc" /\ cl.outcome = "pending"
    BY <1>0, <1>5 DEF ReadDir, Read, Step, KeepsUp
  <2>2. /\ new.op = cl.op /\ new.pc = "readEach" /\ new.key = cl.key
        /\ new.outcome = cl.outcome /\ new.todo = ns
    BY <1>0 DEF Goto, Calls
  <2>3. ASSUME NEW r \in B, cl.key = r.key PROVE r.number \in ns
    BY <2>3, BeforeIsWhole
  <2> HIDE DEF new, ns
  <2>4. KeepsUp(new, B, acked, vdirs)
    BY <1>0, <2>1, <2>2, <2>3 DEF KeepsUp
  <2> QED
    BY <1>1, <2>1, <2>4
<1>6. CASE ReadEach(c)
  <2>1. /\ cl.op = "listVersionsDesc" /\ cl.pc = "readEach" /\ cl.outcome = "pending"
        /\ \A r \in B : r.key = cl.key => r.number \in cl.todo \/ r \in cl.found
    BY <1>0, <1>6 DEF ReadEach, Read, Step, KeepsUp
  <2>2. ASSUME NEW o \in {"ok", "rejected"}, o = "ok" => cl.todo = {},
               Read(c, "listVersionsDesc", "readEach", Finish(cl, o))
        PROVE  KInv'
    <3> DEFINE new == Finish(cl, o)
    <3>1. /\ new.op = cl.op /\ new.pc = "done" /\ new.key = cl.key /\ new.outcome = o
          /\ new.found = cl.found
      BY <1>0, FinishFields
    <3> HIDE DEF new
    <3>2. KeepsUp(new, B, acked, vdirs)
      BY <1>0, <2>1, <2>2, <3>1 DEF KeepsUp
    <3> QED
      BY <1>1, <2>2, <3>2 DEF new
  <2>3. ASSUME NEW n \in cl.todo,
               Read(c, "listVersionsDesc", "readEach",
                 [cl EXCEPT !.todo = @ \ {n}, !.found = @ \cup {Holds(cl.key, n)}])
        PROVE  KInv'
    <3> DEFINE new == [cl EXCEPT !.todo = @ \ {n}, !.found = @ \cup {Holds(cl.key, n)}]
    <3>1. /\ new.op = cl.op /\ new.pc = cl.pc /\ new.key = cl.key /\ new.outcome = cl.outcome
          /\ new.todo = cl.todo \ {n} /\ new.found = cl.found \cup {Holds(cl.key, n)}
      BY <1>0 DEF Calls
    <3>2. ASSUME NEW r \in B, r.key = cl.key
          PROVE  r.number \in new.todo \/ r \in new.found
      <4>1. CASE r.number = n
        BY <3>1, <3>2, <4>1, BeforeIsWhole
      <4>2. CASE r.number # n
        BY <2>1, <3>1, <3>2, <4>2
      <4> QED
        BY <4>1, <4>2
    <3> HIDE DEF new
    <3>3. KeepsUp(new, B, acked, vdirs)
      BY <1>0, <2>1, <3>1, <3>2 DEF KeepsUp
    <3> QED
      BY <1>1, <2>3, <3>3 DEF new
  <2>4. CASE cl.todo = {} /\ Read(c, "listVersionsDesc", "readEach", Finish(cl, "ok"))
    BY <2>2, <2>4
  <2>5. ASSUME NEW n \in cl.todo,
               Read(c, "listVersionsDesc", "readEach",
                 IF vfile[cl.key][n] = Torn THEN Finish(cl, "rejected")
                 ELSE [cl EXCEPT !.todo = @ \ {n}, !.found = @ \cup {Holds(cl.key, n)}])
        PROVE  KInv'
    BY <2>2, <2>3, <2>5
  <2> QED
    BY <1>6, <2>4, <2>5 DEF ReadEach
<1>7. CASE ReadKeys(c)
  <2> DEFINE new == [Finish(cl, "ok") EXCEPT !.keys = vdirs]
  <2>1. Read(c, "distinctKeys", "read", new) /\ cl.op = "distinctKeys"
    BY <1>7 DEF ReadKeys, Read, Step
  <2>2. new.op = cl.op /\ new.pc = "done" /\ new.keys = vdirs
    BY <1>0 DEF Finish, Calls
  <2>3. \A r \in B : r.key \in vdirs
    BY BeforeIsWhole
  <2> HIDE DEF new
  <2>4. KeepsUp(new, B, acked, vdirs)
    BY <1>0, <2>1, <2>2, <2>3 DEF KeepsUp
  <2> QED
    BY <1>1, <2>1, <2>4
<1> QED
  BY <1>2, <1>3, <1>4, <1>5, <1>6, <1>7

LEMMA FaultKeepsKInv ==
  ASSUME FInv, KInv, (\E c \in Clients : WriteFails(c)) \/ (\E p \in Procs : Crash(p))
  PROVE  KInv'
<1>1. ASSUME NEW c \in Clients, WriteFails(c) PROVE KInv'
  <2> DEFINE new == Finish(call[c], "rejected")
  <2>1. /\ call' = [call EXCEPT ![c] = new] /\ before' = before
        /\ acked' = acked /\ vdirs' = vdirs /\ call[c].pc \in {"write", "overwrite"}
    BY <1>1 DEF WriteFails, files, FInv, TypeOK
  <2>2. /\ call[c] \in Calls /\ KeepsUp(call[c], before[c], acked, vdirs)
        /\ \A r \in acked : r.key \in vdirs
    BY DEF FInv, TypeOK, KInv
  <2>3. before[c] \subseteq acked /\ call[c].op \in {"insertVersion", "upsertLabel"}
    BY <2>1, <2>2 DEF KeepsUp
  <2>4. new.pc = "done" /\ new.op = call[c].op
    BY <2>2, FinishFields
  <2> HIDE DEF new
  <2>5. KeepsUp(new, before[c], acked, vdirs)
    BY <2>3, <2>4, WriterKeepsUp
  <2> QED
    BY <2>1, <2>2, <2>5, StepKeepsKInv
<1>2. ASSUME NEW p \in Procs, Crash(p) PROVE KInv'
  <2>1. /\ vdirs' = vdirs /\ acked' = acked /\ before' = before
        /\ call' = [c \in Clients |-> IF ProcOf[c] = p THEN NoCall ELSE call[c]]
    BY <1>2 DEF Crash, files
  <2>2. NoCall.pc = "idle" /\ NoCall.outcome = "pending"
    BY DEF NoCall
  <2>3. ASSUME NEW c \in Clients PROVE KeepsUp(call'[c], before[c], acked, vdirs)
    <3>1. KeepsUp(call[c], before[c], acked, vdirs) /\ before[c] \subseteq acked
      BY DEF KInv, KeepsUp
    <3>2. KeepsUp(NoCall, before[c], acked, vdirs)
      BY <2>2, <3>1, YoungKeepsUp
    <3> QED
      BY <2>1, <3>1, <3>2
  <2> QED
    BY <2>1, <2>3 DEF KInv
<1> QED
  BY <1>1, <1>2

\* A read answers with all that was acknowledged before it began (file.ts getVersion,
\* maxVersion, listVersionsDesc, distinctKeys), over any rivals, crashes and failed
\* writes, unless it rejects.
THEOREM AnswersAreCurrent == Spec => []AnswersKeepUp
<1>1. Init => KInv
  <2>1. NoCall.pc = "idle" /\ NoCall.outcome = "pending"
    BY DEF NoCall
  <2>2. KeepsUp(NoCall, {}, {}, {})
    BY <2>1, YoungKeepsUp
  <2> QED
    BY <2>2 DEF Init, KInv
<1>2. FInv /\ KInv /\ [Next]_vars => KInv'
  <2> SUFFICES ASSUME FInv, KInv, [Next]_vars PROVE KInv'
    OBVIOUS
  <2>1. CASE UNCHANGED vars
    BY <2>1 DEF vars, KInv
  <2>2. CASE Rest
    BY <2>1, <2>2 DEF Rest
  <2>3. ASSUME NEW c \in Clients, BeginCall(c) PROVE KInv'
    BY <2>3, BeginKeepsKInv
  <2>4. ASSUME NEW c \in Clients, Continue(c) PROVE KInv'
    BY <2>4, WritesKeepKInv, ReadsKeepKInv DEF Continue
  <2> QED
    BY <2>1, <2>2, <2>3, <2>4, FaultKeepsKInv DEF Next
<1>3. KInv => AnswersKeepUp
  BY DEF KInv, KeepsUp, AnswersKeepUp
<1> QED
  BY <1>1, <1>2, <1>3, FileInvariant, PTL DEF Spec

=============================================================================
