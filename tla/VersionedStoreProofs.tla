------------------------ MODULE VersionedStoreProofs ------------------------
(***************************************************************************)
(* Theorems about VersionedStore for every set of keys, labels, values,    *)
(* clients and processes, every configuration of the builds and every      *)
(* bound, and their proofs.                                                *)
(***************************************************************************)
EXTENDS VersionedStore, SequenceTheorems, FiniteSetTheorems, TLAPS

-----------------------------------------------------------------------------
\* The inductive invariant.

\* Program points at which a call record is known to name a key, a label, a
\* value, a version.
Unkeyed == {"idle", "done", "init", "probe", "compare", "distinct"}
Labelled == {"readLabel", "load", "gate", "point", "emit", "vet", "compareVersion"}
Valued == {"readMax", "insert", "vet", "compareVersion"}
Numbered == {"insert", "load", "gate", "point", "emit"}

\* What program point pc asks of the other fields of a call record of process p.
Fits(p, cl, pc) ==
  /\ pc \notin Unkeyed => cl.key \in Keys
  /\ pc \in Labelled => cl.label \in Labels
  /\ pc \in Valued => cl.value \in Values
  /\ pc \in Numbered => cl.version # 0
  /\ pc \in {"readMax", "insert"} =>
       /\ cl.op \in {"add", "revert", "seed", "sync"}
       /\ cl.op # "add" => cl.label \in Labels
  /\ pc \in {"load", "gate", "point", "emit"} =>
       cl.op \in {"promote", "revert", "seed", "sync"}
  /\ pc \in {"init", "probe", "compare", "vet", "compareVersion"} =>
       cl.op \in {"seed", "sync"}
  /\ pc \in {"distinct", "listLabel", "listRows"} =>
       cl.op \in {"listVersions", "listKeys"}
  /\ cl.op \in {"seed", "sync"} => cl.todo \subseteq DefaultKeys(p)

Sane(p, cl) == cl \in Calls /\ Fits(p, cl, cl.pc)

SaneCalls == call \in [Clients -> Calls] /\ \A c \in Clients : Sane(ProcOf[c], call[c])

TInv == TypeOK /\ SaneCalls

\* Every number below n is stored for k: n is the next number or a taken one.
Reached(k, n) == \A m \in 1 .. n - 1 : HasVersion(k, m)

Dense(k) == \E n \in Nat : VersionsOf(k) = 1 .. n

\* The inserts and the upserts under way carry numbers that were read earlier;
\* what was true of them then is still true, because no row ever goes away.
ClaimsHold ==
  /\ \A c \in Clients : call[c].pc = "insert" => Reached(call[c].key, call[c].version)
  /\ \A c \in Clients : call[c].pc \in {"gate", "point"} =>
       HasVersion(call[c].key, call[c].version)
  /\ \A r \in lateRows : r.version # 0 /\ Reached(r.key, r.version)
  /\ \A l \in latePointers : l.version # 0 /\ HasVersion(l.key, l.version)

LabelsStored == \A k \in Keys, l \in Labels :
  labels[k][l] # 0 => HasVersion(k, labels[k][l])

IInv ==
  /\ TInv
  /\ UniqueVersions
  /\ \A k \in Keys : Dense(k)
  /\ ClaimsHold
  /\ LabelsStored

-----------------------------------------------------------------------------
\* Call records.

LEMMA NoCallSane == ASSUME NEW p \in Procs PROVE Sane(p, NoCall)
  BY ConstantsAssumption DEF Sane, Fits, NoCall, Calls, ProgramPoints, Outcomes,
     Unkeyed, Labelled, Valued, Numbered, Summaries

\* Moving the program counter keeps the type, and keeps the record sane where
\* the new point's demands are met.
LEMMA GotoSane ==
  ASSUME NEW p \in Procs, NEW cl \in Calls, NEW pc \in ProgramPoints,
         Fits(p, cl, pc)
  PROVE  Sane(p, Goto(cl, pc)) /\ Goto(cl, pc).pc = pc
<1> DEFINE f == Goto(cl, pc)
<1>1. f \in Calls /\ f.pc = pc
  BY DEF Goto, Calls
<1>2. /\ f.op = cl.op /\ f.key = cl.key /\ f.label = cl.label
      /\ f.value = cl.value /\ f.version = cl.version /\ f.todo = cl.todo
  BY DEF Goto, Calls
<1> QED
  BY <1>1, <1>2 DEF Sane, Fits

LEMMA FinishSane ==
  ASSUME NEW p \in Procs, NEW cl, Sane(p, cl), NEW o \in Outcomes
  PROVE  Sane(p, Finish(cl, o)) /\ Finish(cl, o).pc = "done"
<1> DEFINE f == Finish(cl, o)
<1>1. f \in Calls
  BY DEF Sane, Finish, Calls, ProgramPoints
<1>2. f.pc = "done" /\ f.op = cl.op /\ f.todo = cl.todo
  BY DEF Sane, Finish, Calls
<1> QED
  BY <1>1, <1>2 DEF Sane, Fits, Unkeyed, Labelled, Valued, Numbered

LEMMA FallbackSane ==
  ASSUME NEW p \in Procs, NEW cl, Sane(p, cl), cl.key \in Keys, NEW o \in Outcomes
  PROVE  Sane(p, Fallback(p, cl, o)) /\ Fallback(p, cl, o).pc = "done"
<1> DEFINE f == Fallback(p, cl, o)
<1>1. Default[p][cl.key] \in Values \cup {None}
  BY ConstantsAssumption
<1>2. f \in Calls
  BY <1>1 DEF Sane, Fallback, Calls, ProgramPoints
<1>3. f.pc = "done" /\ f.op = cl.op /\ f.todo = cl.todo
  BY DEF Sane, Fallback, Calls
<1> QED
  BY <1>2, <1>3 DEF Sane, Fits, Unkeyed, Labelled, Valued, Numbered

\* A record that may enter addVersion's loop.
Addable(p, cl) ==
  /\ cl \in Calls
  /\ cl.key \in Keys
  /\ cl.value \in Values
  /\ cl.op \in {"add", "revert", "seed", "sync"}
  /\ cl.op # "add" => cl.label \in Labels
  /\ cl.op \in {"seed", "sync"} => cl.todo \subseteq DefaultKeys(p)

LEMMA StartAddSane ==
  ASSUME NEW p \in Procs, NEW cl, Addable(p, cl)
  PROVE  Sane(p, StartAdd(p, cl)) /\ StartAdd(p, cl).pc \in {"readMax", "done"}
<1> DEFINE f == [cl EXCEPT !.pc = "readMax", !.attempt = 1]
           g == Finish(cl, "invalid")
<1>1. /\ f \in Calls /\ f.pc = "readMax" /\ f.op = cl.op /\ f.todo = cl.todo
      /\ f.key = cl.key /\ f.label = cl.label /\ f.value = cl.value
  BY DEF Addable, Calls, ProgramPoints
<1>2. Sane(p, f)
  BY <1>1 DEF Sane, Fits, Addable, Unkeyed, Labelled, Valued, Numbered
<1>3. g \in Calls /\ g.pc = "done" /\ g.op = cl.op /\ g.todo = cl.todo
  BY DEF Addable, Finish, Calls, ProgramPoints, Outcomes
<1>4. Sane(p, g)
  BY <1>3 DEF Sane, Fits, Addable, Unkeyed, Labelled, Valued, Numbered
<1> QED
  BY <1>1, <1>2, <1>3, <1>4 DEF StartAdd

LEMMA NextDefaultSane ==
  ASSUME NEW p \in Procs, NEW cl \in Calls, cl.op \in {"seed", "sync"},
         cl.todo \subseteq DefaultKeys(p)
  PROVE  Sane(p, NextDefault(cl)) /\ NextDefault(cl).pc \in {"probe", "compare"}
<1>1. ASSUME NEW pc \in {"probe", "compare"} PROVE Fits(p, cl, pc)
  BY DEF Fits, Unkeyed, Labelled, Valued, Numbered
<1> QED
  BY <1>1, GotoSane DEF NextDefault, ProgramPoints

LEMMA InstallSane ==
  ASSUME NEW p \in Procs, NEW cl, Addable(p, cl), cl.op \in {"seed", "sync"}
  PROVE  Sane(p, Install(p, cl)) /\ Install(p, cl).pc \in {"vet", "readMax", "done"}
<1>1. Fits(p, cl, "vet")
  BY DEF Fits, Addable, Unkeyed, Labelled, Valued, Numbered
<1>2. Sane(p, Goto(cl, "vet")) /\ Goto(cl, "vet").pc = "vet"
  BY <1>1, GotoSane DEF Addable, ProgramPoints
<1> QED
  BY <1>2, StartAddSane DEF Install

LEMMA AfterPromoteSane ==
  ASSUME NEW p \in Procs, NEW cl, Sane(p, cl), cl.pc = "emit"
  PROVE  Sane(p, AfterPromote(cl)) /\ AfterPromote(cl).pc \in {"probe", "compare", "done"}
<1>1. cl \in Calls /\ (cl.op \in {"seed", "sync"} => cl.todo \subseteq DefaultKeys(p))
  BY DEF Sane, Fits
<1> QED
  BY <1>1, NextDefaultSane, FinishSane DEF AfterPromote, Outcomes

LEMMA AfterInsertSane ==
  ASSUME NEW p \in Procs, NEW cl, Sane(p, cl), cl.pc = "insert"
  PROVE  Sane(p, AfterInsert(cl)) /\ AfterInsert(cl).pc \in {"load", "done"}
<1>1. cl.op # "add" => Fits(p, cl, "load")
  BY DEF Sane, Fits, Unkeyed, Labelled, Valued, Numbered
<1>2. cl.op # "add" => Sane(p, Goto(cl, "load")) /\ Goto(cl, "load").pc = "load"
  BY <1>1, GotoSane DEF Sane, ProgramPoints
<1> QED
  BY <1>2, FinishSane DEF AfterInsert, Outcomes

\* The record of a turn to the next default holds that default.
LEMMA TakenAddable ==
  ASSUME NEW p \in Procs, NEW c \in Clients, p = ProcOf[c],
         Sane(p, call[c]), call[c].op \in {"seed", "sync"}, NEW k \in call[c].todo
  PROVE  /\ Addable(p, Taken(c, k))
         /\ Taken(c, k).op = call[c].op
         /\ Taken(c, k).label = Active
<1> DEFINE f == Taken(c, k)
<1>1. call[c] \in Calls /\ call[c].todo \subseteq DefaultKeys(p) /\ k \in Keys
  BY DEF Sane, Fits, DefaultKeys
<1>2. Default[p][k] \in Values
  BY <1>1, ConstantsAssumption DEF DefaultKeys
<1>3. f \in Calls
  BY <1>1, <1>2, ConstantsAssumption DEF Taken, Calls
<1>4. /\ f.key = k /\ f.label = Active /\ f.value = Default[p][k]
      /\ f.op = call[c].op /\ f.todo = call[c].todo \ {k}
  BY <1>1 DEF Taken, Calls
<1> QED
  BY <1>1, <1>2, <1>3, <1>4, ConstantsAssumption DEF Addable

-----------------------------------------------------------------------------
\* What one client's step does to the call records.

LEMMA SetCallSane ==
  ASSUME SaneCalls, NEW c \in Clients, NEW cl, SetCall(c, cl), Sane(ProcOf[c], cl)
  PROVE  SaneCalls' /\ call'[c] = cl /\ \A d \in Clients \ {c} : call'[d] = call[d]
  BY DEF SaneCalls, SetCall, Sane

\* A step of client c that leaves the backend alone and leads it to a program
\* point whose claim on the backend, if it makes one, holds.
Quiet(c) == \E cl :
  /\ SetCall(c, cl)
  /\ Sane(ProcOf[c], cl)
  /\ cl.pc = "insert" => Reached(cl.key, cl.version)
  /\ cl.pc \in {"gate", "point"} => HasVersion(cl.key, cl.version)
  /\ UNCHANGED backend

LEMMA QuietFromMove ==
  ASSUME NEW c \in Clients, NEW cl, NEW pc, Move(c, pc, cl), Sane(ProcOf[c], cl),
         cl.pc \notin {"insert", "gate", "point"}
  PROVE  Quiet(c)
  BY DEF Quiet, Move, Advance

-----------------------------------------------------------------------------
\* The steps that begin a call.

LEMMA QuietFromBegin ==
  ASSUME NEW c \in Clients, NEW op, NEW cl, Begin(c, op, cl),
         Sane(ProcOf[c], [cl EXCEPT !.op = op]),
         [cl EXCEPT !.op = op].pc \notin {"insert", "gate", "point"}
  PROVE  Quiet(c)
  BY DEF Quiet, Begin


LEMMA BeginReadsQuiet ==
  ASSUME NEW c \in Clients, \A k \in Keys : MaxVersion(k) \in Nat,
         \/ BeginResolve(c) \/ BeginGetVersion(c) \/ BeginGetActive(c)
         \/ BeginListVersions(c) \/ BeginListKeys(c)
  PROVE  Quiet(c)
<1> DEFINE p == ProcOf[c]
<1> USE DEF Sane, Fits, Calls, NoCall, Outcomes, ProgramPoints, Ops, Summaries,
            Unkeyed, Labelled, Valued, Numbered
<1>0. p \in Procs
  BY ConstantsAssumption
<1>1. CASE BeginResolve(c)
  <2>1. PICK k \in Keys, l \in Labels : Begin(c, "resolve",
          [NoCall EXCEPT !.pc = "readLabel", !.key = k, !.label = l])
    BY <1>1 DEF BeginResolve
  <2> DEFINE f == [[NoCall EXCEPT !.pc = "readLabel", !.key = k, !.label = l]
                     EXCEPT !.op = "resolve"]
  <2>2. Sane(p, f) /\ f.pc = "readLabel"
    BY <1>0, ConstantsAssumption
  <2> QED
    BY <2>1, <2>2, QuietFromBegin
<1>2. CASE BeginGetVersion(c)
  <2>1. PICK k \in Keys : \E n \in 1 .. MaxVersion(k) + 1 : Begin(c, "getVersion",
          [NoCall EXCEPT !.pc = "readVersion", !.key = k, !.version = n])
    BY <1>2 DEF BeginGetVersion
  <2>2. PICK n \in 1 .. MaxVersion(k) + 1 : Begin(c, "getVersion",
          [NoCall EXCEPT !.pc = "readVersion", !.key = k, !.version = n])
    BY <2>1
  <2>3. n \in Nat
    OBVIOUS
  <2> DEFINE f == [[NoCall EXCEPT !.pc = "readVersion", !.key = k, !.version = n]
                     EXCEPT !.op = "getVersion"]
  <2>4. Sane(p, f) /\ f.pc = "readVersion"
    BY <1>0, <2>3, ConstantsAssumption
  <2> QED
    BY <2>2, <2>4, QuietFromBegin
<1>3. CASE BeginGetActive(c)
  <2>1. PICK k \in Keys, l \in Labels : Begin(c, "getActive",
          [NoCall EXCEPT !.pc = "readLabel", !.key = k, !.label = l])
    BY <1>3 DEF BeginGetActive
  <2> DEFINE f == [[NoCall EXCEPT !.pc = "readLabel", !.key = k, !.label = l]
                     EXCEPT !.op = "getActive"]
  <2>2. Sane(p, f) /\ f.pc = "readLabel"
    BY <1>0, ConstantsAssumption
  <2> QED
    BY <2>1, <2>2, QuietFromBegin
<1>4. CASE BeginListVersions(c)
  <2>1. PICK k \in Keys : Begin(c, "listVersions",
          [NoCall EXCEPT !.pc = "listLabel", !.key = k])
    BY <1>4 DEF BeginListVersions
  <2> DEFINE f == [[NoCall EXCEPT !.pc = "listLabel", !.key = k]
                     EXCEPT !.op = "listVersions"]
  <2>2. Sane(p, f) /\ f.pc = "listLabel"
    BY <1>0, ConstantsAssumption
  <2> QED
    BY <2>1, <2>2, QuietFromBegin
<1>5. CASE BeginListKeys(c)
  <2> DEFINE f == [[NoCall EXCEPT !.pc = "distinct"] EXCEPT !.op = "listKeys"]
  <2>1. Sane(p, f) /\ f.pc = "distinct"
    BY <1>0, ConstantsAssumption
  <2> QED
    BY <1>5, <2>1, QuietFromBegin DEF BeginListKeys
<1> QED
  BY <1>1, <1>2, <1>3, <1>4, <1>5

LEMMA BeginWritesQuiet ==
  ASSUME NEW c \in Clients, \A k \in Keys : MaxVersion(k) \in Nat,
         \/ BeginAdd(c) \/ BeginPromote(c) \/ BeginRevert(c)
         \/ BeginSeed(c) \/ BeginSync(c)
  PROVE  Quiet(c)
<1> DEFINE p == ProcOf[c]
<1>0. p \in Procs
  BY ConstantsAssumption
<1>1. CASE BeginAdd(c)
  <2>1. PICK k \in Keys, v \in Values :
          Begin(c, "add", StartAdd(p, [NoCall EXCEPT !.key = k, !.value = v]))
    BY <1>1 DEF BeginAdd
  <2> DEFINE e == [NoCall EXCEPT !.key = k, !.value = v]
             f == [e EXCEPT !.op = "add"]
  <2>2. Addable(p, f)
    BY ConstantsAssumption DEF Addable, Calls, NoCall, Outcomes, ProgramPoints, Ops,
       Summaries
  <2>3. [StartAdd(p, e) EXCEPT !.op = "add"] = StartAdd(p, f)
    BY DEF StartAdd, Finish, NoCall
  <2> QED
    BY <1>0, <2>1, <2>2, <2>3, StartAddSane, QuietFromBegin
<1>2. CASE BeginPromote(c)
  <2> DEFINE e(k, l, n, g) == [NoCall EXCEPT !.key = k, !.label = l, !.version = n,
                                             !.gated = g]
  <2>1. PICK k \in Keys, l \in Labels, g \in GateChoices :
          \E n \in 0 .. MaxVersion(k) + 1 :
            Begin(c, "promote", IF n = 0 THEN Finish(e(k, l, n, g), "sentinel")
                                         ELSE Goto(e(k, l, n, g), "load"))
    BY <1>2 DEF BeginPromote
  <2>3. PICK n \in 0 .. MaxVersion(k) + 1 :
          Begin(c, "promote", IF n = 0 THEN Finish(e(k, l, n, g), "sentinel")
                                       ELSE Goto(e(k, l, n, g), "load"))
    BY <2>1
  <2>4. n \in Nat /\ g \in BOOLEAN
    BY ConstantsAssumption
  <2> DEFINE f == IF n = 0 THEN [Finish(e(k, l, n, g), "sentinel") EXCEPT !.op = "promote"]
                           ELSE [Goto(e(k, l, n, g), "load") EXCEPT !.op = "promote"]
  <2>2. Sane(p, f) /\ f.pc \in {"load", "done"}
    BY <1>0, <2>4, ConstantsAssumption
    DEF Sane, Fits, Finish, Goto, Calls, NoCall, Outcomes, ProgramPoints, Ops, Summaries,
        Unkeyed, Labelled, Valued, Numbered
  <2> QED
    BY <2>2, <2>3, QuietFromBegin
<1>3. CASE BeginRevert(c)
  <2> DEFINE e(k, l) == [NoCall EXCEPT !.op = "revert", !.key = k, !.label = l,
                                       !.value = Default[p][k]]
  <2>1. PICK k \in Keys, l \in Labels : Begin(c, "revert",
          IF Default[p][k] = None THEN Finish(e(k, l), "noDefault")
                                  ELSE StartAdd(p, e(k, l)))
    BY <1>3 DEF BeginRevert
  <2> DEFINE f == IF Default[p][k] = None THEN Finish(e(k, l), "noDefault")
                                          ELSE StartAdd(p, e(k, l))
  <2>a. Default[p][k] \in Values \cup {None}
    BY <1>0, ConstantsAssumption
  <2>2. e(k, l) \in Calls /\ Sane(p, e(k, l)) /\ e(k, l).op = "revert"
    BY <1>0, <2>a, ConstantsAssumption
    DEF Sane, Fits, Calls, NoCall, Outcomes, ProgramPoints, Ops, Summaries,
        Unkeyed, Labelled, Valued, Numbered
  <2>3. Default[p][k] # None => Addable(p, e(k, l))
    BY <1>0, <2>2, ConstantsAssumption DEF Addable, NoCall
  <2>4. Sane(p, f) /\ f.pc \in {"readMax", "done"}
    BY <1>0, <2>2, <2>3, StartAddSane, FinishSane DEF Outcomes
  <2>5. [f EXCEPT !.op = "revert"] = f
    BY <2>2 DEF StartAdd, Finish, NoCall
  <2> QED
    BY <2>1, <2>4, <2>5, QuietFromBegin
<1>4. ASSUME NEW op \in {"seed", "sync"}, BeginDefaults(c, op)
      PROVE  Quiet(c)
  <2>1. PICK g \in BOOLEAN : Begin(c, op,
          [NoCall EXCEPT !.pc = "init", !.gated = g, !.todo = DefaultKeys(p)])
    BY <1>4, ConstantsAssumption DEF BeginDefaults
  <2> DEFINE f == [[NoCall EXCEPT !.pc = "init", !.gated = g, !.todo = DefaultKeys(p)]
                     EXCEPT !.op = op]
  <2>2. DefaultKeys(p) \subseteq Keys
    BY DEF DefaultKeys
  <2>3. Sane(p, f) /\ f.pc = "init"
    BY <1>0, <2>2, ConstantsAssumption
    DEF Sane, Fits, Calls, NoCall, Outcomes, ProgramPoints, Ops, Summaries,
        Unkeyed, Labelled, Valued, Numbered
  <2> QED
    BY <2>1, <2>3, QuietFromBegin
<1> QED
  BY <1>1, <1>2, <1>3, <1>4 DEF BeginSeed, BeginSync

LEMMA ResolveUnavailableQuiet ==
  ASSUME NEW c \in Clients, ResolveUnavailable(c)
  PROVE  Quiet(c)
<1> DEFINE p == ProcOf[c]
           e(k, l) == [NoCall EXCEPT !.op = "resolve", !.key = k, !.label = l]
<1>1. PICK k \in Keys, l \in Labels :
        SetCall(c, Fallback(p, e(k, l), "backend-unavailable")) /\ UNCHANGED backend
  BY DEF ResolveUnavailable
<1>2. p \in Procs
  BY ConstantsAssumption
<1>3. Sane(p, e(k, l)) /\ e(k, l).key \in Keys
  BY <1>2, ConstantsAssumption
  DEF Sane, Fits, Calls, NoCall, Outcomes, ProgramPoints, Ops, Summaries,
      Unkeyed, Labelled, Valued, Numbered
<1> QED
  BY <1>1, <1>2, <1>3, FallbackSane DEF Quiet, Outcomes, FallbackReasons

-----------------------------------------------------------------------------
\* The backend's answers.

\* With the versions of k being 1 .. n, maxVersion answers n.
LEMMA MaxOfDense ==
  ASSUME NEW k, NEW n \in Nat, VersionsOf(k) = 1 .. n
  PROVE  MaxVersion(k) = n
<1> DEFINE S == {0} \cup 1 .. n
<1>1. n \in S /\ \A y \in S : n >= y
  OBVIOUS
<1>2. ASSUME NEW x \in S, \A y \in S : x >= y PROVE x = n
  BY <1>1, <1>2
<1>3. Max(S) = n
  BY <1>1, <1>2 DEF Max
<1> QED
  BY <1>3 DEF MaxVersion

LEMMA MaxIsNat ==
  ASSUME \A k \in Keys : Dense(k)
  PROVE  \A k \in Keys : MaxVersion(k) \in Nat
  BY MaxOfDense DEF Dense

LEMMA HasIsMember ==
  ASSUME NEW k, NEW n
  PROVE  HasVersion(k, n) <=> n \in VersionsOf(k)
  BY DEF HasVersion, VersionsOf

\* What maxVersion answers plus one is a number a writer may claim.
LEMMA NextIsReached ==
  ASSUME NEW k \in Keys, Dense(k)
  PROVE  MaxVersion(k) + 1 \in Nat \ {0} /\ Reached(k, MaxVersion(k) + 1)
<1>1. PICK n \in Nat : VersionsOf(k) = 1 .. n
  BY DEF Dense
<1>2. MaxVersion(k) = n
  BY <1>1, MaxOfDense
<1> QED
  BY <1>1, <1>2, HasIsMember DEF Reached

LEMMA RowIsStored ==
  ASSUME NEW k, NEW n, HasVersion(k, n)
  PROVE  Row(k, n) \in versions /\ Row(k, n).key = k /\ Row(k, n).version = n
  BY DEF HasVersion, Row

-----------------------------------------------------------------------------
\* The steps that carry a call on without writing.

LEMMA ReadStepsQuiet ==
  ASSUME IInv, NEW c \in Clients, ReadLabel(c) \/ ReadVersion(c)
  PROVE  Quiet(c)
<1> DEFINE p == ProcOf[c]
           cl == call[c]
<1>0. p \in Procs /\ Sane(p, cl) /\ cl \in Calls
  BY ConstantsAssumption DEF IInv, TInv, SaneCalls, Sane
<1>1. CASE ReadLabel(c)
  <2> DEFINE n == labels[cl.key][cl.label]
  <2>1. cl.pc = "readLabel" /\ UNCHANGED backend
    BY <1>1 DEF ReadLabel, At
  <2>2. cl.key \in Keys /\ cl.label \in Labels
    BY <1>0, <2>1 DEF Sane, Fits, Unkeyed, Labelled
  <2>3. n \in Nat
    BY <2>2 DEF IInv, TInv, TypeOK
  <2>4. Sane(p, Fallback(p, cl, "label-missing")) /\ Sane(p, Finish(cl, "absent"))
    BY <1>0, <2>2, FallbackSane, FinishSane DEF Outcomes, FallbackReasons
  <2>5. ASSUME NEW e \in cache[p]
        PROVE  LET f == [Finish(cl, "ok") EXCEPT !.version = n, !.value = e.value]
               IN Sane(p, f) /\ f.pc = "done"
    <3>1. e.value \in Values
      BY <1>0 DEF IInv, TInv, TypeOK, Resolved
    <3>2. Sane(p, Finish(cl, "ok")) /\ Finish(cl, "ok").pc = "done"
      BY <1>0, FinishSane DEF Outcomes
    <3> QED
      BY <2>3, <3>1, <3>2 DEF Sane, Fits, Calls, Unkeyed, Labelled, Valued, Numbered
  <2>6. LET f == [Goto(cl, "readVersion") EXCEPT !.version = n]
        IN Sane(p, f) /\ f.pc = "readVersion"
    BY <1>0, <2>1, <2>2, <2>3
    DEF Sane, Fits, Goto, Calls, ProgramPoints, Unkeyed, Labelled, Valued, Numbered
  <2>7. ASSUME NEW o \in {"label-missing"}
        PROVE  Fallback(p, cl, o).pc = "done" /\ Finish(cl, "absent").pc = "done"
    BY <1>0, <2>2, FallbackSane, FinishSane DEF Outcomes, FallbackReasons
  <2>8. \/ SetCall(c, Fallback(p, cl, "label-missing"))
        \/ SetCall(c, Finish(cl, "absent"))
        \/ \E e \in cache[p] :
             SetCall(c, [Finish(cl, "ok") EXCEPT !.version = n, !.value = e.value])
        \/ SetCall(c, [Goto(cl, "readVersion") EXCEPT !.version = n])
    BY <1>1 DEF ReadLabel, Advance
  <2>9. ASSUME NEW f, SetCall(c, f), Sane(p, f), f.pc \in {"done", "readVersion"}
        PROVE  Quiet(c)
    BY <2>1, <2>9 DEF Quiet
  <2> QED
    BY <2>4, <2>5, <2>6, <2>7, <2>8, <2>9
<1>2. CASE ReadVersion(c)
  <2>1. cl.pc = "readVersion" /\ UNCHANGED backend
    BY <1>2 DEF ReadVersion, At
  <2>2. cl.key \in Keys
    BY <1>0, <2>1 DEF Sane, Fits, Unkeyed
  <2>3. ASSUME NEW o \in FallbackReasons
        PROVE  Sane(p, Fallback(p, cl, o)) /\ Fallback(p, cl, o).pc = "done"
    BY <1>0, <2>2, FallbackSane DEF Outcomes
  <2>4. ASSUME NEW o \in {"ok", "absent"}
        PROVE  Sane(p, Finish(cl, o)) /\ Finish(cl, o).pc = "done"
    BY <1>0, FinishSane DEF Outcomes
  <2>5. ASSUME Loads(p, cl.key, cl.version)
        PROVE  LET f == [Finish(cl, "ok") EXCEPT !.value = Row(cl.key, cl.version).value]
               IN Sane(p, f) /\ f.pc = "done"
    <3>1. Row(cl.key, cl.version).value \in Values
      BY <2>5, RowIsStored DEF Loads, IInv, TInv, TypeOK, Rows
    <3> QED
      BY <2>4, <3>1 DEF Sane, Fits, Calls, Unkeyed, Labelled, Valued, Numbered
  <2>6. \E f : SetCall(c, f) /\ Sane(p, f) /\ f.pc = "done"
    BY <1>2, <2>3, <2>4, <2>5 DEF ReadVersion, Advance, FallbackReasons
  <2> QED
    BY <2>1, <2>6 DEF Quiet
<1> QED
  BY <1>1, <1>2

LEMMA WriterStepsQuiet ==
  ASSUME IInv, NEW c \in Clients,
         ReadMax(c) \/ Load(c) \/ RunGate(c) \/ EmitAccepted(c)
  PROVE  Quiet(c)
<1> DEFINE p == ProcOf[c]
           cl == call[c]
<1>0. p \in Procs /\ Sane(p, cl) /\ cl \in Calls
  BY ConstantsAssumption DEF IInv, TInv, SaneCalls, Sane
<1>1. CASE ReadMax(c)
  <2> DEFINE f == [Goto(cl, "insert") EXCEPT !.version = MaxVersion(cl.key) + 1]
  <2>1. cl.pc = "readMax" /\ SetCall(c, f) /\ UNCHANGED backend
    BY <1>1 DEF ReadMax, Move, At, Advance
  <2>2. cl.key \in Keys
    BY <1>0, <2>1 DEF Sane, Fits, Unkeyed
  <2>3. MaxVersion(cl.key) + 1 \in Nat \ {0} /\ Reached(cl.key, MaxVersion(cl.key) + 1)
    BY <2>2, NextIsReached DEF IInv
  <2>4. f.pc = "insert" /\ f.key = cl.key /\ f.version = MaxVersion(cl.key) + 1
    BY <1>0 DEF Goto, Calls
  <2>5. Sane(p, f)
    BY <1>0, <2>1, <2>2, <2>3
    DEF Sane, Fits, Goto, Calls, ProgramPoints, Unkeyed, Labelled, Valued, Numbered
  <2> QED
    BY <2>1, <2>3, <2>4, <2>5 DEF Quiet
<1>2. CASE Load(c)
  <2>1. cl.pc = "load" /\ UNCHANGED backend
    BY <1>2 DEF Load, Move, At
  <2>2. CASE ~ Loads(p, cl.key, cl.version)
    BY <1>0, <1>2, <2>1, <2>2, FinishSane DEF Load, Move, Advance, Quiet, Outcomes
  <2>3. CASE Loads(p, cl.key, cl.version)
    <3> DEFINE pc == IF cl.op = "promote" /\ cl.gated THEN "gate" ELSE "point"
               v == Row(cl.key, cl.version).value
               f == [Goto(cl, pc) EXCEPT !.value = v]
    <3>1. SetCall(c, f)
      BY <1>2, <2>3 DEF Load, Move, Advance
    <3>2. v \in Values /\ HasVersion(cl.key, cl.version)
      BY <2>3, RowIsStored DEF Loads, IInv, TInv, TypeOK, Rows
    <3>3. Sane(p, Goto(cl, pc)) /\ Goto(cl, pc).pc \in {"gate", "point"}
      BY <1>0, <2>1, GotoSane
      DEF Sane, Fits, ProgramPoints, Unkeyed, Labelled, Valued, Numbered
    <3>4. /\ f.pc = Goto(cl, pc).pc /\ f.key = cl.key /\ f.version = cl.version
          /\ f \in Calls
      BY <1>0, <3>2, <3>3 DEF Goto, Calls, Sane
    <3>5. Sane(p, f)
      BY <3>2, <3>3, <3>4
      DEF Sane, Fits, Calls, Unkeyed, Labelled, Valued, Numbered
    <3> QED
      BY <2>1, <3>1, <3>2, <3>3, <3>4, <3>5 DEF Quiet
  <2> QED
    BY <2>2, <2>3
<1>3. CASE RunGate(c)
  <2>1. cl.pc = "gate" /\ UNCHANGED backend
    BY <1>3 DEF RunGate, Move, At
  <2>2. HasVersion(cl.key, cl.version)
    BY <2>1 DEF IInv, ClaimsHold
  <2>3. Sane(p, Goto(cl, "point")) /\ Goto(cl, "point").pc = "point"
    BY <1>0, <2>1, GotoSane
    DEF Sane, Fits, ProgramPoints, Unkeyed, Labelled, Valued, Numbered
  <2>4. Goto(cl, "point").key = cl.key /\ Goto(cl, "point").version = cl.version
    BY <1>0 DEF Goto, Calls
  <2>5. Sane(p, Finish(cl, "refused")) /\ Finish(cl, "refused").pc = "done"
    BY <1>0, FinishSane DEF Outcomes
  <2> QED
    BY <1>3, <2>1, <2>2, <2>3, <2>4, <2>5 DEF RunGate, Move, Advance, Quiet
<1>4. CASE EmitAccepted(c)
  <2>1. cl.pc = "emit"
    BY <1>4 DEF EmitAccepted, Move, At
  <2> QED
    BY <1>0, <1>4, <2>1, AfterPromoteSane, QuietFromMove DEF EmitAccepted
<1> QED
  BY <1>1, <1>2, <1>3, <1>4

LEMMA DefaultsStepsQuiet ==
  ASSUME IInv, NEW c \in Clients,
         \/ EnsureIndexes(c) \/ DefaultsDone(c) \/ SeedProbe(c)
         \/ SyncCompare(c) \/ SyncCompareVersion(c) \/ VetDefault(c)
  PROVE  Quiet(c)
<1> DEFINE p == ProcOf[c]
           cl == call[c]
<1>0. p \in Procs /\ Sane(p, cl) /\ cl \in Calls
  BY ConstantsAssumption DEF IInv, TInv, SaneCalls, Sane
<1>a. cl.pc \in {"init", "probe", "compare", "vet", "compareVersion"} =>
        cl.op \in {"seed", "sync"} /\ cl.todo \subseteq DefaultKeys(p)
  BY <1>0 DEF Sane, Fits
<1>b. cl.pc \in {"vet", "compareVersion"} => Addable(p, cl)
  BY <1>0, <1>a DEF Sane, Fits, Addable, Unkeyed, Labelled, Valued
<1>c. cl.op \in {"seed", "sync"} /\ cl.todo \subseteq DefaultKeys(p) =>
        Sane(p, NextDefault(cl)) /\ NextDefault(cl).pc \in {"probe", "compare"}
  BY <1>0, NextDefaultSane
<1>d. ASSUME cl.op \in {"seed", "sync"}, NEW k \in cl.todo
      PROVE  LET t == Taken(c, k) IN
             /\ Addable(p, t) /\ t \in Calls /\ t.op \in {"seed", "sync"}
             /\ t.label = Active
             /\ Sane(p, NextDefault(t)) /\ NextDefault(t).pc \in {"probe", "compare"}
             /\ Sane(p, Install(p, t))
             /\ Install(p, t).pc \in {"vet", "readMax", "done"}
  <2>1. /\ Addable(p, Taken(c, k)) /\ Taken(c, k).op \in {"seed", "sync"}
        /\ Taken(c, k).label = Active
    BY <1>0, <1>d, TakenAddable
  <2> QED
    BY <1>0, <2>1, NextDefaultSane, InstallSane DEF Addable
<1>1. CASE EnsureIndexes(c)
  <2>1. cl.pc = "init"
    BY <1>1 DEF EnsureIndexes, Move, At
  <2> QED
    BY <1>1, <1>a, <1>c, <2>1, QuietFromMove DEF EnsureIndexes
<1>2. CASE DefaultsDone(c)
  <2>1. PICK pc \in {"probe", "compare"} : Move(c, pc, Finish(cl, "ok"))
    BY <1>2 DEF DefaultsDone
  <2>2. Sane(p, Finish(cl, "ok")) /\ Finish(cl, "ok").pc = "done"
    BY <1>0, FinishSane DEF Outcomes
  <2> QED
    BY <2>1, <2>2, QuietFromMove
<1>3. CASE SeedProbe(c)
  <2>1. PICK k \in cl.todo : Move(c, "probe",
          IF MaxVersion(k) # 0 THEN NextDefault(Taken(c, k))
                               ELSE Install(p, Taken(c, k)))
    BY <1>3 DEF SeedProbe
  <2>2. cl.pc = "probe"
    BY <2>1 DEF Move, At
  <2> QED
    BY <1>a, <1>d, <2>1, <2>2, QuietFromMove
<1>4. CASE SyncCompare(c)
  <2> DEFINE n(k) == labels[k][Active]
             f(k) == IF Taken(c, k).value \notin Accepts[p]
                     THEN Finish(Taken(c, k), "invalid")
                     ELSE IF n(k) = 0 THEN Install(p, Taken(c, k))
                     ELSE [Goto(Taken(c, k), "compareVersion") EXCEPT !.version = n(k)]
  <2>1. PICK k \in cl.todo : Move(c, "compare", f(k))
    BY <1>4 DEF SyncCompare
  <2>2. cl.pc = "compare" /\ k \in Keys
    BY <1>0, <2>1 DEF Move, At, Calls
  <2> DEFINE t == Taken(c, k)
  <2>3. n(k) \in Nat
    BY <2>2, ConstantsAssumption DEF IInv, TInv, TypeOK
  <2>4. Addable(p, t) /\ t \in Calls /\ t.op \in {"seed", "sync"} /\ t.label = Active
    BY <1>a, <1>d, <2>2
  <2>5. Finish(t, "invalid").pc = "done" /\ Sane(p, Finish(t, "invalid"))
    <3>1. /\ Finish(t, "invalid") \in Calls /\ Finish(t, "invalid").pc = "done"
          /\ Finish(t, "invalid").op = t.op /\ Finish(t, "invalid").todo = t.todo
      BY <2>4 DEF Finish, Calls, ProgramPoints, Outcomes
    <3> QED
      BY <2>4, <3>1 DEF Sane, Fits, Addable, Unkeyed, Labelled, Valued, Numbered
  <2>6. LET g == [Goto(t, "compareVersion") EXCEPT !.version = n(k)]
        IN Sane(p, g) /\ g.pc = "compareVersion"
    BY <2>3, <2>4, ConstantsAssumption
    DEF Sane, Fits, Addable, Goto, Calls, ProgramPoints, Unkeyed, Labelled, Valued, Numbered
  <2>7. Sane(p, Install(p, t)) /\ Install(p, t).pc \in {"vet", "readMax", "done"}
    BY <1>a, <1>d, <2>2
  <2>8. Sane(p, f(k)) /\ f(k).pc \notin {"insert", "gate", "point"}
    BY <2>5, <2>6, <2>7
  <2> QED
    BY <2>1, <2>8, QuietFromMove
<1>5. CASE SyncCompareVersion(c)
  <2>1. \/ Move(c, "compareVersion", NextDefault(cl))
        \/ Move(c, "compareVersion", Install(p, cl))
    BY <1>5 DEF SyncCompareVersion
  <2>2. cl.pc = "compareVersion"
    BY <2>1 DEF Move, At
  <2>3. Sane(p, Install(p, cl)) /\ Install(p, cl).pc \in {"vet", "readMax", "done"}
    BY <1>0, <1>a, <1>b, <2>2, InstallSane
  <2> QED
    BY <1>a, <1>c, <2>1, <2>2, <2>3, QuietFromMove
<1>6. CASE VetDefault(c)
  <2>1. \/ Move(c, "vet", NextDefault(cl))
        \/ Move(c, "vet", StartAdd(p, cl))
    BY <1>6 DEF VetDefault
  <2>2. cl.pc = "vet"
    BY <2>1 DEF Move, At
  <2>3. Sane(p, StartAdd(p, cl)) /\ StartAdd(p, cl).pc \in {"readMax", "done"}
    BY <1>0, <1>b, <2>2, StartAddSane
  <2> QED
    BY <1>a, <1>c, <2>1, <2>2, <2>3, QuietFromMove
<1> QED
  BY <1>1, <1>2, <1>3, <1>4, <1>5, <1>6

LEMMA ListStepsQuiet ==
  ASSUME IInv, NEW c \in Clients,
         DistinctKeys(c) \/ ListLabel(c) \/ ListRows(c)
  PROVE  Quiet(c)
<1> DEFINE p == ProcOf[c]
           cl == call[c]
<1>0. p \in Procs /\ Sane(p, cl) /\ cl \in Calls
  BY ConstantsAssumption DEF IInv, TInv, SaneCalls, Sane
<1>1. ASSUME NEW d \in Calls, d.op \in {"listVersions", "listKeys"}, NEW f \in ListTurn(d)
      PROVE  Sane(p, f) /\ f.pc \in {"done", "listLabel"}
  <2>1. CASE d.todo = {}
    <3>1. f = Finish(d, "ok")
      BY <2>1 DEF ListTurn
    <3>2. f \in Calls /\ f.pc = "done" /\ f.op = d.op
      BY <3>1 DEF Finish, Calls, ProgramPoints, Outcomes
    <3> QED
      BY <1>1, <3>2 DEF Sane, Fits, Unkeyed, Labelled, Valued, Numbered
  <2>2. CASE d.todo # {}
    <3>1. PICK k \in d.todo : f = [Goto(d, "listLabel") EXCEPT !.key = k, !.todo = @ \ {k}]
      BY <2>2 DEF ListTurn
    <3>2. k \in Keys
      BY DEF Calls
    <3>3. f \in Calls /\ f.pc = "listLabel" /\ f.op = d.op /\ f.key = k
      BY <3>1, <3>2 DEF Goto, Calls, ProgramPoints
    <3> QED
      BY <1>1, <3>2, <3>3 DEF Sane, Fits, Unkeyed, Labelled, Valued, Numbered
  <2> QED
    BY <2>1, <2>2
<1>a. cl.pc \in {"distinct", "listLabel", "listRows"} =>
        cl.op \in {"listVersions", "listKeys"}
  BY <1>0 DEF Sane, Fits
<1>2. CASE DistinctKeys(c)
  <2> DEFINE d == [cl EXCEPT !.todo = {r.key : r \in versions}]
  <2>1. PICK f \in ListTurn(d) : Move(c, "distinct", f)
    BY <1>2 DEF DistinctKeys
  <2>2. cl.pc = "distinct"
    BY <2>1 DEF Move, At
  <2>3. {r.key : r \in versions} \in SUBSET Keys
    BY DEF IInv, TInv, TypeOK, Rows
  <2>4. d \in Calls /\ d.op = cl.op
    BY <1>0, <2>3 DEF Calls
  <2> QED
    BY <1>1, <1>a, <2>1, <2>2, <2>4, QuietFromMove
<1>3. CASE ListLabel(c)
  <2> DEFINE f == [Goto(cl, "listRows") EXCEPT !.version = labels[cl.key][Active]]
  <2>1. Move(c, "listLabel", f) /\ cl.pc = "listLabel"
    BY <1>3 DEF ListLabel, Move, At
  <2>2. cl.key \in Keys
    BY <1>0, <2>1 DEF Sane, Fits, Unkeyed
  <2>3. labels[cl.key][Active] \in Nat
    BY <2>2, ConstantsAssumption DEF IInv, TInv, TypeOK
  <2>4. /\ f \in Calls /\ f.pc = "listRows" /\ f.key = cl.key /\ f.op = cl.op
        /\ f.todo = cl.todo
    BY <1>0, <2>3 DEF Goto, Calls, ProgramPoints
  <2>5. Sane(p, f)
    BY <1>0, <2>1, <2>2, <2>4 DEF Sane, Fits, Unkeyed, Labelled, Valued, Numbered
  <2> QED
    BY <2>1, <2>4, <2>5, QuietFromMove
<1>4. CASE ListRows(c)
  <2> DEFINE s == [key |-> cl.key, active |-> cl.version, versions |-> VersionsOf(cl.key)]
             d == [cl EXCEPT !.listed = @ \cup {s}]
  <2>1. PICK f \in ListTurn(d) : Move(c, "listRows", f)
    BY <1>4 DEF ListRows
  <2>2. cl.pc = "listRows"
    BY <2>1 DEF Move, At
  <2>3. cl.key \in Keys
    BY <1>0, <2>2 DEF Sane, Fits, Unkeyed
  <2>4. VersionsOf(cl.key) \in SUBSET Nat
    BY DEF VersionsOf, IInv, TInv, TypeOK, Rows
  <2>5. s \in Summaries
    BY <1>0, <2>3, <2>4 DEF Summaries, Calls
  <2>6. d \in Calls /\ d.op = cl.op
    BY <1>0, <2>5 DEF Calls
  <2> QED
    BY <1>1, <1>a, <2>1, <2>2, <2>6, QuietFromMove
<1> QED
  BY <1>2, <1>3, <1>4

-----------------------------------------------------------------------------
\* Steps and the invariant.

\* No row goes away and at most one arrives, with a number nobody has and all
\* the numbers below it taken.
Grows ==
  \/ versions' = versions
  \/ \E r \in Rows : /\ versions' = versions \cup {r}
                    /\ r.version # 0
                    /\ ~ HasVersion(r.key, r.version)
                    /\ Reached(r.key, r.version)

\* What was stored, and what was reached, still is.
LEMMA GrowthKeeps ==
  ASSUME versions \subseteq versions', NEW k, NEW n
  PROVE  /\ HasVersion(k, n) => HasVersion(k, n)'
         /\ Reached(k, n) => Reached(k, n)'
  BY DEF HasVersion, Reached

LEMMA GrowthUniqueDense ==
  ASSUME IInv, Grows
  PROVE  /\ versions \subseteq versions'
         /\ versions' \subseteq Rows
         /\ UniqueVersions'
         /\ \A k \in Keys : Dense(k)'
<1>1. CASE versions' = versions
  BY <1>1 DEF IInv, TInv, TypeOK, UniqueVersions, Dense, VersionsOf
<1>2. CASE versions' # versions
  <2>1. PICK r \in Rows : /\ versions' = versions \cup {r}
                          /\ r.version # 0
                          /\ ~ HasVersion(r.key, r.version)
                          /\ Reached(r.key, r.version)
    BY <1>2 DEF Grows
  <2>2. UniqueVersions'
    BY <2>1 DEF IInv, UniqueVersions, HasVersion
  <2>3. ASSUME NEW k \in Keys PROVE Dense(k)'
    <3>1. PICK n \in Nat : VersionsOf(k) = 1 .. n
      BY DEF IInv, Dense
    <3>2. CASE k # r.key
      <4>1. VersionsOf(k)' = VersionsOf(k)
        BY <2>1, <3>2 DEF VersionsOf
      <4> QED
        BY <3>1, <4>1 DEF Dense
    <3>3. CASE k = r.key
      <4>1. r.version \notin 1 .. n /\ \A m \in 1 .. r.version - 1 : m \in 1 .. n
        BY <2>1, <3>1, <3>3, HasIsMember DEF Reached
      <4>2. r.version = n + 1
        <5>1. r.version \in Nat /\ r.version > n
          BY <2>1, <4>1 DEF Rows
        <5>2. CASE r.version > n + 1
          BY <4>1, <5>1, <5>2
        <5> QED
          BY <5>1, <5>2
      <4>3. VersionsOf(k)' = VersionsOf(k) \cup {r.version}
        BY <2>1, <3>3 DEF VersionsOf
      <4>4. VersionsOf(k)' = 1 .. n + 1
        BY <3>1, <4>2, <4>3
      <4> QED
        BY <4>4 DEF Dense
    <3> QED
      BY <3>2, <3>3
  <2> QED
    BY <2>1, <2>2, <2>3 DEF IInv, TInv, TypeOK
<1> QED
  BY <1>1, <1>2

\* IInv after a step, from what the step does to rows, pointers and calls.
LEMMA QuietKeepsIInv ==
  ASSUME IInv, NEW c \in Clients, Quiet(c), TypeOK'
  PROVE  IInv'
<1>1. PICK cl : /\ SetCall(c, cl) /\ Sane(ProcOf[c], cl)
                /\ cl.pc = "insert" => Reached(cl.key, cl.version)
                /\ cl.pc \in {"gate", "point"} => HasVersion(cl.key, cl.version)
                /\ UNCHANGED backend
  BY DEF Quiet
<1>2. SaneCalls' /\ call'[c] = cl /\ \A d \in Clients \ {c} : call'[d] = call[d]
  BY <1>1, SetCallSane DEF IInv, TInv
<1>3. /\ versions' = versions /\ labels' = labels
      /\ lateRows' = lateRows /\ latePointers' = latePointers
  BY <1>1 DEF backend
<1>4. UniqueVersions' /\ (\A k \in Keys : Dense(k)') /\ LabelsStored'
  BY <1>3 DEF IInv, UniqueVersions, Dense, VersionsOf, LabelsStored, HasVersion
<1>5. ASSUME NEW k, NEW n
      PROVE  /\ HasVersion(k, n) => HasVersion(k, n)'
             /\ Reached(k, n) => Reached(k, n)'
  BY <1>3 DEF HasVersion, Reached
<1>6. ASSUME NEW d \in Clients
      PROVE  /\ call[d]'.pc = "insert" => Reached(call[d].key, call[d].version)'
             /\ call[d]'.pc \in {"gate", "point"} =>
                  HasVersion(call[d].key, call[d].version)'
  <2> DEFINE e == call[d]'
  <2>1. /\ e.pc = "insert" => Reached(e.key, e.version)
        /\ e.pc \in {"gate", "point"} => HasVersion(e.key, e.version)
    BY <1>1, <1>2 DEF IInv, ClaimsHold
  <2> QED
    BY <2>1, <1>3 DEF HasVersion, Reached
<1>7. ClaimsHold'
  <2>1. \A r \in lateRows' : r.version # 0 /\ Reached(r.key, r.version)'
    BY <1>3, <1>5 DEF IInv, ClaimsHold
  <2>2. \A l \in latePointers' : l.version # 0 /\ HasVersion(l.key, l.version)'
    BY <1>3, <1>5 DEF IInv, ClaimsHold
  <2> QED
    BY <1>6, <2>1, <2>2 DEF ClaimsHold
<1> QED
  BY <1>2, <1>4, <1>7 DEF IInv, TInv

Aside == cache \in [Procs -> SUBSET Resolved] /\ begun \in Nat /\ faults \in Nat

LEMMA AsideOfBegin ==
  ASSUME TypeOK, NEW c \in Clients, BeginCall(c)
  PROVE  Aside'
<1>1. ASSUME NEW op, NEW cl, Begin(c, op, cl) PROVE Aside'
  BY <1>1 DEF Aside, TypeOK, Begin
<1>2. ResolveUnavailable(c) => Aside'
  BY DEF ResolveUnavailable, Aside, TypeOK
<1> QED
  BY <1>1, <1>2
  DEF BeginCall, BeginResolve, BeginGetVersion, BeginGetActive, BeginAdd, BeginPromote,
      BeginRevert, BeginSeed, BeginSync, BeginDefaults, BeginListVersions, BeginListKeys

LEMMA AsideOfContinue ==
  ASSUME IInv, NEW c \in Clients, Continue(c)
  PROVE  Aside'
<1> DEFINE p == ProcOf[c]
           cl == call[c]
<1>0. TypeOK /\ p \in Procs /\ Sane(p, cl) /\ cl \in Calls
  BY ConstantsAssumption DEF IInv, TInv, SaneCalls, Sane
<1>1. ASSUME NEW pc, NEW f, Move(c, pc, f) PROVE Aside'
  BY <1>0, <1>1 DEF Move, Advance, Aside, TypeOK
<1>2. CASE ReadVersion(c)
  <2>1. UNCHANGED <<begun, faults>> /\ cl.pc = "readVersion"
    BY <1>2 DEF ReadVersion, Advance, At
  <2>2. cl.key \in Keys /\ cl.version \in Nat
    BY <1>0, <2>1 DEF Sane, Fits, Unkeyed, Calls
  <2> DEFINE e == [key |-> cl.key, version |-> cl.version,
                   value |-> Row(cl.key, cl.version).value]
  <2>3. \/ cache' = cache
        \/ /\ Loads(p, cl.key, cl.version)
           /\ cache' = [cache EXCEPT ![p] = @ \cup {e}]
    BY <1>2 DEF ReadVersion
  <2>4. Loads(p, cl.key, cl.version) => e \in Resolved
    BY <1>0, <2>2, RowIsStored DEF Loads, Resolved, TypeOK, Rows
  <2> QED
    BY <1>0, <2>1, <2>3, <2>4 DEF Aside, TypeOK
<1>3. CASE ReadLabel(c) \/ InsertVersion(c) \/ UpsertLabel(c)
  BY <1>0, <1>3 DEF ReadLabel, InsertVersion, UpsertLabel, Advance, Aside, TypeOK
<1> QED
  BY <1>1, <1>2, <1>3
  DEF Continue, ReadMax, Load, RunGate, EmitAccepted, EnsureIndexes, DefaultsDone,
      SeedProbe, SyncCompare, SyncCompareVersion, VetDefault, DistinctKeys, ListLabel,
      ListRows

LEMMA QuietTyped ==
  ASSUME IInv, Aside', NEW c \in Clients, Quiet(c)
  PROVE  TypeOK'
<1>1. SaneCalls' /\ UNCHANGED backend
  BY SetCallSane DEF Quiet, IInv, TInv
<1> QED
  BY <1>1 DEF IInv, TInv, TypeOK, Aside, SaneCalls, backend

LEMMA BeginKeepsIInv ==
  ASSUME IInv, NEW c \in Clients, BeginCall(c)
  PROVE  IInv'
<1>1. \A k \in Keys : MaxVersion(k) \in Nat
  BY MaxIsNat DEF IInv
<1>2. Quiet(c)
  BY <1>1, BeginReadsQuiet, BeginWritesQuiet, ResolveUnavailableQuiet DEF BeginCall
<1> QED
  BY <1>2, AsideOfBegin, QuietTyped, QuietKeepsIInv DEF IInv, TInv

-----------------------------------------------------------------------------
\* The steps that write.

\* The row an insert under way carries.
LEMMA RowOfInsert ==
  ASSUME IInv, NEW c \in Clients, call[c].pc = "insert"
  PROVE  /\ RowOf(c) \in Rows
         /\ RowOf(c).key = call[c].key /\ RowOf(c).version = call[c].version
         /\ RowOf(c).version # 0
         /\ Reached(RowOf(c).key, RowOf(c).version)
<1>1. Sane(ProcOf[c], call[c]) /\ call[c] \in Calls
  BY DEF IInv, TInv, SaneCalls, Sane
<1>2. /\ call[c].key \in Keys /\ call[c].value \in Values /\ call[c].version \in Nat
      /\ call[c].version # 0 /\ call[c].op \in {"add", "revert", "seed", "sync"}
  BY <1>1 DEF Sane, Fits, Calls, Unkeyed, Valued, Numbered
<1>3. Reached(call[c].key, call[c].version)
  BY DEF IInv, ClaimsHold
<1> QED
  BY <1>2, <1>3 DEF RowOf, Rows, Authors

LEMMA PointerOfPoint ==
  ASSUME IInv, NEW c \in Clients, call[c].pc = "point"
  PROVE  /\ PointerOf(c) \in Pointers
         /\ PointerOf(c).key = call[c].key /\ PointerOf(c).label = call[c].label
         /\ PointerOf(c).version = call[c].version
         /\ PointerOf(c).version # 0
         /\ HasVersion(PointerOf(c).key, PointerOf(c).version)
<1>1. Sane(ProcOf[c], call[c]) /\ call[c] \in Calls
  BY DEF IInv, TInv, SaneCalls, Sane
<1>2. /\ call[c].key \in Keys /\ call[c].label \in Labels /\ call[c].version \in Nat
      /\ call[c].version # 0
  BY <1>1 DEF Sane, Fits, Calls, Unkeyed, Labelled, Numbered
<1>3. HasVersion(call[c].key, call[c].version)
  BY DEF IInv, ClaimsHold
<1> QED
  BY <1>2, <1>3 DEF PointerOf, Pointers

\* A step after which every call is one there was or makes no claim, every late
\* write is one there was or one that was under way, and rows only grow, keeps
\* all claims.
LEMMA ClaimsKept ==
  ASSUME IInv, versions \subseteq versions',
         \A c \in Clients : \/ call'[c] = call[c]
                            \/ call'[c].pc \notin {"insert", "gate", "point"},
         lateRows' \subseteq lateRows \cup InFlightRows(Clients),
         latePointers' \subseteq latePointers \cup InFlightPointers(Clients)
  PROVE  ClaimsHold' /\ lateRows' \subseteq Rows /\ latePointers' \subseteq Pointers
<1>1. ASSUME NEW c \in Clients
      PROVE  /\ call[c]'.pc = "insert" => Reached(call[c].key, call[c].version)'
             /\ call[c]'.pc \in {"gate", "point"} =>
                  HasVersion(call[c].key, call[c].version)'
  BY DEF IInv, ClaimsHold, Reached, HasVersion
<1>2. ASSUME NEW r \in lateRows'
      PROVE  r \in Rows /\ r.version # 0 /\ Reached(r.key, r.version)'
  <2>1. r \in Rows /\ r.version # 0 /\ Reached(r.key, r.version)
    BY RowOfInsert DEF InFlightRows, IInv, TInv, TypeOK, ClaimsHold
  <2> QED
    BY <2>1, GrowthKeeps
<1>3. ASSUME NEW l \in latePointers'
      PROVE  l \in Pointers /\ l.version # 0 /\ HasVersion(l.key, l.version)'
  <2>1. l \in Pointers /\ l.version # 0 /\ HasVersion(l.key, l.version)
    BY PointerOfPoint DEF InFlightPointers, IInv, TInv, TypeOK, ClaimsHold
  <2> QED
    BY <2>1, GrowthKeeps
<1> QED
  BY <1>1, <1>2, <1>3 DEF ClaimsHold

LEMMA LabelsKept ==
  ASSUME IInv, versions \subseteq versions', labels' = labels
  PROVE  LabelsStored'
  BY DEF IInv, LabelsStored, HasVersion

LEMMA LabelMoved ==
  ASSUME IInv, versions' = versions, NEW k \in Keys, NEW l \in Labels, NEW n \in Nat,
         HasVersion(k, n), labels' = [labels EXCEPT ![k][l] = n]
  PROVE  labels' \in [Keys -> [Labels -> Nat]] /\ LabelsStored'
<1>1. labels' \in [Keys -> [Labels -> Nat]]
  BY DEF IInv, TInv, TypeOK
<1>2. ASSUME NEW kk \in Keys, NEW ll \in Labels
      PROVE  \/ labels'[kk][ll] = labels[kk][ll]
             \/ kk = k /\ labels'[kk][ll] = n
  BY DEF IInv, TInv, TypeOK
<1> QED
  BY <1>1, <1>2 DEF IInv, LabelsStored, HasVersion

LEMMA InsertKeepsIInv ==
  ASSUME IInv, NEW c \in Clients, InsertVersion(c)
  PROVE  IInv' /\ Grows
<1> DEFINE p == ProcOf[c]
           cl == call[c]
           retry == [Goto(cl, "readMax") EXCEPT !.attempt = @ + 1]
<1>0. p \in Procs /\ Sane(p, cl) /\ cl \in Calls
  BY ConstantsAssumption DEF IInv, TInv, SaneCalls, Sane
<1>1. /\ cl.pc = "insert" /\ Aside' /\ labels' = labels
      /\ lateRows' = lateRows /\ latePointers' = latePointers
  BY AsideOfContinue DEF InsertVersion, At, Continue
<1>2. Sane(p, retry) /\ retry.pc = "readMax"
  <2> DEFINE g == Goto(cl, "readMax")
  <2>1. /\ g \in Calls /\ g.pc = "readMax" /\ g.op = cl.op
        /\ g.key = cl.key /\ g.label = cl.label /\ g.value = cl.value
        /\ g.todo = cl.todo /\ g.attempt + 1 \in Nat
    BY <1>0 DEF Goto, Calls, ProgramPoints
  <2> HIDE DEF g
  <2>2. /\ retry \in Calls /\ retry.pc = g.pc /\ retry.op = g.op
        /\ retry.key = g.key /\ retry.label = g.label /\ retry.value = g.value
        /\ retry.todo = g.todo
    <3>1. retry = [g EXCEPT !.attempt = g.attempt + 1]
      BY DEF g
    <3> QED
      BY <2>1, <3>1 DEF Calls
  <2> QED
    BY <1>0, <1>1, <2>1, <2>2 DEF Sane, Fits, Unkeyed, Labelled, Valued, Numbered
<1>3. Sane(p, Finish(cl, "conflict")) /\ Finish(cl, "conflict").pc = "done"
  BY <1>0, FinishSane DEF Outcomes
<1>4. Sane(p, AfterInsert(cl)) /\ AfterInsert(cl).pc \in {"load", "done"}
  BY <1>0, <1>1, AfterInsertSane
<1>5. PICK f : SetCall(c, f) /\ Sane(p, f) /\ f.pc \in {"load", "done", "readMax"}
  BY <1>2, <1>3, <1>4 DEF InsertVersion, Advance
<1>6. SaneCalls' /\ call'[c] = f /\ \A d \in Clients \ {c} : call'[d] = call[d]
  BY <1>5, SetCallSane DEF IInv, TInv
<1>7. Grows
  BY <1>1, RowOfInsert DEF InsertVersion, Grows
<1>8. /\ versions \subseteq versions' /\ versions' \subseteq Rows
      /\ UniqueVersions' /\ \A k \in Keys : Dense(k)'
  BY <1>7, GrowthUniqueDense
<1>9. ClaimsHold' /\ lateRows' \subseteq Rows /\ latePointers' \subseteq Pointers
  BY <1>1, <1>5, <1>6, <1>8, ClaimsKept
<1>10. TypeOK'
  BY <1>1, <1>6, <1>8, <1>9 DEF TypeOK, Aside, SaneCalls, IInv, TInv
<1> QED
  BY <1>1, <1>6, <1>7, <1>8, <1>9, <1>10, LabelsKept DEF IInv, TInv

LEMMA UpsertKeepsIInv ==
  ASSUME IInv, NEW c \in Clients, UpsertLabel(c)
  PROVE  IInv' /\ Grows
<1> DEFINE p == ProcOf[c]
           cl == call[c]
<1>0. p \in Procs /\ Sane(p, cl) /\ cl \in Calls
  BY ConstantsAssumption DEF IInv, TInv, SaneCalls, Sane
<1>1. /\ cl.pc = "point" /\ Aside' /\ versions' = versions
      /\ lateRows' = lateRows /\ latePointers' = latePointers
      /\ SetCall(c, Goto(cl, "emit"))
      /\ labels' = [labels EXCEPT ![cl.key][cl.label] = cl.version]
  BY AsideOfContinue DEF UpsertLabel, At, Continue, Advance
<1>2. Sane(p, Goto(cl, "emit")) /\ Goto(cl, "emit").pc = "emit"
  BY <1>0, <1>1, GotoSane
  DEF Sane, Fits, ProgramPoints, Unkeyed, Labelled, Valued, Numbered
<1>3. /\ SaneCalls' /\ call'[c] = Goto(cl, "emit")
      /\ \A d \in Clients \ {c} : call'[d] = call[d]
  BY <1>1, <1>2, SetCallSane DEF IInv, TInv
<1>4. Grows
  BY <1>1 DEF Grows
<1>5. /\ versions \subseteq versions' /\ versions' \subseteq Rows
      /\ UniqueVersions' /\ \A k \in Keys : Dense(k)'
  BY <1>4, GrowthUniqueDense
<1>6. ClaimsHold' /\ lateRows' \subseteq Rows /\ latePointers' \subseteq Pointers
  BY <1>1, <1>2, <1>3, <1>5, ClaimsKept
<1>7. labels' \in [Keys -> [Labels -> Nat]] /\ LabelsStored'
  BY <1>1, PointerOfPoint, LabelMoved DEF PointerOf, Pointers
<1>8. TypeOK'
  BY <1>1, <1>3, <1>5, <1>6, <1>7 DEF TypeOK, Aside, SaneCalls
<1> QED
  BY <1>3, <1>4, <1>5, <1>6, <1>7, <1>8 DEF IInv, TInv

LEMMA ContinueKeepsIInv ==
  ASSUME IInv, NEW c \in Clients, Continue(c)
  PROVE  IInv' /\ Grows
<1>1. CASE Quiet(c)
  <2>1. versions' = versions
    BY <1>1 DEF Quiet, backend
  <2> QED
    BY <1>1, <2>1, AsideOfContinue, QuietTyped, QuietKeepsIInv DEF Grows
<1>2. CASE InsertVersion(c)
  BY <1>2, InsertKeepsIInv
<1>3. CASE UpsertLabel(c)
  BY <1>3, UpsertKeepsIInv
<1> QED
  BY <1>1, <1>2, <1>3, ReadStepsQuiet, WriterStepsQuiet, DefaultsStepsQuiet,
     ListStepsQuiet DEF Continue

-----------------------------------------------------------------------------
\* Faults and late writes.

LEMMA RejectKeepsIInv ==
  ASSUME IInv, NEW c \in Clients, AwaitRejects(c)
  PROVE  IInv' /\ Grows
<1> DEFINE p == ProcOf[c]
           cl == call[c]
           f == IF cl.op = "resolve" THEN Fallback(p, cl, "resolve-error")
                                     ELSE Finish(cl, "rejected")
<1>0. p \in Procs /\ Sane(p, cl) /\ cl \in Calls /\ TypeOK
  BY ConstantsAssumption DEF IInv, TInv, SaneCalls, Sane
<1>1. /\ SetCall(c, f) /\ versions' = versions /\ labels' = labels
      /\ cache' = cache /\ begun' = begun /\ faults' = faults + 1
  BY DEF AwaitRejects
<1>2. /\ lateRows' \subseteq lateRows \cup InFlightRows(Clients)
      /\ latePointers' \subseteq latePointers \cup InFlightPointers(Clients)
  BY DEF AwaitRejects, InFlightRows, InFlightPointers
<1>3. cl.pc \notin {"idle", "done", "emit"}
  BY DEF AwaitRejects
<1>4. cl.op = "resolve" => cl.key \in Keys
  BY <1>0, <1>3 DEF Sane, Fits, Unkeyed
<1>5. Sane(p, f) /\ f.pc = "done"
  BY <1>0, <1>4, FallbackSane, FinishSane DEF Outcomes, FallbackReasons
<1>6. SaneCalls' /\ call'[c] = f /\ \A d \in Clients \ {c} : call'[d] = call[d]
  BY <1>1, <1>5, SetCallSane DEF IInv, TInv
<1>7. Grows
  BY <1>1 DEF Grows
<1>8. /\ versions \subseteq versions' /\ versions' \subseteq Rows
      /\ UniqueVersions' /\ \A k \in Keys : Dense(k)'
  BY <1>7, GrowthUniqueDense
<1>9. ClaimsHold' /\ lateRows' \subseteq Rows /\ latePointers' \subseteq Pointers
  BY <1>2, <1>5, <1>6, <1>8, ClaimsKept
<1>10. TypeOK'
  BY <1>0, <1>1, <1>6, <1>8, <1>9 DEF TypeOK, SaneCalls
<1> QED
  BY <1>1, <1>6, <1>7, <1>8, <1>9, <1>10, LabelsKept DEF IInv, TInv

LEMMA CrashKeepsIInv ==
  ASSUME IInv, NEW p \in Procs, Crash(p)
  PROVE  IInv' /\ Grows
<1>0. TypeOK /\ SaneCalls
  BY DEF IInv, TInv
<1>1. /\ call' = [c \in Clients |-> IF ProcOf[c] = p THEN NoCall ELSE call[c]]
      /\ cache' = [cache EXCEPT ![p] = {}]
      /\ versions' = versions /\ labels' = labels
      /\ begun' = begun /\ faults' = faults + 1
  BY DEF Crash
<1>2. /\ lateRows' \subseteq lateRows \cup InFlightRows(Clients)
      /\ latePointers' \subseteq latePointers \cup InFlightPointers(Clients)
  BY DEF Crash, InFlightRows, InFlightPointers
<1>3. SaneCalls'
  BY <1>0, <1>1, NoCallSane, ConstantsAssumption DEF SaneCalls, Sane
<1>4. \A c \in Clients : \/ call'[c] = call[c]
                         \/ call'[c].pc \notin {"insert", "gate", "point"}
  BY <1>1 DEF NoCall
<1>5. Grows
  BY <1>1 DEF Grows
<1>6. /\ versions \subseteq versions' /\ versions' \subseteq Rows
      /\ UniqueVersions' /\ \A k \in Keys : Dense(k)'
  BY <1>5, GrowthUniqueDense
<1>7. ClaimsHold' /\ lateRows' \subseteq Rows /\ latePointers' \subseteq Pointers
  BY <1>2, <1>4, <1>6, ClaimsKept
<1>8. TypeOK'
  BY <1>0, <1>1, <1>3, <1>6, <1>7 DEF TypeOK, SaneCalls
<1> QED
  BY <1>1, <1>3, <1>5, <1>6, <1>7, <1>8, LabelsKept DEF IInv, TInv

LEMMA LateKeepsIInv ==
  ASSUME IInv, LateInsert \/ LateUpsert
  PROVE  IInv' /\ Grows
<1>0. TypeOK /\ SaneCalls /\ ClaimsHold
  BY DEF IInv, TInv
<1>1. /\ call' = call /\ cache' = cache /\ begun' = begun /\ faults' = faults
      /\ lateRows' \subseteq lateRows /\ latePointers' \subseteq latePointers
  BY DEF LateInsert, LateUpsert
<1>2. Grows
  <2>1. CASE LateUpsert
    BY <2>1 DEF LateUpsert, Grows
  <2>2. CASE LateInsert
    BY <1>0, <2>2 DEF LateInsert, Grows, ClaimsHold, TypeOK
  <2> QED
    BY <2>1, <2>2
<1>3. /\ versions \subseteq versions' /\ versions' \subseteq Rows
      /\ UniqueVersions' /\ \A k \in Keys : Dense(k)'
  BY <1>2, GrowthUniqueDense
<1>4. ClaimsHold' /\ lateRows' \subseteq Rows /\ latePointers' \subseteq Pointers
  BY <1>1, <1>3, ClaimsKept
<1>5. labels' \in [Keys -> [Labels -> Nat]] /\ LabelsStored'
  <2>1. CASE LateInsert
    BY <1>0, <1>3, <2>1, LabelsKept DEF LateInsert, TypeOK
  <2>2. CASE LateUpsert
    <3>1. PICK l \in latePointers :
            /\ labels' = [labels EXCEPT ![l.key][l.label] = l.version]
            /\ versions' = versions
      BY <2>2 DEF LateUpsert
    <3>2. /\ l.key \in Keys /\ l.label \in Labels /\ l.version \in Nat
          /\ HasVersion(l.key, l.version)
      BY <1>0 DEF TypeOK, Pointers, ClaimsHold
    <3> QED
      BY <3>1, <3>2, LabelMoved
  <2> QED
    BY <2>1, <2>2
<1>6. TypeOK' /\ SaneCalls'
  BY <1>0, <1>1, <1>3, <1>4, <1>5 DEF TypeOK, SaneCalls
<1> QED
  BY <1>2, <1>3, <1>4, <1>5, <1>6 DEF IInv, TInv

-----------------------------------------------------------------------------
\* The invariant holds initially and every step keeps it.

LEMMA InitIInv == Init => IInv
<1> SUFFICES ASSUME Init PROVE IInv
  OBVIOUS
<1>1. call \in [Clients -> Calls] /\ SaneCalls
  BY NoCallSane, ConstantsAssumption DEF Init, SaneCalls, Sane
<1>2. TypeOK
  BY <1>1 DEF Init, TypeOK
<1>3. ASSUME NEW k \in Keys PROVE Dense(k)
  <2>1. VersionsOf(k) = 1 .. 0
    BY DEF Init, VersionsOf
  <2> QED
    BY <2>1 DEF Dense
<1>4. UniqueVersions /\ LabelsStored
  BY DEF Init, UniqueVersions, LabelsStored
<1>5. ClaimsHold
  BY DEF Init, ClaimsHold, NoCall
<1> QED
  BY <1>1, <1>2, <1>3, <1>4, <1>5 DEF IInv, TInv

LEMMA StepIInv == IInv /\ [Next]_vars => IInv' /\ Grows
<1> SUFFICES ASSUME IInv, [Next]_vars PROVE IInv' /\ Grows
  OBVIOUS
<1>1. ASSUME NEW c \in Clients, BeginCall(c) PROVE IInv' /\ Grows
  <2>1. versions' = versions
    BY <1>1
    DEF BeginCall, BeginResolve, BeginGetVersion, BeginGetActive, BeginAdd, BeginPromote,
        BeginRevert, BeginSeed, BeginSync, BeginDefaults, BeginListVersions,
        BeginListKeys, ResolveUnavailable, Begin, backend
  <2> QED
    BY <1>1, <2>1, BeginKeepsIInv DEF Grows
<1>2. ASSUME NEW c \in Clients, Continue(c) PROVE IInv' /\ Grows
  BY <1>2, ContinueKeepsIInv
<1>3. ASSUME Fault PROVE IInv' /\ Grows
  BY <1>3, RejectKeepsIInv, CrashKeepsIInv DEF Fault
<1>4. ASSUME LateInsert \/ LateUpsert PROVE IInv' /\ Grows
  BY <1>4, LateKeepsIInv
<1>5. ASSUME UNCHANGED vars PROVE IInv' /\ Grows
  <2>1. /\ versions' = versions /\ labels' = labels /\ lateRows' = lateRows
        /\ latePointers' = latePointers /\ cache' = cache /\ call' = call
        /\ begun' = begun /\ faults' = faults
    BY <1>5 DEF vars
  <2>2. TypeOK' /\ SaneCalls'
    BY <2>1 DEF IInv, TInv, TypeOK, SaneCalls
  <2>3. UniqueVersions' /\ (\A k \in Keys : Dense(k)') /\ LabelsStored'
    BY <2>1 DEF IInv, UniqueVersions, Dense, VersionsOf, LabelsStored, HasVersion
  <2>4. ClaimsHold'
    BY <2>1 DEF IInv, ClaimsHold, Reached, HasVersion
  <2> QED
    BY <2>1, <2>2, <2>3, <2>4 DEF IInv, TInv, Grows
<1> QED
  BY <1>1, <1>2, <1>3, <1>4, <1>5 DEF Next, Rest

-----------------------------------------------------------------------------
\* The theorems.

\* The inductive invariant holds throughout: no interleaving of any number of
\* clients and processes, crash, lost answer or late write breaks it.
THEOREM InductiveInvariant == Spec => []IInv
<1> QED
  BY InitIInv, StepIInv, PTL DEF Spec

\* Every variable has its type in every reachable state.
THEOREM TypeCorrect == Spec => []TypeOK
<1>1. IInv => TypeOK
  BY DEF IInv, TInv
<1> QED
  BY <1>1, InductiveInvariant, PTL

\* No two stored rows share a key and a version number.
THEOREM VersionsAreUnique == Spec => []UniqueVersions
<1>1. IInv => UniqueVersions
  BY DEF IInv
<1> QED
  BY <1>1, InductiveInvariant, PTL

\* The stored versions of a key are always 1 .. n.
THEOREM VersionsAreDense == Spec => []DenseVersions
<1>1. IInv => DenseVersions
  BY MaxOfDense DEF IInv, Dense, DenseVersions
<1> QED
  BY <1>1, InductiveInvariant, PTL

\* A label names only stored versions.
THEOREM LabelsNeverDangle == Spec => []NoDanglingLabel
<1>1. IInv => NoDanglingLabel
  BY DEF IInv, LabelsStored, NoDanglingLabel
<1> QED
  BY <1>1, InductiveInvariant, PTL

\* A stored row is never changed and never removed.
THEOREM RowsAreImmutable == Spec => Immutable
<1>1. IInv /\ [Next]_vars => [versions \subseteq versions']_vars
  <2> SUFFICES ASSUME IInv, [Next]_vars PROVE versions \subseteq versions'
    OBVIOUS
  <2> QED
    BY StepIInv DEF Grows
<1> QED
  BY <1>1, InductiveInvariant, PTL DEF Spec, Immutable


-----------------------------------------------------------------------------
(***************************************************************************)
(* What callers of the store may rely on, proved on top of the inductive   *)
(* invariant: every step of the store is a step of VersionHistory, and     *)
(* what a call is told or a process remembers agrees with what is stored.  *)
(***************************************************************************)

-----------------------------------------------------------------------------
\* The step that a step of the store is, seen from outside.

\* A row arrives, with the next number of its key.
Publishes(r) ==
  /\ versions' = versions \cup {r}
  /\ r.version # 0
  /\ ~ HasVersion(r.key, r.version)
  /\ Reached(r.key, r.version)
  /\ labels' = labels

\* A label is moved to a stored version.
Points(k, l, n) ==
  /\ HasVersion(k, n) /\ n # 0
  /\ labels' = [labels EXCEPT ![k][l] = n]
  /\ versions' = versions

\* Neither is touched.
Stutters == versions' = versions /\ labels' = labels

LEMMA BeginFrame ==
  ASSUME NEW c \in Clients, BeginCall(c)
  PROVE  UNCHANGED <<versions, labels, latePointers, cache>>
  BY DEF BeginCall, BeginResolve, BeginGetVersion, BeginGetActive, BeginAdd, BeginPromote,
     BeginRevert, BeginSeed, BeginSync, BeginDefaults, BeginListVersions,
     BeginListKeys, ResolveUnavailable, Begin, backend

LEMMA ContinueFrame ==
  ASSUME IInv, NEW c \in Clients, Continue(c)
  PROVE  /\ latePointers' = latePointers
         /\ UpsertLabel(c) \/ labels' = labels
<1>1. Quiet(c) \/ InsertVersion(c) \/ UpsertLabel(c)
  BY ReadStepsQuiet, WriterStepsQuiet, DefaultsStepsQuiet, ListStepsQuiet DEF Continue
<1> QED
  BY <1>1 DEF Quiet, InsertVersion, UpsertLabel, backend

LEMMA StepSeen ==
  ASSUME IInv, [Next]_vars
  PROVE  \/ \E r \in Rows : Publishes(r)
         \/ \E k \in Keys, l \in Labels, n \in Nat : Points(k, l, n)
         \/ Stutters
<1>1. Grows
  BY StepIInv
<1>2. labels' = labels =>
        Stutters \/ \E r \in Rows : Publishes(r)
  BY <1>1 DEF Grows, Publishes, Stutters
<1>3. ASSUME NEW c \in Clients, UpsertLabel(c)
      PROVE  \E k \in Keys, l \in Labels, n \in Nat : Points(k, l, n)
  <2>1. /\ call[c].pc = "point" /\ versions' = versions
        /\ labels' = [labels EXCEPT ![call[c].key][call[c].label] = call[c].version]
    BY <1>3 DEF UpsertLabel, At
  <2> QED
    BY <2>1, PointerOfPoint DEF Points, PointerOf, Pointers
<1>4. ASSUME LateUpsert
      PROVE  \E k \in Keys, l \in Labels, n \in Nat : Points(k, l, n)
  <2>1. PICK l \in latePointers :
          /\ labels' = [labels EXCEPT ![l.key][l.label] = l.version]
          /\ versions' = versions
    BY <1>4 DEF LateUpsert
  <2>2. /\ l.key \in Keys /\ l.label \in Labels /\ l.version \in Nat
        /\ l.version # 0 /\ HasVersion(l.key, l.version)
    BY DEF IInv, TInv, TypeOK, Pointers, ClaimsHold
  <2> QED
    BY <2>1, <2>2 DEF Points
<1>5. ASSUME NEW c \in Clients, BeginCall(c) \/ (Continue(c) /\ ~ UpsertLabel(c))
      PROVE  labels' = labels
  BY <1>5, BeginFrame, ContinueFrame
<1>6. Fault \/ LateInsert \/ UNCHANGED vars => labels' = labels
  BY DEF Fault, AwaitRejects, Crash, LateInsert, vars
<1> QED
  BY <1>2, <1>3, <1>4, <1>5, <1>6 DEF Next, Rest

-----------------------------------------------------------------------------
\* The history the rows stand for.

LEMMA RowIsUnique ==
  ASSUME UniqueVersions, NEW r \in versions
  PROVE  HasVersion(r.key, r.version) /\ Row(r.key, r.version) = r
<1>1. HasVersion(r.key, r.version)
  BY DEF HasVersion
<1> QED
  BY <1>1, RowIsStored DEF UniqueVersions

LEMMA DenseMax ==
  ASSUME NEW k \in Keys, Dense(k)
  PROVE  /\ MaxVersion(k) \in Nat
         /\ \A n : HasVersion(k, n) <=> n \in 1 .. MaxVersion(k)
  BY MaxOfDense, HasIsMember DEF Dense

History == [k \in Keys |-> [n \in 1 .. MaxVersion(k) |-> Row(k, n).value]]

LEMMA HistoryTyped ==
  ASSUME IInv, NEW k \in Keys
  PROVE  History[k] \in Seq(Values) /\ Len(History[k]) = MaxVersion(k)
<1>1. MaxVersion(k) \in Nat
  BY DenseMax DEF IInv
<1>2. ASSUME NEW n \in 1 .. MaxVersion(k) PROVE Row(k, n).value \in Values
  <2>1. HasVersion(k, n)
    BY DenseMax DEF IInv
  <2> QED
    BY <2>1, RowIsStored DEF IInv, TInv, TypeOK, Rows
<1> QED
  BY <1>1, <1>2 DEF History

\* A row that arrives is appended to the history of its key.
LEMMA PublishAppends ==
  ASSUME IInv, IInv', NEW r \in Rows, Publishes(r)
  PROVE  History' = [History EXCEPT ![r.key] = Append(@, r.value)]
<1>1. ASSUME NEW k \in Keys, k # r.key PROVE History'[k] = History[k]
  <2>1. VersionsOf(k)' = VersionsOf(k)
    BY <1>1 DEF Publishes, VersionsOf
  <2>2. MaxVersion(k)' = MaxVersion(k)
    BY <2>1 DEF MaxVersion
  <2>3. ASSUME NEW n \in 1 .. MaxVersion(k) PROVE Row(k, n)' = Row(k, n)
    <3>1. HasVersion(k, n)
      BY DenseMax DEF IInv
    <3>2. Row(k, n) \in versions /\ Row(k, n).key = k /\ Row(k, n).version = n
      BY <3>1, RowIsStored
    <3>3. Row(k, n) \in versions'
      BY <3>2 DEF Publishes
    <3>4. HasVersion(k, n)'
      BY <3>2, <3>3 DEF HasVersion
    <3>5. Row(k, n)' \in versions' /\ Row(k, n)'.key = k /\ Row(k, n)'.version = n
      BY <3>4 DEF HasVersion, Row
    <3> QED
      BY <3>2, <3>3, <3>5 DEF IInv, UniqueVersions
  <2> QED
    BY <2>2, <2>3 DEF History
<1>2. r.key \in Keys /\ r.version \in Nat
  BY DEF Rows
<1> DEFINE k == r.key
<1>3. PICK m \in Nat : MaxVersion(k) = m /\ \A n : HasVersion(k, n) <=> n \in 1 .. m
  BY <1>2, DenseMax DEF IInv
<1>4. r.version = m + 1
  <2>1. r.version \notin 1 .. m /\ \A n \in 1 .. r.version - 1 : n \in 1 .. m
    BY <1>3 DEF Publishes, Reached
  <2>2. r.version > m
    BY <1>2, <1>3, <2>1 DEF Publishes
  <2> QED
    BY <1>2, <1>3, <2>1, <2>2
<1>5. MaxVersion(k)' = m + 1
  <2>1. VersionsOf(k) = 1 .. m
    BY <1>3, HasIsMember DEF VersionsOf
  <2>2. VersionsOf(k)' = VersionsOf(k) \cup {m + 1}
    BY <1>4 DEF Publishes, VersionsOf
  <2>3. VersionsOf(k)' = 1 .. m + 1
    BY <1>3, <2>1, <2>2
  <2>4. ASSUME NEW S, S = {0} \cup 1 .. m + 1 PROVE Max(S) = m + 1
    <3>1. m + 1 \in S /\ \A y \in S : m + 1 >= y
      BY <1>3, <2>4
    <3>2. ASSUME NEW x \in S, \A y \in S : x >= y PROVE x = m + 1
      BY <1>3, <2>4, <3>1, <3>2
    <3> QED
      BY <3>1, <3>2 DEF Max
  <2> QED
    BY <2>3, <2>4 DEF MaxVersion
<1>6. ASSUME NEW n \in 1 .. m PROVE Row(k, n)' = Row(k, n)
  <2>1. Row(k, n) \in versions /\ Row(k, n).key = k /\ Row(k, n).version = n
    BY <1>3, RowIsStored
  <2>2. Row(k, n) \in versions'
    BY <2>1 DEF Publishes
  <2>3. Row(k, n)' \in versions' /\ Row(k, n)'.key = k /\ Row(k, n)'.version = n
    BY <2>1, <2>2 DEF Row
  <2> QED
    BY <2>1, <2>2, <2>3 DEF IInv, UniqueVersions
<1>7. Row(k, m + 1)' = r
  <2>1. r \in versions'
    BY DEF Publishes
  <2>2. Row(k, m + 1)' \in versions' /\ Row(k, m + 1)'.key = k
        /\ Row(k, m + 1)'.version = m + 1
    BY <1>4, <2>1 DEF Row
  <2> QED
    BY <1>4, <2>1, <2>2 DEF IInv, UniqueVersions
<1>8. History'[k] = Append(History[k], r.value)
  <2>1. History[k] \in Seq(Values) /\ Len(History[k]) = m
    BY <1>2, <1>3, HistoryTyped
  <2>2. /\ Append(History[k], r.value) \in Seq(Values)
        /\ Len(Append(History[k], r.value)) = m + 1
        /\ \A n \in 1 .. m : Append(History[k], r.value)[n] = History[k][n]
        /\ Append(History[k], r.value)[m + 1] = r.value
    BY <2>1, AppendProperties DEF Rows
  <2>3. History'[k] = [n \in 1 .. m + 1 |-> Row(k, n)'.value]
    BY <1>2, <1>5 DEF History
  <2>4. ASSUME NEW n \in 1 .. m + 1
        PROVE  Row(k, n)'.value = Append(History[k], r.value)[n]
    <3>1. CASE n \in 1 .. m
      BY <1>2, <1>3, <1>6, <2>2, <3>1 DEF History
    <3>2. CASE n = m + 1
      BY <1>7, <2>2, <3>2
    <3>3. n \in 1 .. m \/ n = m + 1
      OBVIOUS
    <3> QED
      BY <3>1, <3>2, <3>3
  <2>5. Append(History[k], r.value) =
          [n \in 1 .. m + 1 |-> Append(History[k], r.value)[n]]
    BY <2>2
  <2> QED
    BY <2>3, <2>4, <2>5
<1> QED
  BY <1>1, <1>2, <1>8 DEF History

-----------------------------------------------------------------------------
\* Every behaviour of the store is a behaviour of VersionHistory: a step
\* publishes one value at the end of one key's history, points one label at a
\* published version, or changes nothing that VersionHistory can see.
THEOREM Refinement == Spec => ImplementsHistory
<1>1. Init => Promise!Init
  <2> SUFFICES ASSUME Init PROVE Promise!Init
    OBVIOUS
  <2>1. IInv
    BY InitIInv
  <2>2. ASSUME NEW k \in Keys PROVE History[k] = << >>
    <3>1. VersionsOf(k) = 1 .. 0
      BY DEF Init, VersionsOf
    <3>2. MaxVersion(k) = 0
      BY <3>1, MaxOfDense
    <3>3. History[k] \in Seq(Values) /\ Len(History[k]) = 0
      BY <2>1, <3>2, HistoryTyped
    <3> QED
      BY <3>3, EmptySeq
  <2>3. History = [k \in Keys |-> << >>]
    BY <2>2 DEF History
  <2> QED
    BY <2>3 DEF Init, Promise!Init, History
<1>2. IInv /\ [Next]_vars =>
        [Promise!Next]_<<History, labels>>
  <2> SUFFICES ASSUME IInv, [Next]_vars
               PROVE  Promise!Next \/ (History' = History /\ labels' = labels)
    OBVIOUS
  <2>1. IInv'
    BY StepIInv
  <2>2. ASSUME NEW r \in Rows, Publishes(r) PROVE Promise!Next
    <3>1. r.key \in Keys /\ r.value \in Values
      BY DEF Rows
    <3>2. Promise!Publish(r.key, r.value)
      BY <2>1, <2>2, PublishAppends DEF Publishes, Promise!Publish, History
    <3> QED
      BY <3>1, <3>2 DEF Promise!Next
  <2>3. versions' = versions => History' = History
    BY DEF History, MaxVersion, VersionsOf, Row
  <2>4. ASSUME NEW k \in Keys, NEW l \in Labels, NEW n \in Nat, Points(k, l, n)
        PROVE  Promise!Next
    <3>1. History[k] \in Seq(Values) /\ Len(History[k]) = MaxVersion(k)
      BY HistoryTyped
    <3>2. n \in 1 .. Len(History[k]) /\ n \in DOMAIN History[k]
      BY <2>4, <3>1, DenseMax DEF Points, IInv
    <3>3. Promise!Point(k, l, n)
      BY <2>3, <2>4, <3>2 DEF Points, Promise!Point, History
    <3> QED
      BY <3>2, <3>3 DEF Promise!Next, History
  <2> QED
    BY <2>2, <2>3, <2>4, StepSeen DEF Stutters
<1>3. QED
  BY <1>1, <1>2, InductiveInvariant, PTL DEF Spec, ImplementsHistory, Promise!Spec, History

-----------------------------------------------------------------------------
\* What a call's own record owes the rows V of the backend.

Stored(V, k, n) == \E r \in V : r.key = k /\ r.version = n

\* The row addVersion wrote for the call of record cl, once it has.
RowFor(c, cl) == [key |-> cl.key, version |-> cl.version, value |-> cl.value,
                  by |-> IF cl.op = "add" THEN c ELSE cl.op]

\* A call that has installed its row, and promotes it or returned it, still
\* names that row: promote re-reads the content, and finds what was inserted.
Owns(V, c, cl) ==
  /\ cl.pc # "done" => cl.outcome = "pending"
  /\ cl.pc \in {"readLabel", "readVersion"} => cl.op \notin {"add", "revert"}
  /\ /\ cl.op \in {"add", "revert"}
     /\ cl.outcome = "ok" \/ cl.pc \in {"load", "gate", "point", "emit"}
     => RowFor(c, cl) \in V

\* A listing names an active version it also lists, and has no hole.
Whole(s) ==
  /\ s.active # 0 => s.active \in s.versions
  /\ \E n \in 0 .. Cardinality(s.versions) : s.versions = 1 .. n

\* The label a listing has read names a version it is about to find.
Lists(V, cl) ==
  /\ \A s \in cl.listed : Whole(s)
  /\ cl.pc = "listRows" /\ cl.version # 0 => Stored(V, cl.key, cl.version)

\* Version n of k holds a value the gate passes, or a kill switch wrote it.
Vetted(V, k, n) == \E r \in V :
  r.key = k /\ r.version = n /\ (r.value \in Sound \/ r.by = "revert")

\* Where every caller gates, the gate's verdict outlives the awaits up to the
\* upsert: a promote's is about the row it loaded, a seed's or a sync's about
\* the default it then adds.
Vouched(V, cl) ==
  /\ cl.op \in {"promote", "seed", "sync"} /\ cl.pc # "idle" => cl.gated
  /\ cl.op \in {"seed", "sync"} /\ cl.pc \in {"readMax", "insert"} => cl.value \in Sound
  /\ cl.op # "promote" /\ cl.pc = "load" => Vetted(V, cl.key, cl.version)
  /\ cl.pc = "gate" => \E r \in V :
       r.key = cl.key /\ r.version = cl.version /\ r.value = cl.value
  /\ cl.pc = "point" => Vetted(V, cl.key, cl.version)

Gated == GateChoices = {TRUE}

Agrees(V, c, cl) == Owns(V, c, cl) /\ Lists(V, cl) /\ (Gated => Vouched(V, cl))

AInv ==
  /\ \A c \in Clients : Agrees(versions, c, call[c])
  /\ Gated =>
       /\ \A l \in latePointers : Vetted(versions, l.key, l.version)
       /\ \A k \in Keys, l \in Labels :
            labels[k][l] # 0 => Vetted(versions, k, labels[k][l])
  /\ CacheCoherent

\* Rows that arrive take nothing away from what is owed.
LEMMA AgreesKept ==
  ASSUME NEW V, NEW W, V \subseteq W, NEW c, NEW cl, Agrees(V, c, cl)
  PROVE  Agrees(W, c, cl)
<1>1. Owns(W, c, cl)
  BY DEF Agrees, Owns
<1>2. Lists(W, cl)
  BY DEF Agrees, Lists, Stored
<1>3. Vouched(V, cl) => Vouched(W, cl)
  BY DEF Vouched, Vetted
<1> QED
  BY <1>1, <1>2, <1>3 DEF Agrees

\* A record from which a call starts.
Fresh(cl) ==
  /\ cl.listed = {}
  /\ cl.pc \notin {"insert", "gate", "point", "emit", "listRows"}
  /\ cl.pc = "load" => cl.op = "promote"
  /\ cl.pc = "readMax" => cl.op \in {"add", "revert"}
  /\ cl.pc \in {"readLabel", "readVersion"} => cl.op \notin {"add", "revert"}
  /\ cl.pc # "done" => cl.outcome = "pending"
  /\ cl.outcome # "ok"
  /\ cl.op \in {"promote", "seed", "sync"} /\ cl.pc # "idle" =>
       cl.gated \in GateChoices

LEMMA FreshAgrees ==
  ASSUME NEW V, NEW c, NEW cl, Fresh(cl)
  PROVE  Agrees(V, c, cl)
<1>1. Owns(V, c, cl)
  BY DEF Fresh, Owns
<1>2. Lists(V, cl)
  BY DEF Fresh, Lists
<1>3. Gated => Vouched(V, cl)
  BY DEF Fresh, Vouched, Gated
<1> QED
  BY <1>1, <1>2, <1>3 DEF Agrees

\* A call that fails, or returns, with nothing of its own to show or with its
\* row installed.
LEMMA ReturnAgrees ==
  ASSUME NEW V, NEW c, NEW cl, Agrees(V, c, cl), NEW f,
         /\ f.op = cl.op /\ f.gated = cl.gated /\ f.listed = cl.listed
         /\ f.pc = "done" /\ cl.pc # "idle",
         \/ f.outcome # "ok" \/ f.op \notin {"add", "revert"}
         \/ RowFor(c, f) \in V
  PROVE  Agrees(V, c, f)
<1>1. Owns(V, c, f)
  BY DEF Owns
<1>2. Lists(V, f)
  BY DEF Agrees, Lists
<1>3. Gated => Vouched(V, f)
  BY DEF Agrees, Vouched
<1> QED
  BY <1>1, <1>2, <1>3 DEF Agrees

\* A call under way that moves to a point where it owes no more than before.
LEMMA MoveAgrees ==
  ASSUME NEW V, NEW c, NEW cl, Agrees(V, c, cl), cl.pc \notin {"idle", "done"}, NEW f,
         /\ f.op = cl.op /\ f.gated = cl.gated /\ f.outcome = cl.outcome
         /\ f.listed = cl.listed,
         \/ f.pc \in {"init", "probe", "compare", "vet", "compareVersion", "distinct",
                      "listLabel"}
         \/ f.pc = "readVersion" /\ cl.pc = "readLabel"
         \/ /\ f.pc \in {"readMax", "insert"}
            /\ Gated /\ f.op \in {"seed", "sync"} => f.value \in Sound
  PROVE  Agrees(V, c, f)
<1>1. Owns(V, c, f)
  BY DEF Agrees, Owns
<1>2. Lists(V, f)
  BY DEF Agrees, Lists
<1>3. Gated => Vouched(V, f)
  BY DEF Agrees, Vouched
<1> QED
  BY <1>1, <1>2, <1>3 DEF Agrees

-----------------------------------------------------------------------------
\* One step of a client, seen from its record.

Turns(c) ==
  /\ \A d \in Clients \ {c} : call'[d] = call[d]
  /\ Agrees(versions', c, call'[c])

LEMMA CallIsSet ==
  ASSUME IInv, NEW c \in Clients, NEW f, SetCall(c, f)
  PROVE  call'[c] = f /\ \A d \in Clients \ {c} : call'[d] = call[d]
  BY DEF IInv, TInv, SaneCalls, SetCall

LEMMA BeginAgrees ==
  ASSUME IInv, NEW c \in Clients, BeginCall(c)
  PROVE  versions' = versions /\ Turns(c)
<1> DEFINE p == ProcOf[c]
<1>0. p \in Procs
  BY ConstantsAssumption
<1>1. ASSUME NEW op, NEW cl, Begin(c, op, cl), Fresh([cl EXCEPT !.op = op])
      PROVE  versions' = versions /\ Turns(c)
  <2>1. SetCall(c, [cl EXCEPT !.op = op]) /\ versions' = versions
    BY <1>1 DEF Begin, backend
  <2> QED
    BY <1>1, <2>1, FreshAgrees, CallIsSet DEF Turns
<1>2. CASE \/ BeginResolve(c) \/ BeginGetVersion(c) \/ BeginGetActive(c)
           \/ BeginListVersions(c) \/ BeginListKeys(c)
  BY <1>1, <1>2
  DEF BeginResolve, BeginGetVersion, BeginGetActive, BeginListVersions, BeginListKeys,
      Fresh, NoCall
<1>3. CASE BeginAdd(c) \/ BeginRevert(c)
  BY <1>1, <1>3 DEF BeginAdd, BeginRevert, StartAdd, Finish, Fresh, NoCall
<1>4. CASE BeginPromote(c)
  <2> DEFINE e(k, l, n, g) == [NoCall EXCEPT !.key = k, !.label = l, !.version = n,
                                             !.gated = g]
  <2>1. PICK k \in Keys, l \in Labels, g \in GateChoices :
          \E n \in 0 .. MaxVersion(k) + 1 :
            Begin(c, "promote", IF n = 0 THEN Finish(e(k, l, n, g), "sentinel")
                                         ELSE Goto(e(k, l, n, g), "load"))
    BY <1>4 DEF BeginPromote
  <2>2. PICK n \in 0 .. MaxVersion(k) + 1 :
          Begin(c, "promote", IF n = 0 THEN Finish(e(k, l, n, g), "sentinel")
                                       ELSE Goto(e(k, l, n, g), "load"))
    BY <2>1
  <2>3. /\ Fresh([Finish(e(k, l, n, g), "sentinel") EXCEPT !.op = "promote"])
        /\ Fresh([Goto(e(k, l, n, g), "load") EXCEPT !.op = "promote"])
    BY DEF Finish, Goto, Fresh, NoCall
  <2> QED
    BY <1>1, <2>2, <2>3
<1>5. CASE BeginSeed(c) \/ BeginSync(c)
  <2>1. PICK op \in {"seed", "sync"}, g \in GateChoices : Begin(c, op,
          [NoCall EXCEPT !.pc = "init", !.gated = g, !.todo = DefaultKeys(p)])
    BY <1>5 DEF BeginSeed, BeginSync, BeginDefaults
  <2>2. Fresh([[NoCall EXCEPT !.pc = "init", !.gated = g, !.todo = DefaultKeys(p)]
                 EXCEPT !.op = op])
    BY DEF Fresh, NoCall
  <2> QED
    BY <1>1, <2>1, <2>2
<1>6. CASE ResolveUnavailable(c)
  <2> DEFINE f(k, l) == Fallback(p, [NoCall EXCEPT !.op = "resolve", !.key = k,
                                                   !.label = l], "backend-unavailable")
  <2>1. PICK k \in Keys, l \in Labels : SetCall(c, f(k, l)) /\ versions' = versions
    BY <1>6 DEF ResolveUnavailable, backend
  <2>2. Fresh(f(k, l))
    BY DEF Fallback, Fresh, NoCall
  <2> QED
    BY <2>1, <2>2, FreshAgrees, CallIsSet DEF Turns
<1> QED
  BY <1>2, <1>3, <1>4, <1>5, <1>6 DEF BeginCall

LEMMA ReadStepsAgree ==
  ASSUME IInv, AInv, NEW c \in Clients, ReadLabel(c) \/ ReadVersion(c)
  PROVE  Turns(c)
<1> DEFINE p == ProcOf[c]
           cl == call[c]
           f == call'[c]
<1>0. cl \in Calls /\ Agrees(versions, c, cl) /\ cl.pc \in {"readLabel", "readVersion"}
  BY DEF IInv, TInv, SaneCalls, AInv, ReadLabel, ReadVersion, At
<1>1. versions' = versions
  BY DEF ReadLabel, ReadVersion, backend
<1>2. cl.op \notin {"add", "revert"}
  BY <1>0 DEF Agrees, Owns
<1> DEFINE Fine(g) == /\ g.op = cl.op /\ g.gated = cl.gated /\ g.listed = cl.listed
                      /\ \/ g.pc = "done"
                         \/ /\ g.pc = "readVersion" /\ cl.pc = "readLabel"
                            /\ g.outcome = cl.outcome
<1>a. ASSUME NEW o PROVE Fine(Fallback(p, cl, o)) /\ Fine(Finish(cl, o))
  BY <1>0 DEF Fallback, Finish, Calls
<1>b. ASSUME NEW n, NEW v PROVE Fine([Finish(cl, "ok") EXCEPT !.version = n, !.value = v])
  BY <1>0 DEF Finish, Calls
<1>c. ASSUME NEW v PROVE Fine([Finish(cl, "ok") EXCEPT !.value = v])
  BY <1>0 DEF Finish, Calls
<1>d. ASSUME NEW n, cl.pc = "readLabel"
      PROVE  Fine([Goto(cl, "readVersion") EXCEPT !.version = n])
  BY <1>0, <1>d DEF Goto, Calls
<1> HIDE DEF Fine
<1>3. \E g : SetCall(c, g) /\ Fine(g)
  <2>1. CASE ReadLabel(c)
    BY <2>1, <1>a, <1>b, <1>d DEF ReadLabel, Advance, At
  <2>2. CASE ReadVersion(c)
    BY <2>2, <1>a, <1>c DEF ReadVersion, Advance
  <2> QED
    BY <2>1, <2>2
<1>4. Fine(f) /\ \A d \in Clients \ {c} : call'[d] = call[d]
  BY <1>3, CallIsSet
<1>5. Agrees(versions, c, f)
  BY <1>0, <1>2, <1>4, ReturnAgrees, MoveAgrees DEF Fine
<1> QED
  BY <1>1, <1>4, <1>5 DEF Turns

LEMMA InsertStepsAgree ==
  ASSUME IInv, AInv, NEW c \in Clients, ReadMax(c) \/ InsertVersion(c)
  PROVE  Turns(c)
<1> DEFINE p == ProcOf[c]
           cl == call[c]
<1>0. /\ cl \in Calls /\ Agrees(versions, c, cl) /\ cl.pc \in {"readMax", "insert"}
      /\ cl.op \in {"add", "revert", "seed", "sync"}
  BY DEF IInv, TInv, SaneCalls, Sane, Fits, AInv, ReadMax, InsertVersion, Move, At
<1>1. Gated /\ cl.op \in {"seed", "sync"} => cl.value \in Sound
  BY <1>0 DEF Agrees, Vouched
<1>2. ASSUME NEW f, SetCall(c, f), Agrees(versions', c, f) PROVE Turns(c)
  BY <1>2, CallIsSet DEF Turns
<1>3. CASE ReadMax(c)
  <2> DEFINE f == [Goto(cl, "insert") EXCEPT !.version = MaxVersion(cl.key) + 1]
  <2>1. SetCall(c, f) /\ versions' = versions
    BY <1>3 DEF ReadMax, Move, Advance, backend
  <2>2. /\ f.op = cl.op /\ f.gated = cl.gated /\ f.listed = cl.listed
        /\ f.outcome = cl.outcome /\ f.value = cl.value /\ f.pc = "insert"
    BY <1>0 DEF Goto, Calls
  <2> QED
    BY <1>0, <1>1, <1>2, <2>1, <2>2, MoveAgrees
<1>4. CASE InsertVersion(c) /\ HasVersion(cl.key, cl.version)
  <2> DEFINE f == [Goto(cl, "readMax") EXCEPT !.attempt = @ + 1]
             g == Finish(cl, "conflict")
  <2>1. (SetCall(c, f) \/ SetCall(c, g)) /\ versions' = versions
    BY <1>4 DEF InsertVersion, Advance
  <2>2. /\ f.op = cl.op /\ f.gated = cl.gated /\ f.listed = cl.listed
        /\ f.outcome = cl.outcome /\ f.value = cl.value /\ f.pc = "readMax"
    BY <1>0 DEF Goto, Calls
  <2>3. /\ g.op = cl.op /\ g.gated = cl.gated /\ g.listed = cl.listed
        /\ g.outcome = "conflict" /\ g.pc = "done"
    BY <1>0 DEF Finish, Calls
  <2> HIDE DEF f, g
  <2>4. Agrees(versions, c, f)
    BY <1>0, <1>1, <2>2, MoveAgrees
  <2>5. Agrees(versions, c, g)
    BY <1>0, <2>3, ReturnAgrees
  <2> QED
    BY <1>2, <2>1, <2>4, <2>5
<1>5. CASE InsertVersion(c) /\ ~ HasVersion(cl.key, cl.version)
  <2> DEFINE r == RowOf(c)
             f == AfterInsert(cl)
  <2>1. SetCall(c, f) /\ versions' = versions \cup {r}
    BY <1>5 DEF InsertVersion, Advance
  <2>2. /\ f.op = cl.op /\ f.gated = cl.gated /\ f.listed = cl.listed
        /\ f.value = cl.value /\ f.key = cl.key /\ f.version = cl.version
        /\ \/ f.pc = "done" /\ f.op = "add"
           \/ f.pc = "load" /\ f.op # "add" /\ f.outcome = cl.outcome
    BY <1>0 DEF AfterInsert, Goto, Finish, Calls
  <2> HIDE DEF f
  <2>3. RowFor(c, f) = r
    BY <2>2 DEF RowFor, RowOf
  <2>4. r \in versions'
    BY <2>1
  <2>5. Owns(versions', c, f)
    BY <1>0, <2>2, <2>3, <2>4 DEF Agrees, Owns
  <2>6. Lists(versions', f)
    BY <1>0, <2>2 DEF Agrees, Lists
  <2>7. f.pc = "load" /\ Gated => Vetted(versions', f.key, f.version)
    BY <1>0, <1>1, <2>2, <2>4 DEF Vetted, RowOf
  <2>8. Gated => Vouched(versions', f)
    BY <1>0, <2>2, <2>7 DEF Agrees, Vouched
  <2> QED
    BY <1>2, <2>1, <2>5, <2>6, <2>8 DEF Agrees
<1> QED
  BY <1>3, <1>4, <1>5

LEMMA PromoteStepsAgree ==
  ASSUME IInv, AInv, NEW c \in Clients,
         Load(c) \/ RunGate(c) \/ UpsertLabel(c) \/ EmitAccepted(c)
  PROVE  Turns(c)
<1> DEFINE p == ProcOf[c]
           cl == call[c]
           V == versions
<1>0. /\ cl \in Calls /\ Agrees(V, c, cl)
      /\ cl.pc \in {"load", "gate", "point", "emit"}
      /\ cl.op \in {"promote", "revert", "seed", "sync"}
  BY DEF IInv, TInv, SaneCalls, Sane, Fits, AInv, Load, RunGate, UpsertLabel,
         EmitAccepted, Move, At
<1>1. versions' = V
  BY DEF Load, RunGate, UpsertLabel, EmitAccepted, Move, backend
<1>2. ASSUME NEW f, SetCall(c, f), Agrees(V, c, f) PROVE Turns(c)
  BY <1>1, <1>2, CallIsSet DEF Turns
<1>3. ASSUME NEW o \in {"notFound", "refused"} PROVE Agrees(V, c, Finish(cl, o))
  <2> DEFINE f == Finish(cl, o)
  <2>1. /\ f.op = cl.op /\ f.gated = cl.gated /\ f.listed = cl.listed
        /\ f.outcome = o /\ f.pc = "done"
    BY <1>0 DEF Finish, Calls
  <2> QED
    BY <1>0, <2>1, ReturnAgrees
<1>4. cl.op = "revert" => RowFor(c, cl) \in V
  BY <1>0 DEF Agrees, Owns
<1>5. ASSUME NEW f, NEW pc \in {"gate", "point", "emit"}, f.pc = pc,
             f.op = cl.op, f.gated = cl.gated, f.listed = cl.listed,
             f.outcome = cl.outcome, f.key = cl.key, f.version = cl.version,
             cl.op = "revert" => f.value = cl.value,
             Gated /\ pc = "point" => Vetted(V, cl.key, cl.version),
             pc = "gate" => \E r \in V :
               r.key = f.key /\ r.version = f.version /\ r.value = f.value
      PROVE  Agrees(V, c, f)
  <2>1. cl.op = "revert" => RowFor(c, f) = RowFor(c, cl)
    BY <1>5 DEF RowFor
  <2>2. Owns(V, c, f)
    BY <1>0, <1>4, <1>5, <2>1 DEF Agrees, Owns
  <2>3. Lists(V, f)
    BY <1>0, <1>5 DEF Agrees, Lists
  <2>4. Gated => Vouched(V, f)
    BY <1>0, <1>5 DEF Agrees, Vouched
  <2> QED
    BY <2>2, <2>3, <2>4 DEF Agrees
<1>6. CASE Load(c)
  <2>1. cl.pc = "load"
    BY <1>6 DEF Load, Move, At
  <2>2. CASE ~ Loads(p, cl.key, cl.version)
    BY <1>2, <1>3, <1>6, <2>2 DEF Load, Move, Advance
  <2>3. CASE Loads(p, cl.key, cl.version)
    <3> DEFINE pc == IF cl.op = "promote" /\ cl.gated THEN "gate" ELSE "point"
               r == Row(cl.key, cl.version)
               f == [Goto(cl, pc) EXCEPT !.value = r.value]
    <3>1. SetCall(c, f)
      BY <1>6, <2>3 DEF Load, Move, Advance
    <3>2. r \in V /\ r.key = cl.key /\ r.version = cl.version
      BY <2>3, RowIsStored DEF Loads
    <3>3. /\ f.pc = pc /\ f.op = cl.op /\ f.gated = cl.gated /\ f.listed = cl.listed
          /\ f.outcome = cl.outcome /\ f.key = cl.key /\ f.version = cl.version
          /\ f.value = r.value
      BY <1>0 DEF Goto, Calls
    <3>4. cl.op = "revert" => r.value = cl.value
      <4>1. ASSUME RowFor(c, cl) \in V PROVE RowFor(c, cl) = r
        BY <3>2, <4>1 DEF IInv, UniqueVersions, RowFor
      <4> QED
        BY <1>4, <4>1 DEF RowFor
    <3>5. Gated /\ pc = "point" => Vetted(V, cl.key, cl.version)
      BY <1>0, <2>1 DEF Agrees, Vouched
    <3> HIDE DEF f, r
    <3>6. pc \in {"gate", "point", "emit"}
      OBVIOUS
    <3>7. Agrees(V, c, f)
      BY <1>5, <3>2, <3>3, <3>4, <3>5, <3>6
    <3> QED
      BY <1>2, <3>1, <3>7
  <2> QED
    BY <2>2, <2>3
<1>7. CASE RunGate(c)
  <2> DEFINE f == Goto(cl, "point")
  <2>1. /\ cl.pc = "gate" /\ (SetCall(c, f) \/ SetCall(c, Finish(cl, "refused")))
        /\ SetCall(c, Finish(cl, "refused")) \/ (SetCall(c, f) /\ cl.value \in Sound)
    BY <1>7 DEF RunGate, Move, At, Advance
  <2>2. /\ f.pc = "point" /\ f.op = cl.op /\ f.gated = cl.gated /\ f.listed = cl.listed
        /\ f.outcome = cl.outcome /\ f.key = cl.key /\ f.version = cl.version
        /\ f.value = cl.value
    BY <1>0 DEF Goto, Calls
  <2>3. Gated /\ cl.value \in Sound => Vetted(V, cl.key, cl.version)
    BY <1>0, <2>1 DEF Agrees, Vouched, Vetted
  <2> HIDE DEF f
  <2>4. cl.value \in Sound => Agrees(V, c, f)
    BY <1>5, <2>2, <2>3
  <2> QED
    BY <1>2, <1>3, <2>1, <2>4
<1>8. CASE UpsertLabel(c)
  <2> DEFINE f == Goto(cl, "emit")
  <2>1. SetCall(c, f)
    BY <1>8 DEF UpsertLabel, Advance
  <2>2. /\ f.pc = "emit" /\ f.op = cl.op /\ f.gated = cl.gated /\ f.listed = cl.listed
        /\ f.outcome = cl.outcome /\ f.key = cl.key /\ f.version = cl.version
        /\ f.value = cl.value
    BY <1>0 DEF Goto, Calls
  <2> HIDE DEF f
  <2>3. Agrees(V, c, f)
    BY <1>5, <2>2
  <2> QED
    BY <1>2, <2>1, <2>3
<1>9. CASE EmitAccepted(c)
  <2> DEFINE f == AfterPromote(cl)
  <2>1. SetCall(c, f)
    BY <1>9 DEF EmitAccepted, Move, Advance
  <2>2. /\ f.op = cl.op /\ f.gated = cl.gated /\ f.listed = cl.listed
        /\ f.key = cl.key /\ f.version = cl.version /\ f.value = cl.value
        /\ \/ f.pc \in {"probe", "compare"} /\ f.outcome = cl.outcome
           \/ f.pc = "done"
    BY <1>0 DEF AfterPromote, NextDefault, Finish, Goto, Calls
  <2> HIDE DEF f
  <2>3. cl.op = "revert" => RowFor(c, f) \in V
    BY <1>4, <2>2 DEF RowFor
  <2>4. Agrees(V, c, f)
    BY <1>0, <2>2, <2>3, MoveAgrees, ReturnAgrees
  <2> QED
    BY <1>2, <2>1, <2>4
<1> QED
  BY <1>6, <1>7, <1>8, <1>9

LEMMA DefaultsStepsAgree ==
  ASSUME IInv, AInv, NEW c \in Clients,
         \/ EnsureIndexes(c) \/ DefaultsDone(c) \/ SeedProbe(c)
         \/ SyncCompare(c) \/ SyncCompareVersion(c) \/ VetDefault(c)
  PROVE  Turns(c)
<1> DEFINE p == ProcOf[c]
           cl == call[c]
           V == versions
<1>0. /\ cl \in Calls /\ Agrees(V, c, cl) /\ cl.pc \notin {"idle", "done"}
      /\ cl.op \in {"seed", "sync"}
  BY DEF IInv, TInv, SaneCalls, Sane, Fits, AInv, EnsureIndexes, DefaultsDone,
         SeedProbe, SyncCompare, SyncCompareVersion, VetDefault, Move, At
<1>1. versions' = V
  BY DEF EnsureIndexes, DefaultsDone, SeedProbe, SyncCompare, SyncCompareVersion,
         VetDefault, Move, backend
<1>2. ASSUME NEW f, NEW pc, Move(c, pc, f), Agrees(V, c, f) PROVE Turns(c)
  BY <1>1, <1>2, CallIsSet DEF Turns, Move, Advance
<1>3. Gated => cl.gated
  BY <1>0 DEF Agrees, Vouched
\* What a turn of the loop, and every step of it, leaves of the record.
<1> DEFINE Same(t) == /\ t \in Calls /\ t.op = cl.op /\ t.gated = cl.gated
                      /\ t.listed = cl.listed /\ t.outcome = cl.outcome
<1>4. ASSUME NEW t, Same(t)
      PROVE  /\ Agrees(V, c, NextDefault(t)) /\ Agrees(V, c, Install(p, t))
             /\ \A n : Agrees(V, c, [Goto(t, "compareVersion") EXCEPT !.version = n])
             /\ \A o : Agrees(V, c, Finish(t, o))
             /\ t.value \in Sound => Agrees(V, c, StartAdd(p, t))
  <2>1. Agrees(V, c, NextDefault(t))
    <3> DEFINE f == NextDefault(t)
    <3>1. /\ f.op = cl.op /\ f.gated = cl.gated /\ f.listed = cl.listed
          /\ f.outcome = cl.outcome /\ f.pc \in {"probe", "compare"}
      BY <1>4 DEF NextDefault, Goto, Calls
    <3> QED
      BY <1>0, <3>1, MoveAgrees
  <2>2. ASSUME NEW n
        PROVE  Agrees(V, c, [Goto(t, "compareVersion") EXCEPT !.version = n])
    <3> DEFINE f == [Goto(t, "compareVersion") EXCEPT !.version = n]
    <3>1. /\ f.op = cl.op /\ f.gated = cl.gated /\ f.listed = cl.listed
          /\ f.outcome = cl.outcome /\ f.pc = "compareVersion"
      BY <1>4 DEF Goto, Calls
    <3> QED
      BY <1>0, <3>1, MoveAgrees
  <2>3. ASSUME NEW o PROVE Agrees(V, c, Finish(t, o))
    <3> DEFINE f == Finish(t, o)
    <3>1. /\ f.op = cl.op /\ f.gated = cl.gated /\ f.listed = cl.listed
          /\ f.pc = "done"
      BY <1>4 DEF Finish, Calls
    <3> QED
      BY <1>0, <3>1, ReturnAgrees
  <2>4. ~ Gated \/ t.value \in Sound => Agrees(V, c, StartAdd(p, t))
    <3> DEFINE f == [t EXCEPT !.pc = "readMax", !.attempt = 1]
    <3>1. /\ f.op = cl.op /\ f.gated = cl.gated /\ f.listed = cl.listed
          /\ f.outcome = cl.outcome /\ f.pc = "readMax" /\ f.value = t.value
      BY <1>4 DEF Calls
    <3>2. ~ Gated \/ t.value \in Sound => Agrees(V, c, f)
      BY <1>0, <3>1, MoveAgrees
    <3> QED
      BY <2>3, <3>2 DEF StartAdd
  <2>5. Agrees(V, c, Install(p, t))
    <3> DEFINE f == Goto(t, "vet")
    <3>1. /\ f.op = cl.op /\ f.gated = cl.gated /\ f.listed = cl.listed
          /\ f.outcome = cl.outcome /\ f.pc = "vet"
      BY <1>4 DEF Goto, Calls
    <3>2. Agrees(V, c, f)
      BY <1>0, <3>1, MoveAgrees
    <3>3. ~ t.gated => ~ Gated
      BY <1>3, <1>4
    <3> QED
      BY <2>4, <3>2, <3>3 DEF Install
  <2> QED
    BY <2>1, <2>2, <2>3, <2>4, <2>5
<1>5. Same(cl)
  BY <1>0
<1>6. ASSUME NEW k \in cl.todo PROVE Same(Taken(c, k))
  <2>1. cl.todo \subseteq DefaultKeys(p) /\ p \in Procs /\ k \in Keys
    BY <1>0, ConstantsAssumption DEF IInv, TInv, SaneCalls, Sane, Fits, Calls
  <2>2. Default[p][k] \in Values \cup {None}
    BY <2>1, ConstantsAssumption
  <2> QED
    BY <1>0, <2>1, <2>2, ConstantsAssumption DEF Taken, Calls
<1> HIDE DEF Same
<1>7. CASE EnsureIndexes(c)
  BY <1>2, <1>4, <1>5, <1>7 DEF EnsureIndexes
<1>8. CASE DefaultsDone(c)
  BY <1>2, <1>4, <1>5, <1>8 DEF DefaultsDone
<1>9. CASE SeedProbe(c)
  BY <1>2, <1>4, <1>6, <1>9 DEF SeedProbe
<1>10. CASE SyncCompare(c)
  BY <1>2, <1>4, <1>6, <1>10 DEF SyncCompare
<1>11. CASE SyncCompareVersion(c)
  BY <1>2, <1>4, <1>5, <1>11 DEF SyncCompareVersion
<1>12. CASE VetDefault(c)
  BY <1>2, <1>4, <1>5, <1>12 DEF VetDefault
<1> QED
  BY <1>7, <1>8, <1>9, <1>10, <1>11, <1>12

LEMMA ListStepsAgree ==
  ASSUME IInv, AInv, NEW c \in Clients,
         DistinctKeys(c) \/ ListLabel(c) \/ ListRows(c)
  PROVE  Turns(c)
<1> DEFINE p == ProcOf[c]
           cl == call[c]
           V == versions
<1>0. /\ cl \in Calls /\ Agrees(V, c, cl) /\ cl.pc \notin {"idle", "done"}
      /\ cl.op \in {"listVersions", "listKeys"}
      /\ cl.pc # "distinct" => cl.key \in Keys
  BY DEF IInv, TInv, SaneCalls, Sane, Fits, Unkeyed, AInv, DistinctKeys, ListLabel,
         ListRows, Move, At
<1>1. versions' = V
  BY DEF DistinctKeys, ListLabel, ListRows, Move, backend
<1>2. ASSUME NEW f, NEW pc, Move(c, pc, f), Agrees(V, c, f) PROVE Turns(c)
  BY <1>1, <1>2, CallIsSet DEF Turns, Move, Advance
<1>3. ASSUME NEW d \in Calls, d.op = cl.op, d.gated = cl.gated,
             d.outcome = cl.outcome, \A s \in d.listed : Whole(s), NEW f \in ListTurn(d)
      PROVE  Agrees(V, c, f)
  <2>1. /\ f.op = cl.op /\ f.gated = cl.gated /\ f.listed = d.listed
        /\ \/ f.pc = "listLabel" /\ f.outcome = cl.outcome
           \/ f.pc = "done"
    <3>1. CASE d.todo = {}
      BY <1>3, <3>1 DEF ListTurn, Finish, Calls
    <3>2. CASE d.todo # {}
      <4>1. PICK k \in d.todo :
              f = [Goto(d, "listLabel") EXCEPT !.key = k, !.todo = @ \ {k}]
        BY <3>2 DEF ListTurn
      <4> QED
        BY <1>3, <4>1 DEF Goto, Calls
    <3> QED
      BY <3>1, <3>2
  <2>2. Owns(V, c, f)
    BY <1>0, <2>1 DEF Agrees, Owns
  <2>3. Lists(V, f)
    BY <1>3, <2>1 DEF Lists
  <2>4. Gated => Vouched(V, f)
    BY <1>0, <2>1 DEF Agrees, Vouched
  <2> QED
    BY <2>2, <2>3, <2>4 DEF Agrees
<1>4. CASE DistinctKeys(c)
  <2> DEFINE d == [cl EXCEPT !.todo = {r.key : r \in versions}]
  <2>1. PICK f \in ListTurn(d) : Move(c, "distinct", f)
    BY <1>4 DEF DistinctKeys
  <2>2. {r.key : r \in versions} \in SUBSET Keys
    BY DEF IInv, TInv, TypeOK, Rows
  <2>3. /\ d \in Calls /\ d.op = cl.op /\ d.gated = cl.gated
        /\ d.outcome = cl.outcome /\ d.listed = cl.listed
    BY <1>0, <2>2 DEF Calls
  <2> QED
    BY <1>0, <1>2, <1>3, <2>1, <2>3 DEF Agrees, Lists
<1>5. CASE ListLabel(c)
  <2> DEFINE n == labels[cl.key][Active]
             f == [Goto(cl, "listRows") EXCEPT !.version = n]
  <2>1. Move(c, "listLabel", f) /\ cl.pc = "listLabel"
    BY <1>5 DEF ListLabel, Move, At
  <2>2. /\ f.op = cl.op /\ f.gated = cl.gated /\ f.listed = cl.listed
        /\ f.outcome = cl.outcome /\ f.pc = "listRows" /\ f.key = cl.key
        /\ f.version = n
    BY <1>0 DEF Goto, Calls
  <2>3. n # 0 => Stored(V, cl.key, n)
    BY <1>0, <2>1, ConstantsAssumption DEF IInv, LabelsStored, HasVersion, Stored
  <2> HIDE DEF f, n
  <2>4. Owns(V, c, f)
    BY <1>0, <2>2 DEF Agrees, Owns
  <2>5. Lists(V, f)
    BY <1>0, <2>2, <2>3 DEF Agrees, Lists
  <2>6. Gated => Vouched(V, f)
    BY <1>0, <2>2 DEF Agrees, Vouched
  <2> QED
    BY <1>2, <2>1, <2>4, <2>5, <2>6 DEF Agrees
<1>6. CASE ListRows(c)
  <2> DEFINE s == [key |-> cl.key, active |-> cl.version, versions |-> VersionsOf(cl.key)]
             d == [cl EXCEPT !.listed = @ \cup {s}]
  <2>1. PICK f \in ListTurn(d) : Move(c, "listRows", f)
    BY <1>6 DEF ListRows
  <2>2. cl.pc = "listRows" /\ cl.key \in Keys
    BY <1>0, <2>1 DEF Move, At
  <2>3. PICK n \in Nat : VersionsOf(cl.key) = 1 .. n
    BY <2>2 DEF IInv, Dense
  <2>4. Cardinality(1 .. n) = n
    <3>1. 1 \in Int /\ n \in Int
      OBVIOUS
    <3>2. Cardinality(1 .. n) = IF 1 > n THEN 0 ELSE n - 1 + 1
      BY <3>1, FS_Interval, Zenon
    <3> QED
      BY <3>2
  <2>5. cl.version # 0 => cl.version \in VersionsOf(cl.key)
    BY <1>0, <2>2 DEF Agrees, Lists, Stored, VersionsOf
  <2>6. Whole(s)
    BY <2>3, <2>4, <2>5 DEF Whole
  <2>7. s \in Summaries
    BY <1>0, <2>2, <2>3 DEF Summaries, Calls
  <2>8. /\ d \in Calls /\ d.op = cl.op /\ d.gated = cl.gated
        /\ d.outcome = cl.outcome /\ d.listed = cl.listed \cup {s}
    BY <1>0, <2>7 DEF Calls
  <2>9. \A x \in d.listed : Whole(x)
    BY <1>0, <2>6, <2>8 DEF Agrees, Lists
  <2> QED
    BY <1>2, <1>3, <2>1, <2>8, <2>9
<1> QED
  BY <1>4, <1>5, <1>6

-----------------------------------------------------------------------------
\* Every step keeps what is owed.

LEMMA GrowsOnly ==
  ASSUME IInv, [Next]_vars
  PROVE  versions \subseteq versions'
  BY StepIInv DEF Grows

LEMMA ContinueAgrees ==
  ASSUME IInv, AInv, NEW c \in Clients, Continue(c)
  PROVE  Turns(c)
  BY ReadStepsAgree, InsertStepsAgree, PromoteStepsAgree, DefaultsStepsAgree,
     ListStepsAgree DEF Continue

\* After any step every call record agrees with what is stored.
LEMMA CallsAgree ==
  ASSUME IInv, AInv, [Next]_vars
  PROVE  \A c \in Clients : Agrees(versions', c, call'[c])
<1>0. versions \subseteq versions'
  BY GrowsOnly
<1>1. \A c \in Clients : Agrees(versions', c, call[c])
  BY <1>0, AgreesKept DEF AInv
<1>2. ASSUME NEW c \in Clients, BeginCall(c) \/ Continue(c)
      PROVE  \A d \in Clients : Agrees(versions', d, call'[d])
  BY <1>1, <1>2, BeginAgrees, ContinueAgrees DEF Turns
<1>3. ASSUME NEW c \in Clients, AwaitRejects(c)
      PROVE  \A d \in Clients : Agrees(versions', d, call'[d])
  <2> DEFINE p == ProcOf[c]
             cl == call[c]
             f == IF cl.op = "resolve" THEN Fallback(p, cl, "resolve-error")
                                       ELSE Finish(cl, "rejected")
  <2>1. SetCall(c, f) /\ cl \in Calls /\ cl.pc # "idle"
    BY <1>3 DEF AwaitRejects, IInv, TInv, SaneCalls
  <2>2. /\ f.op = cl.op /\ f.gated = cl.gated /\ f.listed = cl.listed
        /\ f.pc = "done" /\ f.outcome # "ok"
    BY <2>1 DEF Fallback, Finish, Calls
  <2> HIDE DEF f
  <2>3. Agrees(versions', c, f)
    BY <1>1, <2>1, <2>2, ReturnAgrees
  <2>4. call'[c] = f /\ \A d \in Clients \ {c} : call'[d] = call[d]
    BY <2>1, CallIsSet
  <2> QED
    BY <1>1, <2>3, <2>4
<1>4. ASSUME NEW p \in Procs, Crash(p)
      PROVE  \A d \in Clients : Agrees(versions', d, call'[d])
  <2>1. \A d \in Clients : call'[d] \in {call[d], NoCall}
    BY <1>4 DEF Crash
  <2>2. Fresh(NoCall)
    BY DEF Fresh, NoCall
  <2> QED
    BY <1>1, <2>1, <2>2, FreshAgrees
<1>5. ASSUME call' = call
      PROVE  \A d \in Clients : Agrees(versions', d, call'[d])
  BY <1>1, <1>5
<1> QED
  BY <1>2, <1>3, <1>4, <1>5 DEF Next, Fault, LateInsert, LateUpsert, Rest, vars

LEMMA VettedKept ==
  ASSUME NEW V, NEW W, V \subseteq W, NEW k, NEW n, Vetted(V, k, n)
  PROVE  Vetted(W, k, n)
  BY DEF Vetted

\* What is vetted when it is sent to the backend is vetted when it is live.
LEMMA LiveStaysVetted ==
  ASSUME IInv, AInv, [Next]_vars, Gated
  PROVE  /\ \A l \in latePointers' : Vetted(versions', l.key, l.version)
         /\ \A k \in Keys, l \in Labels :
              labels'[k][l] # 0 => Vetted(versions', k, labels'[k][l])
<1>0. versions \subseteq versions'
  BY GrowsOnly
<1>1. ASSUME NEW c \in Clients, call[c].pc = "point"
      PROVE  Vetted(versions, call[c].key, call[c].version)
  BY <1>1 DEF AInv, Agrees, Vouched
<1>2. ASSUME NEW l \in latePointers \cup InFlightPointers(Clients)
      PROVE  Vetted(versions', l.key, l.version)
  <2>1. Vetted(versions, l.key, l.version)
    BY <1>1 DEF AInv, InFlightPointers, PointerOf
  <2> QED
    BY <1>0, <2>1, VettedKept
<1>3. latePointers' \subseteq latePointers \cup InFlightPointers(Clients)
  <2>1. ASSUME NEW c \in Clients, BeginCall(c) \/ Continue(c)
        PROVE  latePointers' = latePointers
    BY <2>1, BeginFrame, ContinueFrame
  <2>2. ASSUME NEW c \in Clients, AwaitRejects(c)
        PROVE  latePointers' \subseteq latePointers \cup InFlightPointers(Clients)
    BY <2>2 DEF AwaitRejects, InFlightPointers
  <2>3. ASSUME NEW p \in Procs, Crash(p)
        PROVE  latePointers' \subseteq latePointers \cup InFlightPointers(Clients)
    BY <2>3 DEF Crash, InFlightPointers
  <2>4. LateInsert \/ LateUpsert \/ UNCHANGED vars => latePointers' \subseteq latePointers
    BY DEF LateInsert, LateUpsert, vars
  <2> QED
    BY <2>1, <2>2, <2>3, <2>4 DEF Next, Rest, Fault
<1>4. ASSUME NEW k \in Keys, NEW l \in Labels, labels'[k][l] # 0
      PROVE  Vetted(versions', k, labels'[k][l])
  <2>1. CASE labels'[k][l] = labels[k][l]
    <3>1. Vetted(versions, k, labels[k][l])
      BY <1>4, <2>1 DEF AInv
    <3> QED
      BY <1>0, <2>1, <3>1, VettedKept
  <2>2. CASE labels'[k][l] # labels[k][l]
    <3>1. PICK x \in latePointers \cup InFlightPointers(Clients) :
            labels' = [labels EXCEPT ![x.key][x.label] = x.version]
      <4>1. ASSUME NEW c \in Clients, UpsertLabel(c)
            PROVE  \E x \in InFlightPointers(Clients) :
                     labels' = [labels EXCEPT ![x.key][x.label] = x.version]
        <5>1. /\ call[c].pc = "point"
              /\ labels' = [labels EXCEPT ![call[c].key][call[c].label] = call[c].version]
          BY <4>1 DEF UpsertLabel, At
        <5>2. PointerOf(c) \in InFlightPointers(Clients)
          BY <5>1 DEF InFlightPointers
        <5> QED
          BY <5>1, <5>2 DEF PointerOf
      <4>2. ASSUME NEW c \in Clients, BeginCall(c) \/ (Continue(c) /\ ~ UpsertLabel(c))
            PROVE  labels' = labels
        BY <4>2, BeginFrame, ContinueFrame
      <4>3. Fault \/ LateInsert \/ UNCHANGED vars => labels' = labels
        BY DEF Fault, AwaitRejects, Crash, LateInsert, vars
      <4>4. LateUpsert => \E x \in latePointers :
                            labels' = [labels EXCEPT ![x.key][x.label] = x.version]
        BY DEF LateUpsert
      <4> QED
        BY <2>2, <4>1, <4>2, <4>3, <4>4 DEF Next, Rest
    <3>2. k = x.key /\ labels'[k][l] = x.version
      BY <2>2, <3>1 DEF IInv, TInv, TypeOK
    <3> QED
      BY <1>2, <3>2
  <2> QED
    BY <2>1, <2>2
<1> QED
  BY <1>2, <1>3, <1>4

\* A cache gains only what was just loaded.
LEMMA CacheStaysCoherent ==
  ASSUME IInv, AInv, [Next]_vars
  PROVE  CacheCoherent'
<1>0. versions \subseteq versions'
  BY GrowsOnly
<1>1. ASSUME NEW p \in Procs, NEW e \in cache'[p]
      PROVE  \/ e \in cache[p]
             \/ /\ e.value \in Readable[p]
                /\ \E r \in versions : /\ r.key = e.key /\ r.version = e.version
                                       /\ r.value = e.value
  <2>0. cache \in [Procs -> SUBSET Resolved]
    BY DEF IInv, TInv, TypeOK
  <2>1. ASSUME NEW c \in Clients, ReadVersion(c)
        PROVE  \/ e \in cache[p]
               \/ /\ e.value \in Readable[p]
                  /\ \E r \in versions : /\ r.key = e.key /\ r.version = e.version
                                         /\ r.value = e.value
    <3> DEFINE q == ProcOf[c]
               cl == call[c]
               x == [key |-> cl.key, version |-> cl.version,
                     value |-> Row(cl.key, cl.version).value]
    <3>1. \/ cache' = cache
          \/ Loads(q, cl.key, cl.version) /\ cache' = [cache EXCEPT ![q] = @ \cup {x}]
      BY <2>1 DEF ReadVersion
    <3>2. CASE e \notin cache[p]
      <4>1. Loads(q, cl.key, cl.version) /\ p = q /\ e = x
        BY <2>0, <3>1, <3>2
      <4>2. /\ Row(cl.key, cl.version) \in versions
            /\ Row(cl.key, cl.version).key = cl.key
            /\ Row(cl.key, cl.version).version = cl.version
            /\ Row(cl.key, cl.version).value \in Readable[q]
        BY <4>1, RowIsStored DEF Loads
      <4> QED
        BY <4>1, <4>2
    <3> QED
      BY <3>2
  <2>2. ASSUME NEW c \in Clients, BeginCall(c) PROVE cache' = cache
    BY <2>2, BeginFrame
  <2>3. ASSUME NEW c \in Clients, Continue(c), ~ ReadVersion(c) PROVE cache' = cache
    BY <2>3
    DEF Continue, ReadLabel, ReadMax, InsertVersion, Load, RunGate, UpsertLabel,
        EmitAccepted, EnsureIndexes, DefaultsDone, SeedProbe, SyncCompare,
        SyncCompareVersion, VetDefault, DistinctKeys, ListLabel, ListRows, Move
  <2>4. ASSUME NEW q \in Procs, Crash(q) PROVE e \in cache[p]
    BY <2>0, <2>4 DEF Crash
  <2>5. (\E c \in Clients : AwaitRejects(c)) \/ LateInsert \/ LateUpsert
          \/ UNCHANGED vars => cache' = cache
    BY DEF AwaitRejects, LateInsert, LateUpsert, vars
  <2> QED
    BY <2>1, <2>2, <2>3, <2>4, <2>5 DEF Next, Fault, Rest
<1> QED
  BY <1>0, <1>1 DEF AInv, CacheCoherent

LEMMA InitAInv == Init => AInv
<1> SUFFICES ASSUME Init PROVE AInv
  OBVIOUS
<1>1. Fresh(NoCall)
  BY DEF Fresh, NoCall
<1>2. \A c \in Clients : Agrees(versions, c, call[c])
  BY <1>1, FreshAgrees DEF Init
<1> QED
  BY <1>2 DEF Init, AInv, CacheCoherent

LEMMA StepAInv == IInv /\ AInv /\ [Next]_vars => AInv'
<1> SUFFICES ASSUME IInv, AInv, [Next]_vars PROVE AInv'
  OBVIOUS
<1>1. Gated' <=> Gated
  BY DEF Gated
<1>2. \A c \in Clients : Agrees(versions, c, call[c])'
  BY CallsAgree
<1> QED
  BY <1>1, <1>2, LiveStaysVetted, CacheStaysCoherent DEF AInv

-----------------------------------------------------------------------------
\* The theorems.

\* What calls remember and what is stored agree throughout, in every process
\* and whatever is lost, late or started over.
THEOREM Agreement == Spec => []AInv
<1> QED
  BY InductiveInvariant, InitAInv, StepAInv, PTL DEF Spec

\* What a process has cached for a version is what is stored for it, although
\* nothing ever invalidates the cache.
THEOREM CachesStayCoherent == Spec => []CacheCoherent
<1>1. AInv => CacheCoherent
  BY DEF AInv
<1> QED
  BY <1>1, Agreement, PTL

\* An addVersion or a revert that returned a version owns the row of that
\* number, whoever else was writing and however often it retried.
THEOREM ReturnedVersionsAreOwned == Spec => []ReturnedVersionIsOwn
<1>1. AInv => ReturnedVersionIsOwn
  <2> SUFFICES ASSUME AInv, NEW c \in Clients,
                      call[c].op \in {"add", "revert"}, call[c].outcome = "ok"
               PROVE  RowOf(c) \in versions
    BY DEF ReturnedVersionIsOwn
  <2>1. RowFor(c, call[c]) \in versions
    BY DEF AInv, Agrees, Owns
  <2> QED
    BY <2>1 DEF RowFor, RowOf
<1> QED
  BY <1>1, Agreement, PTL

\* Where every caller gates, only what passed the gate or what a kill switch
\* wrote is ever live.
THEOREM LiveIsVetted == Spec => []OnlyVettedLive
<1>1. AInv => OnlyVettedLive
  BY DEF AInv, OnlyVettedLive, Vetted, Gated
<1> QED
  BY <1>1, Agreement, PTL

\* A listing that names an active version lists it, in a history without holes.
THEOREM ListingsAreWhole == Spec => []ListingShowsActive
<1>1. AInv => ListingShowsActive
  BY DEF AInv, ListingShowsActive, Agrees, Lists, Whole
<1> QED
  BY <1>1, Agreement, PTL

=============================================================================
