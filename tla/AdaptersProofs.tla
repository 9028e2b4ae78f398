--------------------------- MODULE AdaptersProofs ---------------------------
(***************************************************************************)
(* Theorems about Adapters for every set of engines, keys, labels, calls,  *)
(* clients and processes, and every bound.                                 *)
(***************************************************************************)
EXTENDS Adapters, WellFoundedInduction, TLAPS

-----------------------------------------------------------------------------
\* The inductive invariant.

\* The rows answered before a call that are of its key.
Mine(bef, cl) == {r \in bef : r.key = cl.key}

\* What the record cl says is so, given the rows, the tables and what was
\* answered before the call: nothing here is undone by a later step.
Facts(rws, tables, bef, cl) ==
  /\ cl.pc # "done" => cl.outcome = "pending" /\ cl.found = {}
  /\ cl.pc = "statement" /\ engine = "postgres" => tables = Tables
  /\ cl.pc = "mget" =>
       /\ cl.op = "listVersionsDesc"
       /\ \A r \in Mine(bef, cl) : r.number \in cl.todo
  /\ cl.pc = "labels" => cl.op = "init"
  /\ cl.op = "insertVersion" /\ cl.outcome = "conflict" =>
       \E r \in rws : r.key = cl.key /\ r.number = cl.number /\ r.by # cl.id
  /\ cl.outcome # "noTable"
  /\ cl.outcome = "ok" =>
       /\ cl.op = "getVersion" => {r \in Mine(bef, cl) : r.number = cl.number} \subseteq cl.found
       /\ cl.op = "listVersionsDesc" => Mine(bef, cl) \subseteq cl.found /\ cl.found \subseteq rws
       /\ cl.op = "distinctKeys" => {r.key : r \in bef} \subseteq cl.keys
       /\ cl.op = "maxVersion" => \A r \in Mine(bef, cl) : \E n \in cl.todo : r.number <= n

\* A call in flight has a number of its own, and has stored nothing yet.
InFlight(c) == call[c].pc # "done"

Numbered ==
  /\ \A c \in Clients : InFlight(c) =>
       /\ call[c].id \in 1 .. begun
       /\ \A r \in rows : r.by # call[c].id
  /\ \A c, d \in Clients : InFlight(c) /\ InFlight(d) /\ c # d => call[c].id # call[d].id
  /\ \A r \in rows : r.by \in 1 .. begun

\* What exists, as far as a promise or an engine says; only Postgres has promises.
TablesExist ==
  /\ engine = "sqlite" => keyed = Tables
  /\ \A p \in Procs : /\ ready[p] # "none" => engine = "postgres"
                      /\ ready[p] = "ok" => keyed = Tables
                      /\ ready[p] = "labels" => "versions" \in keyed

CallsFit == \A c \in Clients : Facts(rows, keyed, before[c], call[c])

AInv ==
  /\ TypeOK /\ Numbered /\ TablesExist /\ OneWinner
  /\ \A c \in Clients : before[c] \subseteq acked
  /\ CallsFit

-----------------------------------------------------------------------------

\* Facts stay while rows and tables are added.
LEMMA FactsStay ==
  ASSUME NEW rws, NEW rws2, NEW tables, NEW tables2, NEW bef, NEW cl,
         rws \subseteq rws2, tables \subseteq tables2, tables2 \subseteq Tables,
         Facts(rws, tables, bef, cl)
  PROVE  Facts(rws2, tables2, bef, cl)
  BY DEF Facts

\* The record a call starts with.
LEMMA NewCall ==
  ASSUME TypeOK, NEW q \in Requests, NEW i \in 0 .. MaxCalls
  PROVE  /\ CallOf(q, i) \in Calls /\ Finish(CallOf(q, i), "none") \in Calls
         /\ CallOf(q, i).pc \in {"ready", "statement"}
         /\ CallOf(q, i).pc = "statement" => engine # "postgres"
         /\ CallOf(q, i).id = i /\ CallOf(q, i).outcome = "pending"
         /\ CallOf(q, i).seen = NoPointer /\ CallOf(q, i).found = {}
<1>1. q \in [op : Methods, key : Keys, number : Numbers, label : Labels]
  BY AdaptersAssumption
<1>2. FirstPoint(q.op) \in {"ready", "statement"}
      /\ (FirstPoint(q.op) = "statement" => engine # "postgres")
  BY DEF FirstPoint
<1>3. CallOf(q, i) \in Calls
  BY <1>1, <1>2 DEF CallOf, Calls
<1>4. Finish(CallOf(q, i), "none") \in Calls
  BY <1>3 DEF Finish, Calls
<1> QED BY <1>2, <1>3, <1>4 DEF CallOf

\* A finished record.
LEMMA FinishIsCall ==
  ASSUME NEW cl \in Calls, NEW o \in {"ok", "conflict", "rejected", "noTable"}
  PROVE  /\ Finish(cl, o) \in Calls
         /\ Finish(cl, o).pc = "done" /\ Finish(cl, o).outcome = o
         /\ Finish(cl, o).op = cl.op /\ Finish(cl, o).id = cl.id
         /\ Finish(cl, o).key = cl.key /\ Finish(cl, o).label = cl.label
         /\ Finish(cl, o).number = cl.number /\ Finish(cl, o).seen = cl.seen
  BY DEF Finish, Calls

LEMMA InitAInv == ASSUME Init PROVE AInv
<1> DEFINE q == CHOOSE q \in Requests : TRUE
           cl == Finish(CallOf(q, 0), "none")
<1>1. q \in Requests
  BY AdaptersAssumption
<1>2. cl \in Calls /\ cl.pc = "done" /\ cl.outcome = "none" /\ cl.seen = NoPointer
  <2>1. CallOf(q, 0) \in Calls /\ CallOf(q, 0).seen = NoPointer
    BY <1>1, AdaptersAssumption DEF CallOf, Calls, FirstPoint
  <2> QED BY <2>1 DEF Finish, Calls
<1>3. /\ engine \in Engines /\ keyed = (IF engine = "sqlite" THEN Tables ELSE {})
      /\ rows = {} /\ zv = {} /\ keyset = {}
      /\ pointer = [p \in Keys \X Labels |-> NoPointer]
      /\ ready = [p \in Procs |-> "none"]
      /\ call = [c \in Clients |-> cl]
      /\ acked = {} /\ before = [c \in Clients |-> {}]
      /\ begun = 0 /\ faults = 0
  BY DEF Init
<1> HIDE DEF cl, q
<1>4. TypeOK
  BY <1>2, <1>3, AdaptersAssumption DEF TypeOK, Tables, Rows, KeysOfRows
<1>5. Numbered /\ TablesExist /\ OneWinner /\ \A c \in Clients : before[c] \subseteq acked
  BY <1>2, <1>3 DEF Numbered, InFlight, TablesExist, OneWinner, Duplicates
<1>7. CallsFit
  BY <1>2, <1>3 DEF CallsFit, Facts
<1> QED BY <1>4, <1>5, <1>7 DEF AInv

-----------------------------------------------------------------------------
\* What steps keep.

\* What the invariant says of one call.
LEMMA CallFits ==
  ASSUME AInv, NEW c \in Clients
  PROVE  /\ call[c] \in Calls /\ ProcOf[c] \in Procs
         /\ call[c].key \in Keys /\ call[c].label \in Labels
         /\ Facts(rows, keyed, before[c], call[c])
         /\ before[c] \subseteq acked /\ acked \subseteq rows
         /\ InFlight(c) => call[c].id \in 1 .. MaxCalls
<1>1. begun \in 0 .. MaxCalls
  BY DEF AInv, TypeOK
<1> QED BY <1>1, AdaptersAssumption DEF AInv, TypeOK, CallsFit, Calls, OneWinner, Numbered

\* A step of one call that adds tables at most, where the new record is true.
LEMMA StepKeeps ==
  ASSUME AInv, NEW c \in Clients, NEW cl \in Calls, InFlight(c),
         call' = [call EXCEPT ![c] = cl],
         cl.id = call[c].id, Facts(rows, keyed', before[c], cl),
         keyed \subseteq keyed', keyed' \subseteq Tables,
         "versions" \in keyed' => "versions" \in keyed \/ ~Duplicates,
         UNCHANGED <<engine, rows, zv, keyset, pointer, ready, acked, before, begun>>,
         faults' \in 0 .. MaxFaults
  PROVE  AInv'
<1>1. TypeOK'
  BY DEF AInv, TypeOK, KeysOfRows
<1>2. Numbered'
  <2>1. ASSUME NEW d \in Clients, call'[d].pc # "done"
        PROVE  call[d].pc # "done" /\ call'[d].id = call[d].id
    BY <2>1 DEF AInv, TypeOK, InFlight
  <2> QED BY <2>1 DEF AInv, Numbered, InFlight
<1>3. TablesExist'
  BY DEF AInv, TablesExist
<1>4. OneWinner'
  BY DEF AInv, OneWinner, Duplicates
<1>6. ASSUME NEW d \in Clients PROVE Facts(rows, keyed', before[d], call'[d])
  <2>1. CASE d = c
    BY <2>1 DEF AInv, TypeOK
  <2>2. CASE d # c
    <3>1. call'[d] = call[d]
      BY <2>2 DEF AInv, TypeOK
    <3> QED BY <3>1, CallFits, FactsStay
  <2> QED BY <2>1, <2>2
<1>7. CallsFit'
  BY <1>6 DEF CallsFit, Facts
<1>8. (\A d \in Clients : before[d] \subseteq acked)'
  BY DEF AInv
<1> QED BY <1>1, <1>2, <1>3, <1>4, <1>7, <1>8 DEF AInv

\* No statement meets a table that is not there.
LEMMA NotMissing ==
  ASSUME AInv, NEW c \in Clients, call[c].pc = "statement"
  PROVE  ~Missing(call[c])
<1>1. engine = "postgres" => keyed = Tables
  BY CallFits DEF Facts
<1>2. engine = "sqlite" => keyed = Tables
  BY DEF AInv, TablesExist
<1> QED BY <1>1, <1>2 DEF Missing, TableOf, Tables

\* A step that leaves the tables alone.
LEMMA PlainStepKeeps ==
  ASSUME AInv, NEW c \in Clients, NEW cl \in Calls, NEW pc, pc # "done",
         Step(c, pc, cl), UNCHANGED <<data, acked>>, faults' \in 0 .. MaxFaults,
         cl.id = call[c].id, Facts(rows, keyed, before[c], cl)
  PROVE  AInv'
<1>1. /\ InFlight(c) /\ call' = [call EXCEPT ![c] = cl] /\ keyed' = keyed
      /\ UNCHANGED <<engine, rows, zv, keyset, pointer, ready, acked, before, begun>>
  BY DEF Step, InFlight, data
<1>2. keyed \subseteq Tables
  BY DEF AInv, TypeOK
<1> QED BY <1>1, <1>2, StepKeeps

\* A call that rejects says nothing.
LEMMA RejectedFits ==
  ASSUME AInv, NEW c \in Clients, InFlight(c)
  PROVE  /\ Finish(call[c], "rejected") \in Calls
         /\ Finish(call[c], "rejected").id = call[c].id
         /\ Finish(call[c], "rejected").pc = "done"
         /\ \A rws, tables, bef : Facts(rws, tables, bef, Finish(call[c], "rejected"))
<1>1. call[c] \in Calls /\ Facts(rows, keyed, before[c], call[c])
  BY CallFits
<1> DEFINE cl == Finish(call[c], "rejected")
<1>2. /\ cl \in Calls /\ cl.pc = "done" /\ cl.outcome = "rejected" /\ cl.op = call[c].op
      /\ cl.id = call[c].id /\ cl.key = call[c].key /\ cl.label = call[c].label
      /\ cl.seen = call[c].seen
  BY <1>1, FinishIsCall
<1> HIDE DEF cl
<1>3. ASSUME NEW rws, NEW tables, NEW bef PROVE Facts(rws, tables, bef, cl)
  BY <1>1, <1>2 DEF Facts
<1> QED BY <1>2, <1>3 DEF cl

LEMMA AwaitReadyKeeps == ASSUME AInv, NEW c \in Clients, AwaitReady(c) PROVE AInv'
<1> DEFINE p == ProcOf[c]
<1>1. /\ call[c] \in Calls /\ p \in Procs /\ call[c].pc = "ready" /\ InFlight(c)
      /\ Facts(rows, keyed, before[c], call[c])
      /\ UNCHANGED <<data, acked, faults>>
  BY CallFits DEF AwaitReady, Step, InFlight
<1>2. faults' \in 0 .. MaxFaults
  BY <1>1 DEF AInv, TypeOK
<1>3. CASE ready[p] # "ok"
  <2>1. Step(c, "ready", Finish(call[c], "rejected"))
    BY <1>3 DEF AwaitReady
  <2> QED BY <1>1, <1>2, <2>1, RejectedFits, PlainStepKeeps
<1>4. CASE ready[p] = "ok" /\ call[c].op = "init"
  <2> DEFINE cl == Finish(call[c], "ok")
  <2>1. /\ cl \in Calls /\ cl.pc = "done" /\ cl.op = "init" /\ cl.outcome = "ok"
        /\ cl.id = call[c].id
    BY <1>1, <1>4, FinishIsCall
  <2>2. Step(c, "ready", cl)
    BY <1>4 DEF AwaitReady
  <2> HIDE DEF cl
  <2>3. Facts(rows, keyed, before[c], cl)
    BY <2>1 DEF Facts
  <2> QED BY <1>1, <1>2, <2>1, <2>2, <2>3, PlainStepKeeps
<1>5. CASE ready[p] = "ok" /\ call[c].op # "init"
  <2> DEFINE cl == [call[c] EXCEPT !.pc = "statement"]
  <2>1. /\ cl \in Calls /\ cl.pc = "statement" /\ cl.outcome = call[c].outcome
        /\ cl.op = call[c].op /\ cl.id = call[c].id /\ cl.key = call[c].key
        /\ cl.label = call[c].label /\ cl.seen = call[c].seen /\ cl.found = call[c].found
    BY <1>1 DEF Calls
  <2>2. Step(c, "ready", cl)
    BY <1>5 DEF AwaitReady
  <2>3. keyed = Tables
    BY <1>1, <1>5 DEF AInv, TablesExist
  <2> HIDE DEF cl
  <2>4. Facts(rows, keyed, before[c], cl)
    BY <1>1, <2>1, <2>3 DEF Facts
  <2> QED BY <1>1, <1>2, <2>1, <2>2, <2>4, PlainStepKeeps
<1> QED BY <1>3, <1>4, <1>5

LEMMA InitStoreKeeps == ASSUME AInv, NEW c \in Clients, InitStore(c) PROVE AInv'
<1>1. /\ call[c] \in Calls /\ call[c].op = "init" /\ InFlight(c)
      /\ Facts(rows, keyed, before[c], call[c]) /\ keyed \subseteq Tables
      /\ faults \in 0 .. MaxFaults
      /\ UNCHANGED <<engine, ready, before, begun, rows, zv, keyset, pointer, acked, faults>>
  BY CallFits DEF InitStore, MakeIndex, Step, InFlight, AInv, TypeOK, data
<1> DEFINE fin == Finish(call[c], "ok")
           next == [call[c] EXCEPT !.pc = "labels"]
<1>2. /\ fin \in Calls /\ fin.pc = "done" /\ fin.op = "init" /\ fin.outcome = "ok"
      /\ fin.id = call[c].id
  BY <1>1, FinishIsCall
<1>3. /\ next \in Calls /\ next.pc = "labels" /\ next.op = "init"
      /\ next.outcome = call[c].outcome /\ next.id = call[c].id
      /\ next.found = call[c].found
  BY <1>1 DEF Calls
<1> HIDE DEF fin, next
<1>4. \A tables : Facts(rows, tables, before[c], fin)
  BY <1>2 DEF Facts
<1>5. \A tables : Facts(rows, tables, before[c], next)
  BY <1>1, <1>3 DEF Facts, InFlight
<1>6. CASE call' = [call EXCEPT ![c] = fin] /\ keyed' = keyed
  BY <1>1, <1>2, <1>4, <1>6, StepKeeps
<1>7. CASE call' = [call EXCEPT ![c] = Finish(call[c], "rejected")] /\ keyed' = keyed
  BY <1>1, <1>7, RejectedFits, StepKeeps
<1>8. CASE call' = [call EXCEPT ![c] = next] /\ MakeIndex(call[c])
  BY <1>1, <1>3, <1>5, <1>8, StepKeeps DEF Tables, MakeIndex
<1>9. CASE call' = [call EXCEPT ![c] = fin] /\ MakeIndex(call[c])
  BY <1>1, <1>2, <1>4, <1>9, StepKeeps DEF Tables, MakeIndex
<1> QED BY <1>6, <1>7, <1>8, <1>9 DEF InitStore, Step, fin, next, data

-----------------------------------------------------------------------------
\* Reads.

\* A read answers with what is true of its record.
LEMMA AnswerKeeps ==
  ASSUME AInv, NEW c \in Clients, NEW op, NEW cl \in Calls, Answer(c, op, cl),
         cl.id = call[c].id, Facts(rows, keyed, before[c], cl)
  PROVE  AInv'
<1>1. call[c].pc = "statement" /\ UNCHANGED <<data, acked, faults>>
  BY DEF Answer, Ask, Step
<1>2. Step(c, "statement", cl)
  BY <1>1, NotMissing DEF Answer, Ask
<1>3. faults' \in 0 .. MaxFaults
  BY <1>1 DEF AInv, TypeOK
<1> QED BY <1>1, <1>2, <1>3, PlainStepKeeps

\* A nonempty set of version numbers has a greatest one.
LEMMA GreatestExists ==
  ASSUME NEW S \in SUBSET Numbers, S # {}
  PROVE  \E n \in S : \A m \in S : m <= n
<1> DEFINE T == {MaxVersion - n : n \in S}
<1>1. T \subseteq Nat /\ T # {}
  <2>1. ASSUME NEW n \in S PROVE MaxVersion - n \in Nat
    BY AdaptersAssumption DEF Numbers
  <2> QED BY <2>1
<1>2. PICK x \in T : \A y \in T : ~(<<y, x>> \in OpToRel(<, Nat))
  BY <1>1, NatLessThanWellFounded, WFMin
<1>3. \A y \in T : ~(y < x)
  BY <1>1, <1>2 DEF OpToRel
<1>4. PICK n \in S : x = MaxVersion - n
  OBVIOUS
<1>5. ASSUME NEW m \in S PROVE m <= n
  <2>1. ~(MaxVersion - m < MaxVersion - n)
    BY <1>3, <1>4
  <2> QED BY <2>1, AdaptersAssumption DEF Numbers
<1> QED BY <1>5

\* A key that has a row has a greatest number, at least that row's.
LEMMA GreatestIsLast ==
  ASSUME AInv, NEW k \in Keys
  PROVE  /\ Greatest(k) \subseteq Numbers
         /\ \A r \in rows : r.key = k => \E n \in Greatest(k) : r.number <= n
<1> DEFINE numbers == {r.number : r \in VersionsOf(k)}
<1>1. rows \subseteq Rows /\ zv = (IF engine = "redis" THEN {<<r.key, r.number>> : r \in rows} ELSE {})
  BY DEF AInv, TypeOK
<1>2. Greatest(k) = {n \in numbers : \A m \in numbers : m <= n}
  <2>1. CASE engine = "redis"
    <3>1. ASSUME NEW v \in zv, v[1] = k PROVE v[2] \in numbers
      BY <1>1, <2>1, <3>1 DEF VersionsOf
    <3>2. ASSUME NEW r \in VersionsOf(k)
          PROVE  <<k, r.number>> \in zv
      BY <1>1, <2>1 DEF VersionsOf
    <3>3. {v[2] : v \in {v \in zv : v[1] = k}} = numbers
      BY <3>1, <3>2
    <3> QED BY <2>1, <3>3 DEF Greatest
  <2>2. CASE engine # "redis"
    BY <2>2 DEF Greatest
  <2> QED BY <2>1, <2>2
<1>3. numbers \subseteq Numbers
  BY <1>1 DEF VersionsOf, Rows
<1>4. ASSUME NEW r \in rows, r.key = k PROVE \E n \in Greatest(k) : r.number <= n
  <2>1. r.number \in numbers
    BY <1>4 DEF VersionsOf
  <2> HIDE DEF numbers
  <2>2. PICK n \in numbers : \A m \in numbers : m <= n
    BY <1>3, <2>1, GreatestExists
  <2> QED BY <1>2, <2>1, <2>2
<1> QED BY <1>2, <1>3, <1>4

LEMMA GetVersionKeeps == ASSUME AInv, NEW c \in Clients, GetVersion(c) PROVE AInv'
<1> DEFINE answer == Held(call[c].key, call[c].number)
           cl == [Finish(call[c], "ok") EXCEPT !.found = answer]
<1>1. /\ call[c] \in Calls /\ call[c].op = "getVersion" /\ call[c].pc = "statement"
      /\ call[c].key \in Keys /\ call[c].label \in Labels
      /\ Facts(rows, keyed, before[c], call[c])
      /\ before[c] \subseteq acked /\ acked \subseteq rows
      /\ Answer(c, "getVersion", cl)
  BY CallFits DEF GetVersion, Answer, Ask, Step
<1>2. answer \in SUBSET Rows
  BY <1>1 DEF AInv, TypeOK, Held
<1>3. /\ cl \in Calls /\ cl.pc = "done" /\ cl.op = "getVersion" /\ cl.outcome = "ok"
      /\ cl.id = call[c].id /\ cl.key = call[c].key /\ cl.label = call[c].label
      /\ cl.number = call[c].number /\ cl.found = answer
      /\ cl.seen = call[c].seen
  BY <1>1, <1>2 DEF Finish, Calls
<1> HIDE DEF cl
<1>4. Facts(rows, keyed, before[c], cl)
  <2>1. {r \in Mine(before[c], cl) : r.number = cl.number} \subseteq cl.found
    BY <1>1, <1>3 DEF Mine, Held
  <2> QED BY <1>1, <1>3, <2>1 DEF Facts
<1> QED BY <1>1, <1>3, <1>4, AnswerKeeps

LEMMA GetMaxVersionKeeps == ASSUME AInv, NEW c \in Clients, GetMaxVersion(c) PROVE AInv'
<1> DEFINE answer == Greatest(call[c].key)
           cl == [Finish(call[c], "ok") EXCEPT !.todo = answer]
<1>1. /\ call[c] \in Calls /\ call[c].op = "maxVersion" /\ call[c].pc = "statement"
      /\ call[c].key \in Keys /\ call[c].label \in Labels
      /\ Facts(rows, keyed, before[c], call[c])
      /\ before[c] \subseteq acked /\ acked \subseteq rows
      /\ Answer(c, "maxVersion", cl)
  BY CallFits DEF GetMaxVersion, Answer, Ask, Step
<1>2. answer \in SUBSET Numbers
  BY <1>1, GreatestIsLast
<1>3. /\ cl \in Calls /\ cl.pc = "done" /\ cl.op = "maxVersion" /\ cl.outcome = "ok"
      /\ cl.id = call[c].id /\ cl.key = call[c].key /\ cl.label = call[c].label
      /\ cl.number = call[c].number /\ cl.todo = answer
      /\ cl.seen = call[c].seen
  BY <1>1, <1>2 DEF Finish, Calls
<1> HIDE DEF cl, answer
<1>4. Facts(rows, keyed, before[c], cl)
  <2>1. \A r \in Mine(before[c], cl) : \E n \in cl.todo : r.number <= n
    BY <1>1, <1>3, GreatestIsLast DEF Mine, answer
  <2> QED BY <1>1, <1>3, <2>1 DEF Facts
<1> QED BY <1>1, <1>3, <1>4, AnswerKeeps

LEMMA DistinctKeysKeeps == ASSUME AInv, NEW c \in Clients, DistinctKeys(c) PROVE AInv'
<1> DEFINE answer == IF engine = "redis" THEN keyset ELSE KeysOfRows
           cl == [Finish(call[c], "ok") EXCEPT !.keys = answer]
<1>1. /\ call[c] \in Calls /\ call[c].op = "distinctKeys" /\ call[c].pc = "statement"
      /\ call[c].key \in Keys /\ call[c].label \in Labels
      /\ Facts(rows, keyed, before[c], call[c])
      /\ before[c] \subseteq acked /\ acked \subseteq rows
      /\ Answer(c, "distinctKeys", cl)
  BY CallFits DEF DistinctKeys, Answer, Ask, Step
<1>2. answer \in SUBSET Keys
  BY <1>1 DEF AInv, TypeOK, KeysOfRows, Rows
<1>3. /\ cl \in Calls /\ cl.pc = "done" /\ cl.op = "distinctKeys" /\ cl.outcome = "ok"
      /\ cl.id = call[c].id /\ cl.key = call[c].key /\ cl.label = call[c].label
      /\ cl.number = call[c].number /\ cl.keys = answer
      /\ cl.seen = call[c].seen
  BY <1>1, <1>2 DEF Finish, Calls
<1> HIDE DEF cl
<1>4. Facts(rows, keyed, before[c], cl)
  <2>1. answer = KeysOfRows
    BY DEF AInv, TypeOK
  <2>2. {r.key : r \in before[c]} \subseteq cl.keys
    BY <1>1, <1>3, <2>1 DEF KeysOfRows
  <2> QED BY <1>1, <1>3, <2>2 DEF Facts
<1> QED BY <1>1, <1>3, <1>4, AnswerKeeps

LEMMA GetLabelKeeps == ASSUME AInv, NEW c \in Clients, GetLabel(c) PROVE AInv'
<1> DEFINE answer == pointer[<<call[c].key, call[c].label>>]
           cl == [Finish(call[c], "ok") EXCEPT !.seen = answer]
<1>1. /\ call[c] \in Calls /\ call[c].op = "getLabel" /\ call[c].pc = "statement"
      /\ call[c].key \in Keys /\ call[c].label \in Labels
      /\ Facts(rows, keyed, before[c], call[c])
      /\ before[c] \subseteq acked /\ acked \subseteq rows
      /\ Answer(c, "getLabel", cl)
  BY CallFits DEF GetLabel, Answer, Ask, Step
<1>2. answer \in Pointers \cup {NoPointer}
  BY <1>1 DEF AInv, TypeOK
<1>3. /\ cl \in Calls /\ cl.pc = "done" /\ cl.op = "getLabel" /\ cl.outcome = "ok"
      /\ cl.id = call[c].id /\ cl.key = call[c].key /\ cl.label = call[c].label
      /\ cl.number = call[c].number /\ cl.seen = answer
      
  BY <1>1, <1>2 DEF Finish, Calls
<1> HIDE DEF cl
<1>4. Facts(rows, keyed, before[c], cl)
  BY <1>1, <1>3 DEF Facts
<1> QED BY <1>1, <1>3, <1>4, AnswerKeeps

LEMMA ListVersionsDescKeeps == ASSUME AInv, NEW c \in Clients, ListVersionsDesc(c) PROVE AInv'
<1> DEFINE answer == VersionsOf(call[c].key)
           cl == [Finish(call[c], "ok") EXCEPT !.found = answer]
<1>1. /\ call[c] \in Calls /\ call[c].op = "listVersionsDesc" /\ call[c].pc = "statement"
      /\ call[c].key \in Keys /\ call[c].label \in Labels
      /\ Facts(rows, keyed, before[c], call[c])
      /\ before[c] \subseteq acked /\ acked \subseteq rows
      /\ Answer(c, "listVersionsDesc", cl)
  BY CallFits DEF ListVersionsDesc, Answer, Ask, Step
<1>2. answer \in SUBSET Rows
  BY <1>1 DEF AInv, TypeOK, VersionsOf
<1>3. /\ cl \in Calls /\ cl.pc = "done" /\ cl.op = "listVersionsDesc" /\ cl.outcome = "ok"
      /\ cl.id = call[c].id /\ cl.key = call[c].key /\ cl.label = call[c].label
      /\ cl.number = call[c].number /\ cl.found = answer
      /\ cl.seen = call[c].seen
  BY <1>1, <1>2 DEF Finish, Calls
<1> HIDE DEF cl
<1>4. Facts(rows, keyed, before[c], cl)
  <2>1. Mine(before[c], cl) \subseteq cl.found /\ cl.found \subseteq rows
    BY <1>1, <1>3 DEF Mine, VersionsOf
  <2> QED BY <1>1, <1>3, <2>1 DEF Facts
<1> QED BY <1>1, <1>3, <1>4, AnswerKeeps

LEMMA ZRevRangeKeeps == ASSUME AInv, NEW c \in Clients, ZRevRange(c) PROVE AInv'
<1> DEFINE members == {n \in Numbers : <<call[c].key, n>> \in zv}
           ask == [call[c] EXCEPT !.pc = "mget", !.todo = members]
           fin == Finish(call[c], "ok")
<1>1. /\ call[c] \in Calls /\ call[c].op = "listVersionsDesc" /\ call[c].pc = "statement"
      /\ engine = "redis" /\ rows \subseteq Rows
      /\ zv = {<<r.key, r.number>> : r \in rows}
      /\ Facts(rows, keyed, before[c], call[c])
      /\ before[c] \subseteq acked /\ acked \subseteq rows
      /\ Answer(c, "listVersionsDesc", IF members = {} THEN fin ELSE ask)
  BY CallFits DEF ZRevRange, Answer, Ask, Step, AInv, TypeOK
<1>2. \A r \in rows : r.key = call[c].key => r.number \in members
  BY <1>1 DEF Rows
<1>3. /\ ask \in Calls /\ ask.pc = "mget" /\ ask.op = call[c].op /\ ask.id = call[c].id
      /\ ask.outcome = call[c].outcome /\ ask.key = call[c].key /\ ask.todo = members
      /\ ask.found = call[c].found
  BY <1>1 DEF Calls
<1>4. /\ fin \in Calls /\ fin.pc = "done" /\ fin.op = call[c].op /\ fin.id = call[c].id
      /\ fin.outcome = "ok" /\ fin.key = call[c].key /\ fin.found = call[c].found
  BY <1>1 DEF Finish, Calls
<1> HIDE DEF members, ask, fin
<1>5. CASE members # {}
  <2>1. \A r \in Mine(before[c], ask) : r.number \in ask.todo
    BY <1>1, <1>2, <1>3 DEF Mine
  <2>2. Facts(rows, keyed, before[c], ask)
    BY <1>1, <1>3, <2>1 DEF Facts
  <2> QED BY <1>1, <1>3, <1>5, <2>2, AnswerKeeps
<1>6. CASE members = {}
  <2>1. Mine(before[c], fin) = {}
    BY <1>1, <1>2, <1>4, <1>6 DEF Mine
  <2>2. fin.found = {}
    BY <1>1, <1>4 DEF Facts
  <2>3. Facts(rows, keyed, before[c], fin)
    BY <1>1, <1>4, <2>1, <2>2 DEF Facts
  <2> QED BY <1>1, <1>4, <1>6, <2>3, AnswerKeeps
<1> QED BY <1>5, <1>6

LEMMA MGetKeeps == ASSUME AInv, NEW c \in Clients, MGet(c) PROVE AInv'
<1> DEFINE answer == {r \in VersionsOf(call[c].key) : r.number \in call[c].todo}
           cl == [Finish(call[c], "ok") EXCEPT !.todo = {}, !.found = answer]
<1>1. /\ call[c] \in Calls /\ call[c].pc = "mget" /\ rows \subseteq Rows
      /\ Facts(rows, keyed, before[c], call[c])
      /\ before[c] \subseteq acked /\ acked \subseteq rows
      /\ Step(c, "mget", cl) /\ UNCHANGED <<data, acked, faults>>
      /\ faults \in 0 .. MaxFaults
  BY CallFits DEF MGet, Step, AInv, TypeOK
<1>2. answer \in SUBSET Rows
  BY <1>1 DEF VersionsOf
<1>3. /\ cl \in Calls /\ cl.pc = "done" /\ cl.op = call[c].op /\ cl.outcome = "ok"
      /\ cl.id = call[c].id /\ cl.key = call[c].key /\ cl.found = answer
  BY <1>1, <1>2 DEF Finish, Calls
<1>4. call[c].op = "listVersionsDesc" /\ \A r \in Mine(before[c], call[c]) : r.number \in call[c].todo
  BY <1>1 DEF Facts
<1>5. Mine(before[c], cl) \subseteq cl.found /\ cl.found \subseteq rows
  BY <1>1, <1>3, <1>4 DEF Mine, VersionsOf
<1> HIDE DEF cl
<1>6. Facts(rows, keyed, before[c], cl)
  BY <1>3, <1>4, <1>5 DEF Facts
<1> QED BY <1>1, <1>3, <1>6, PlainStepKeeps

-----------------------------------------------------------------------------
\* Writes.

\* What an insert that takes effect does to the rows.
LEMMA StoreAdds ==
  ASSUME AInv, NEW c \in Clients, call[c].pc = "statement", Store(call[c])
  PROVE  /\ ~Missing(call[c])
         /\ Refused(call[c]) => UNCHANGED data
         /\ ~Refused(call[c]) => rows' = rows \cup {RowOf(call[c])}
         /\ UNCHANGED <<keyed, pointer>>
         /\ RowOf(call[c]) \in Rows /\ RowOf(call[c]).by = call[c].id
         /\ RowOf(call[c]).key = call[c].key /\ RowOf(call[c]).number = call[c].number
         /\ zv' = (IF engine = "redis" THEN {<<r.key, r.number>> : r \in rows'} ELSE {})
         /\ keyset' = (IF engine = "redis" THEN {r.key : r \in rows'} ELSE {})
<1> DEFINE row == RowOf(call[c])
<1>1. /\ call[c] \in Calls /\ call[c].id \in 1 .. MaxCalls
      /\ zv = (IF engine = "redis" THEN {<<r.key, r.number>> : r \in rows} ELSE {})
      /\ keyset = (IF engine = "redis" THEN {r.key : r \in rows} ELSE {})
  BY CallFits DEF AInv, TypeOK, InFlight, KeysOfRows
<1>2. row \in Rows /\ row.by = call[c].id /\ row.key = call[c].key /\ row.number = call[c].number
  BY <1>1 DEF RowOf, Rows, Calls
<1>3. ~Missing(call[c])
  BY NotMissing
<1>4. CASE Refused(call[c])
  <2>1. UNCHANGED data
    BY <1>4 DEF Store
  <2> QED BY <1>1, <1>2, <1>3, <1>4, <2>1 DEF data
<1>5. CASE ~Refused(call[c])
  <2>1. rows' = rows \cup {row}
    BY <1>3, <1>5 DEF Store, Refused
  <2>2. /\ zv' = IF engine = "redis" THEN zv \cup {<<row.key, row.number>>} ELSE zv
        /\ keyset' = IF engine = "redis" THEN keyset \cup {row.key} ELSE keyset
        /\ UNCHANGED <<keyed, pointer>>
    BY <1>2, <1>3, <1>5 DEF Store
  <2> HIDE DEF row
  <2>3. /\ zv' = (IF engine = "redis" THEN {<<r.key, r.number>> : r \in rows'} ELSE {})
        /\ keyset' = (IF engine = "redis" THEN {r.key : r \in rows'} ELSE {})
    BY <1>1, <2>1, <2>2
  <2> QED BY <1>2, <1>3, <1>5, <2>1, <2>2, <2>3 DEF row
<1> QED BY <1>4, <1>5

\* A call that ends as its insert takes effect, answered or not.
LEMMA StoreKeeps ==
  ASSUME AInv, NEW c \in Clients, NEW cl \in Calls, call[c].pc = "statement", Store(call[c]),
         call' = [call EXCEPT ![c] = cl], cl.pc = "done",
         Facts(rows', keyed, before[c], cl),
         acked' = acked \/ (acked' = acked \cup {RowOf(call[c])} /\ ~Refused(call[c])),
         UNCHANGED <<engine, ready, before, begun>>, faults' \in 0 .. MaxFaults
  PROVE  AInv'
<1> DEFINE row == RowOf(call[c])
<1>1. /\ keyed' = keyed /\ pointer' = pointer /\ row \in Rows /\ row.by = call[c].id
      /\ row.key = call[c].key /\ row.number = call[c].number
      /\ zv' = (IF engine = "redis" THEN {<<r.key, r.number>> : r \in rows'} ELSE {})
      /\ keyset' = (IF engine = "redis" THEN {r.key : r \in rows'} ELSE {})
      /\ ~Missing(call[c])
      /\ \/ rows' = rows
         \/ rows' = rows \cup {row} /\ ~Refused(call[c])
  BY StoreAdds DEF data
<1>2. acked' = acked \/ (acked' = acked \cup {row} /\ rows' = rows \cup {row})
  BY StoreAdds
<1> HIDE DEF row
<1>3. TypeOK'
  BY <1>1, <1>2 DEF AInv, TypeOK, KeysOfRows
<1>4. Numbered'
  <2>1. ASSUME NEW d \in Clients, call'[d].pc # "done"
        PROVE  d # c /\ call[d].pc # "done" /\ call'[d].id = call[d].id
    BY <2>1 DEF AInv, TypeOK
  <2>2. InFlight(c) /\ row.by \in 1 .. begun
    BY <1>1 DEF InFlight, AInv, Numbered
  <2>3. ASSUME NEW d \in Clients, call'[d].pc # "done", NEW r \in rows'
        PROVE  r.by # call'[d].id
    BY <1>1, <2>1, <2>2, <2>3 DEF AInv, Numbered, InFlight
  <2>4. ASSUME NEW d \in Clients, call'[d].pc # "done" PROVE call'[d].id \in 1 .. begun'
    BY <2>1, <2>4 DEF AInv, Numbered, InFlight
  <2>5. ASSUME NEW d \in Clients, NEW e \in Clients, call'[d].pc # "done",
               call'[e].pc # "done", d # e
        PROVE  call'[d].id # call'[e].id
    BY <2>1, <2>5 DEF AInv, Numbered, InFlight
  <2>6. \A r \in rows' : r.by \in 1 .. begun'
    BY <1>1, <2>2 DEF AInv, Numbered
  <2> QED BY <2>3, <2>4, <2>5, <2>6 DEF Numbered, InFlight
<1>5. OneWinner'
  <2>1. acked' \subseteq rows'
    BY <1>1, <1>2 DEF AInv, OneWinner
  <2>2. ASSUME engine # "mongo" \/ "versions" \in keyed, rows' # rows
        PROVE  Held(call[c].key, call[c].number) = {}
    <3>1. engine \in {"redis", "postgres", "mongo", "sqlite"}
      BY AdaptersAssumption DEF AInv, TypeOK
    <3>2. engine = "redis" \/ "versions" \in keyed
      <4>1. CASE engine = "postgres"
        BY <4>1, CallFits DEF Facts, Tables
      <4>2. CASE engine = "sqlite"
        BY <4>2 DEF AInv, TablesExist, Tables
      <4> QED BY <2>2, <3>1, <4>1, <4>2
    <3> QED BY <1>1, <2>2, <3>2 DEF Refused
  <2>3. ASSUME engine # "mongo" \/ "versions" \in keyed
        PROVE  \A r, s \in rows' : r # s => r.key # s.key \/ r.number # s.number
    <3>1. \A r, s \in rows : r # s => r.key # s.key \/ r.number # s.number
      BY <2>3 DEF AInv, OneWinner, Duplicates
    <3>2. CASE rows' = rows
      BY <3>1, <3>2
    <3>3. CASE rows' # rows
      <4>1. \A r \in rows : r.key # row.key \/ r.number # row.number
        BY <1>1, <2>2, <2>3, <3>3 DEF Held
      <4> QED BY <1>1, <3>1, <4>1
    <3> QED BY <3>2, <3>3
  <2> QED BY <1>1, <2>1, <2>3 DEF OneWinner, Duplicates
<1>6. ASSUME NEW d \in Clients PROVE Facts(rows', keyed, before[d], call'[d])
  <2>1. CASE d = c
    BY <2>1 DEF AInv, TypeOK
  <2>2. CASE d # c
    <3>1. call'[d] = call[d] /\ rows \subseteq rows' /\ keyed \subseteq Tables
      BY <1>1, <2>2 DEF AInv, TypeOK
    <3> QED BY <3>1, CallFits, FactsStay
  <2> QED BY <2>1, <2>2
<1>7. CallsFit'
  BY <1>1, <1>6 DEF CallsFit, Facts
<1>8. TablesExist' /\ (\A d \in Clients : before[d] \subseteq acked)'
  BY <1>1, <1>2 DEF AInv, TablesExist
<1> QED BY <1>3, <1>4, <1>5, <1>7, <1>8 DEF AInv

LEMMA InsertKeeps == ASSUME AInv, NEW c \in Clients, Insert(c) PROVE AInv'
<1> DEFINE o == IF Refused(call[c]) THEN "conflict" ELSE "ok"
           cl == Finish(call[c], o)
<1>1. /\ call[c] \in Calls /\ call[c].pc = "statement" /\ call[c].op = "insertVersion"
      /\ Facts(rows, keyed, before[c], call[c])
      /\ InFlight(c) /\ Store(call[c]) /\ faults' = faults
  BY CallFits DEF Insert, Ask, Step, InFlight
<1>2. ~Missing(call[c])
  BY <1>1, NotMissing
<1>3. /\ call' = [call EXCEPT ![c] = cl]
      /\ acked' = (IF Refused(call[c]) THEN acked ELSE acked \cup {RowOf(call[c])})
      /\ UNCHANGED <<engine, ready, before, begun>>
  BY <1>2 DEF Insert, Ask, Step
<1>4. /\ cl \in Calls /\ cl.pc = "done" /\ cl.op = "insertVersion" /\ cl.outcome = o
      /\ cl.id = call[c].id /\ cl.key = call[c].key /\ cl.number = call[c].number
  BY <1>1, FinishIsCall
<1>5. Refused(call[c]) =>
        \E r \in rows : r.key = cl.key /\ r.number = cl.number /\ r.by # cl.id
  BY <1>1, <1>4 DEF Refused, Held, AInv, Numbered, InFlight
<1>6. rows \subseteq rows'
  BY <1>1, StoreAdds DEF data
<1> HIDE DEF cl
<1>7. Facts(rows', keyed, before[c], cl)
  BY <1>4, <1>5, <1>6 DEF Facts
<1>8. faults' \in 0 .. MaxFaults
  BY <1>1 DEF AInv, TypeOK
<1> QED BY <1>1, <1>3, <1>4, <1>7, <1>8, StoreKeeps

\* A pointer that is written is one.
LEMMA PointWrites ==
  ASSUME AInv, NEW c \in Clients, Point(call[c])
  PROVE  /\ UNCHANGED <<keyed, rows, zv, keyset>>
         /\ pointer' \in [Keys \X Labels -> Pointers \cup {NoPointer}]
<1> DEFINE new == [key |-> call[c].key, label |-> call[c].label, number |-> call[c].number]
<1>1. new \in Pointers
  BY CallFits DEF Calls, Pointers
<1>2. /\ pointer \in [Keys \X Labels -> Pointers \cup {NoPointer}]
      /\ UNCHANGED <<keyed, rows, zv, keyset>>
      /\ pointer' = [p \in DOMAIN pointer |->
           IF ~Missing(call[c]) /\ SameField(p, <<call[c].key, call[c].label>>)
           THEN new ELSE pointer[p]]
  BY DEF Point, AInv, TypeOK
<1> HIDE DEF new
<1> QED BY <1>1, <1>2

\* A call that ends as its pointer is written, answered or not.
LEMMA PointKeeps ==
  ASSUME AInv, NEW c \in Clients, NEW cl \in Calls, call[c].pc = "statement", Point(call[c]),
         call' = [call EXCEPT ![c] = cl], cl.pc = "done",
         Facts(rows, keyed, before[c], cl),
         UNCHANGED <<engine, ready, acked, before, begun>>, faults' \in 0 .. MaxFaults
  PROVE  AInv'
<1>1. /\ UNCHANGED <<keyed, rows, zv, keyset>>
      /\ pointer' \in [Keys \X Labels -> Pointers \cup {NoPointer}]
  BY PointWrites
<1>2. TypeOK'
  BY <1>1 DEF AInv, TypeOK, KeysOfRows
<1>3. Numbered'
  <2>1. ASSUME NEW d \in Clients, call'[d].pc # "done"
        PROVE  call[d].pc # "done" /\ call'[d].id = call[d].id
    BY <2>1 DEF AInv, TypeOK
  <2> QED BY <1>1, <2>1 DEF AInv, Numbered, InFlight
<1>4. TablesExist' /\ OneWinner' /\ (\A d \in Clients : before[d] \subseteq acked)'
  BY <1>1 DEF AInv, TablesExist, OneWinner, Duplicates
<1>5. ASSUME NEW d \in Clients PROVE Facts(rows, keyed, before[d], call'[d])
  BY CallFits DEF AInv, TypeOK
<1>6. CallsFit'
  BY <1>1, <1>5 DEF CallsFit, Facts
<1> QED BY <1>1, <1>2, <1>3, <1>4, <1>6 DEF AInv

LEMMA UpsertKeeps == ASSUME AInv, NEW c \in Clients, Upsert(c) PROVE AInv'
<1> DEFINE cl == Finish(call[c], "ok")
<1>1. /\ call[c] \in Calls /\ call[c].pc = "statement" /\ call[c].op = "upsertLabel"
      /\ Point(call[c]) /\ UNCHANGED <<acked, faults>>
  BY CallFits DEF Upsert, Ask, Step
<1>2. call' = [call EXCEPT ![c] = cl] /\ UNCHANGED <<engine, ready, before, begun>>
  BY <1>1, NotMissing DEF Upsert, Ask, Step
<1>3. /\ cl \in Calls /\ cl.pc = "done" /\ cl.op = "upsertLabel" /\ cl.outcome = "ok"
  BY <1>1, FinishIsCall
<1> HIDE DEF cl
<1>4. Facts(rows, keyed, before[c], cl)
  BY <1>3 DEF Facts
<1>5. faults' \in 0 .. MaxFaults
  BY <1>1 DEF AInv, TypeOK
<1> QED BY <1>1, <1>2, <1>3, <1>4, <1>5, PointKeeps

\* A failed statement whose effect took place, or did not.
LEMMA StatementFailsKeeps == ASSUME AInv, NEW c \in Clients, StatementFails(c) PROVE AInv'
<1> DEFINE cl == Finish(call[c], "rejected")
<1>1. /\ call[c].pc \in {"statement", "mget", "labels"} /\ InFlight(c)
      /\ Facts(rows, keyed, before[c], call[c])
      /\ Step(c, call[c].pc, cl) /\ acked' = acked
      /\ call' = [call EXCEPT ![c] = cl] /\ UNCHANGED <<engine, ready, before, begun>>
  BY CallFits DEF StatementFails, Step, InFlight
<1>2. faults' \in 0 .. MaxFaults
  BY AdaptersAssumption DEF StatementFails, AInv, TypeOK
<1>3. /\ cl \in Calls /\ cl.id = call[c].id /\ cl.pc = "done"
      /\ \A rws, tables, bef : Facts(rws, tables, bef, cl)
  BY <1>1, RejectedFits
<1> HIDE DEF cl
<1>4. call[c].op \in {"insertVersion", "upsertLabel"} => call[c].pc = "statement"
  BY <1>1 DEF Facts
<1>5. CASE UNCHANGED data
  BY <1>1, <1>2, <1>3, <1>5, PlainStepKeeps
<1>6. CASE call[c].op = "insertVersion" /\ Store(call[c])
  BY <1>1, <1>2, <1>3, <1>4, <1>6, StoreKeeps
<1>7. CASE call[c].op = "upsertLabel" /\ Point(call[c])
  BY <1>1, <1>2, <1>3, <1>4, <1>7, PointKeeps
<1>8. CASE MakeIndex(call[c])
  BY <1>1, <1>2, <1>3, <1>8, StepKeeps DEF MakeIndex, Tables, AInv, TypeOK
<1> QED BY <1>5, <1>6, <1>7, <1>8 DEF StatementFails

-----------------------------------------------------------------------------
\* Hosts and processes.

LEMMA BeginKeeps == ASSUME AInv, NEW c \in Clients, Begin(c) PROVE AInv'
<1>1. PICK q \in Requests :
        /\ call[c].pc = "done" /\ begun < MaxCalls /\ begun' = begun + 1
        /\ call' = [call EXCEPT ![c] = CallOf(q, begun + 1)]
        /\ before' = [before EXCEPT ![c] = acked]
        /\ \/ ready' = ready
           \/ engine = "postgres" /\ ready[ProcOf[c]] = "none" /\ ready' = [ready EXCEPT ![ProcOf[c]] = "versions"]
        /\ UNCHANGED <<engine, keyed, rows, zv, keyset, pointer, acked, faults>>
  BY DEF Begin, data
<1>2. begun \in Nat /\ begun + 1 \in 1 .. MaxCalls /\ begun + 1 \in 0 .. MaxCalls
  BY <1>1, AdaptersAssumption DEF AInv, TypeOK
<1> DEFINE cl == CallOf(q, begun + 1)
<1>3. /\ cl \in Calls /\ cl.pc \in {"ready", "statement"}
      /\ cl.pc = "statement" => engine # "postgres"
      /\ cl.id = begun + 1 /\ cl.outcome = "pending"
      /\ cl.seen = NoPointer /\ cl.found = {}
  BY <1>2, NewCall DEF AInv
<1> HIDE DEF cl
<1>4. call'[c] = cl /\ \A d \in Clients : d # c => call'[d] = call[d] /\ before'[d] = before[d]
  BY <1>1 DEF AInv, TypeOK, cl
<1>5. TypeOK'
  <2>1. call' \in [Clients -> Calls] /\ before' \in [Clients -> SUBSET Rows]
    BY <1>1, <1>3 DEF AInv, TypeOK, cl
  <2>2. ready' \in [Procs -> {"none", "ok", "failed", "clashed"} \cup Tables]
    BY <1>1 DEF AInv, TypeOK, Tables
  <2>3. begun' \in 0 .. MaxCalls
    BY <1>1, <1>2
  <2> QED BY <1>1, <2>1, <2>2, <2>3 DEF AInv, TypeOK, KeysOfRows
<1>6. Numbered'
  <2>1. ASSUME NEW d \in Clients, call'[d].pc # "done"
        PROVE  /\ call'[d].id \in 1 .. begun'
               /\ \A r \in rows : r.by # call'[d].id
               /\ d # c => call[d].pc # "done" /\ call'[d].id = call[d].id
                           /\ call'[d].id \in 1 .. begun
    <3>1. CASE d = c
      BY <1>1, <1>2, <1>3, <1>4, <3>1 DEF AInv, Numbered
    <3>2. CASE d # c
      BY <1>1, <1>2, <1>4, <2>1, <3>2 DEF AInv, Numbered, InFlight
    <3> QED BY <3>1, <3>2
  <2>2. ASSUME NEW d \in Clients, NEW e \in Clients, call'[d].pc # "done",
               call'[e].pc # "done", d # e
        PROVE  call'[d].id # call'[e].id
    <3>1. CASE d # c /\ e # c
      BY <2>1, <2>2, <3>1 DEF AInv, Numbered, InFlight
    <3>2. CASE d = c
      BY <1>2, <1>3, <1>4, <2>1, <2>2, <3>2
    <3>3. CASE e = c
      BY <1>2, <1>3, <1>4, <2>1, <2>2, <3>3
    <3> QED BY <3>1, <3>2, <3>3
  <2>3. \A r \in rows : r.by \in 1 .. begun'
    BY <1>1, <1>2 DEF AInv, Numbered
  <2> QED BY <1>1, <2>1, <2>2, <2>3 DEF Numbered, InFlight
<1>7. TablesExist' /\ OneWinner'
  BY <1>1 DEF AInv, TypeOK, TablesExist, OneWinner, Duplicates, Tables
<1>8. (\A d \in Clients : before[d] \subseteq acked)'
  BY <1>1 DEF AInv, TypeOK
<1>9. ASSUME NEW d \in Clients PROVE Facts(rows, keyed, before'[d], call'[d])
  <2>1. Facts(rows, keyed, before'[c], cl)
    BY <1>3 DEF Facts
  <2>2. CASE d # c
    BY <1>4, <2>2, CallFits
  <2> QED BY <1>4, <2>1, <2>2
<1>10. CallsFit'
  BY <1>1, <1>9 DEF CallsFit, Facts
<1> QED BY <1>5, <1>6, <1>7, <1>8, <1>10 DEF AInv

\* A step of a process: calls stay, or end rejected; tables are only added.
LEMMA ProcessKeeps ==
  ASSUME AInv, keyed \subseteq keyed', keyed' \subseteq Tables,
         "versions" \in keyed' => "versions" \in keyed \/ ~Duplicates \/ engine # "mongo",
         call' \in [Clients -> Calls],
         \A c \in Clients : \/ call'[c] = call[c]
                            \/ InFlight(c) /\ call'[c] = Finish(call[c], "rejected"),
         ready' \in [Procs -> {"none", "ok", "failed", "clashed"} \cup Tables],
         TablesExist',
         UNCHANGED <<engine, rows, zv, keyset, pointer, acked, before, begun>>,
         faults' \in 0 .. MaxFaults
  PROVE  AInv'
<1>1. ASSUME NEW c \in Clients
      PROVE  /\ call'[c].pc # "done" => call[c].pc # "done" /\ call'[c].id = call[c].id
             /\ Facts(rows, keyed', before[c], call'[c])
  <2>1. CASE call'[c] = call[c]
    BY <2>1, CallFits, FactsStay
  <2>2. CASE InFlight(c) /\ call'[c] = Finish(call[c], "rejected")
    BY <2>2, RejectedFits
  <2> QED BY <2>1, <2>2
<1>2. TypeOK'
  BY DEF AInv, TypeOK, KeysOfRows
<1>3. Numbered'
  BY <1>1 DEF AInv, Numbered, InFlight
<1>4. OneWinner' /\ (\A d \in Clients : before[d] \subseteq acked)'
  BY DEF AInv, OneWinner, Duplicates
<1>5. CallsFit'
  BY <1>1 DEF CallsFit, Facts
<1> QED BY <1>2, <1>3, <1>4, <1>5 DEF AInv

LEMMA ProcessStepKeeps ==
  ASSUME AInv, NEW p \in Procs, CreateTable(p) \/ CreateFails(p) \/ Restart(p)
  PROVE  AInv'
<1>1. /\ ready \in [Procs -> {"none", "ok", "failed", "clashed"} \cup Tables]
      /\ keyed \subseteq Tables /\ call \in [Clients -> Calls]
      /\ faults \in 0 .. MaxFaults
  BY DEF AInv, TypeOK
<1>2. CASE CreateTable(p)
  <2>1. /\ ready[p] \in Tables /\ keyed' = keyed \cup {ready[p]}
        /\ ready' = [ready EXCEPT ![p] = IF @ = "versions" THEN "labels" ELSE "ok"]
        /\ UNCHANGED <<engine, rows, zv, keyset, pointer, call, acked, before, begun, faults>>
    BY <1>2 DEF CreateTable
  <2>2. TablesExist'
    BY <1>1, <2>1 DEF AInv, TablesExist, Tables
  <2>3. ready' \in [Procs -> {"none", "ok", "failed", "clashed"} \cup Tables]
    BY <1>1, <2>1 DEF Tables
  <2>4. engine # "mongo" /\ ready[p] # "none"
    BY <2>1 DEF AInv, TablesExist, Tables
  <2>5. /\ keyed \subseteq keyed' /\ keyed' \subseteq Tables /\ faults' \in 0 .. MaxFaults
        /\ call' \in [Clients -> Calls] /\ \A c \in Clients : call'[c] = call[c]
        /\ UNCHANGED <<engine, rows, zv, keyset, pointer, acked, before, begun>>
    BY <1>1, <2>1
  <2> QED BY <2>2, <2>3, <2>4, <2>5, ProcessKeeps
<1>3. CASE CreateFails(p)
  <2>1. PICK why \in {"failed", "clashed"} :
          /\ ready[p] \in Tables /\ ready' = [ready EXCEPT ![p] = why]
          /\ faults < MaxFaults /\ faults' = faults + 1
          /\ UNCHANGED <<engine, keyed, rows, zv, keyset, pointer, call, acked, before, begun>>
    BY <1>3 DEF CreateFails, data
  <2>2. TablesExist'
    BY <1>1, <2>1 DEF AInv, TablesExist, Tables
  <2>3. faults' \in 0 .. MaxFaults
    BY <1>1, <2>1, AdaptersAssumption
  <2>4. ready' \in [Procs -> {"none", "ok", "failed", "clashed"} \cup Tables]
    BY <1>1, <2>1
  <2> QED BY <1>1, <2>1, <2>2, <2>3, <2>4, ProcessKeeps
<1>4. CASE Restart(p)
  <2>1. /\ ready' = [ready EXCEPT ![p] = "none"]
        /\ faults < MaxFaults /\ faults' = faults + 1
        /\ call' = [c \in Clients |->
             IF ProcOf[c] = p /\ call[c].pc # "done" THEN Finish(call[c], "rejected")
             ELSE call[c]]
        /\ UNCHANGED <<engine, keyed, rows, zv, keyset, pointer, acked, before, begun>>
    BY <1>4 DEF Restart, data
  <2>2. TablesExist'
    BY <1>1, <2>1 DEF AInv, TablesExist
  <2>3. faults' \in 0 .. MaxFaults
    BY <1>1, <2>1, AdaptersAssumption
  <2>4. ready' \in [Procs -> {"none", "ok", "failed", "clashed"} \cup Tables]
    BY <1>1, <2>1
  <2>5. call' \in [Clients -> Calls]
    BY <1>1, <2>1, RejectedFits DEF InFlight
  <2>6. \A c \in Clients : \/ call'[c] = call[c]
                           \/ InFlight(c) /\ call'[c] = Finish(call[c], "rejected")
    BY <2>1 DEF InFlight
  <2> QED BY <1>1, <2>1, <2>2, <2>3, <2>4, <2>5, <2>6, ProcessKeeps
<1> QED BY <1>2, <1>3, <1>4

\* Every step keeps the invariant.
LEMMA NextKeeps == ASSUME AInv, [Next]_vars PROVE AInv'
<1>1. CASE UNCHANGED vars
  <2>1. UNCHANGED <<engine, keyed, rows, zv, keyset, pointer, ready, call, acked, before, begun,
                    faults>>
    BY <1>1 DEF vars, data
  <2>2. TypeOK'
    BY <2>1 DEF AInv, TypeOK, KeysOfRows
  <2>3. Numbered' /\ TablesExist' /\ OneWinner' /\ (\A c \in Clients : before[c] \subseteq acked)'
    BY <2>1 DEF AInv, Numbered, InFlight, TablesExist, OneWinner, Duplicates
  <2>4. CallsFit'
    BY <2>1 DEF AInv, CallsFit, Facts
  <2> QED BY <2>2, <2>3, <2>4 DEF AInv
<1>2. ASSUME NEW c \in Clients, Begin(c) \/ CallStep(c) \/ StatementFails(c)
      PROVE  AInv'
  <2>1. CASE Read(c)
    BY <2>1, GetVersionKeeps, GetMaxVersionKeeps, DistinctKeysKeeps, GetLabelKeeps,
       ListVersionsDescKeeps, ZRevRangeKeeps, MGetKeeps DEF Read
  <2> QED BY <1>2, <2>1, BeginKeeps, AwaitReadyKeeps, InitStoreKeeps, InsertKeeps,
             UpsertKeeps, StatementFailsKeeps DEF CallStep
<1> QED BY <1>1, <1>2, ProcessStepKeeps DEF Next

-----------------------------------------------------------------------------
\* The theorems.

\* The invariant holds in every reachable state of any of the four backends.
THEOREM AdaptersInvariant == Spec => []AInv
<1>1. Init => AInv
  BY InitAInv
<1>2. AInv /\ [Next]_vars => AInv'
  BY NextKeeps
<1> QED BY <1>1, <1>2, PTL DEF Spec

\* Redis's sorted sets and its set of keys agree with its documents after every
\* script, failed and unanswered ones included; the rest is types.
THEOREM IndexesAgree == Spec => []TypeOK
<1>1. AInv => TypeOK
  BY DEF AInv
<1> QED BY <1>1, AdaptersInvariant, PTL

\* insertVersion of any backend: two racing inserts of one version leave one
\* row where the key is in force, and an answered insert is never overwritten.
THEOREM InsertsHaveOneWinner == Spec => []OneWinner
<1>1. AInv => OneWinner
  BY DEF AInv
<1> QED BY <1>1, AdaptersInvariant, PTL

\* A VersionConflictError means another call's document is there, and no method
\* of Postgres or SQLite runs before its table exists, whatever fails or restarts.
THEOREM ConflictsAreReal == Spec => []ErrorsAreReal
<1>1. AInv => ErrorsAreReal
  BY DEF AInv, CallsFit, Facts, ErrorsAreReal, Held
<1> QED BY <1>1, AdaptersInvariant, PTL

\* A read begun after an insert was answered shows it, in one statement or in
\* the two of Redis's listVersionsDesc.
THEOREM ReadsSeeAnsweredInserts == Spec => []ReadsKeepUp
<1>1. AInv => ReadsKeepUp
  BY DEF AInv, CallsFit, Facts, Mine, ReadsKeepUp
<1> QED BY <1>1, AdaptersInvariant, PTL

=============================================================================
