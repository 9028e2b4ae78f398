------------------------------ MODULE Adapters ------------------------------
(***************************************************************************)
(* The backends over a server: backends/redis.ts, postgres.ts, mongo.ts    *)
(* and sqlite.ts, one of them per behaviour, called by several processes   *)
(* over one database.  A method is one statement (two for the list of      *)
(* Redis), which the server runs as one step; its answer can be lost.      *)
(*                                                                         *)
(* Postgres awaits its tables first, behind a promise each process         *)
(* remembers; Mongo has no unique index until some init made it; SQLite    *)
(* makes its tables when it is opened; Redis keeps its indexes by hand.    *)
(***************************************************************************)
EXTENDS Naturals, Sequences

CONSTANTS
  Engines,   \* the backends of this run
  Keys, Labels,  \* names, as sequences of the parts a ":" separates
  MaxVersion,    \* bound: version numbers callers insert
  Requests,      \* the method calls hosts make, with their arguments
  Clients, Procs, ProcOf,
  MaxCalls,  \* bound: calls ever begun
  MaxFaults  \* bound: statements that fail, processes that die

Numbers == 1 .. MaxVersion
Methods == {"init", "getVersion", "maxVersion", "insertVersion",
            "listVersionsDesc", "distinctKeys", "getLabel", "upsertLabel"}

ASSUME AdaptersAssumption ==
  /\ Engines \subseteq {"redis", "postgres", "mongo", "sqlite"}
  /\ \A name \in Keys \cup Labels : name \in Seq(STRING)
  /\ Requests # {}
  /\ Requests \subseteq [op : Methods, key : Keys, number : Numbers,
                         label : Labels]
  /\ ProcOf \in [Clients -> Procs]
  /\ MaxVersion \in Nat /\ MaxCalls \in Nat /\ MaxFaults \in Nat

VARIABLES
  engine,
  keyed,    \* the tables that exist with their key; on Mongo, the unique indexes
  rows,     \* the version documents, told apart by the call that stored them
  zv, keyset,  \* Redis: the sorted sets of versions, the set of keys
  pointer,  \* the label documents, per key and label
  ready,    \* Postgres, per process: what its promise waits for or came to
  call,     \* per client, its call in flight or last ended
  acked,    \* history: the rows whose insert was answered
  before,   \* history: per client, acked when its call began
  begun, faults

data == <<keyed, rows, zv, keyset, pointer>>
vars == <<engine, data, ready, call, acked, before, begun, faults>>

Tables == {"versions", "labels"}
Rows == [key : Keys, number : Numbers, by : 1 .. MaxCalls]

Pointers == [key : Keys, label : Labels, number : Numbers]
NoPointer == [number |-> 0]

Calls == [op : Methods, pc : {"ready", "statement", "mget", "labels", "done"},
          id : 0 .. MaxCalls, key : Keys, number : Numbers, label : Labels,
          found : SUBSET Rows, keys : SUBSET Keys, todo : SUBSET Numbers,
          seen : Pointers \cup {NoPointer},
          outcome : {"none", "pending", "ok", "conflict", "rejected", "noTable"}]

\* Where a method starts: every method of Postgres awaits ensureReady.
FirstPoint(op) == IF engine = "postgres" THEN "ready" ELSE "statement"

\* The call number id for the request q.
CallOf(q, id) == [op |-> q.op, pc |-> FirstPoint(q.op), id |-> id, key |-> q.key,
                  number |-> q.number, label |-> q.label,
                  found |-> {}, keys |-> {}, todo |-> {}, seen |-> NoPointer,
                  outcome |-> "pending"]

RowOf(cl) == [key |-> cl.key, number |-> cl.number, by |-> cl.id]
Held(k, n) == {r \in rows : r.key = k /\ r.number = n}
Finish(cl, outcome) == [cl EXCEPT !.pc = "done", !.outcome = outcome]

Init ==
  /\ engine \in Engines
  /\ keyed = IF engine = "sqlite" THEN Tables ELSE {}
  /\ rows = {} /\ zv = {} /\ keyset = {}
  /\ pointer = [p \in Keys \X Labels |-> NoPointer]
  /\ ready = [p \in Procs |-> "none"]
  /\ call = [c \in Clients |-> Finish(CallOf(CHOOSE q \in Requests : TRUE, 0), "none")]
  /\ acked = {} /\ before = [c \in Clients |-> {}]
  /\ begun = 0 /\ faults = 0

-----------------------------------------------------------------------------
\* ensureReady: the first call of a process starts the DDL; every call awaits it.

Begin(c) == \E q \in Requests :
  /\ call[c].pc = "done" /\ begun < MaxCalls
  /\ begun' = begun + 1
  /\ call' = [call EXCEPT ![c] = CallOf(q, begun + 1)]
  /\ before' = [before EXCEPT ![c] = acked]
  /\ ready' = IF engine = "postgres" /\ ready[ProcOf[c]] = "none"
              THEN [ready EXCEPT ![ProcOf[c]] = "versions"] ELSE ready
  /\ UNCHANGED <<engine, data, acked, faults>>

CreateTable(p) ==
  /\ ready[p] \in Tables
  /\ keyed' = keyed \cup {ready[p]}
  /\ ready' = [ready EXCEPT ![p] = IF @ = "versions" THEN "labels" ELSE "ok"]
  /\ UNCHANGED <<engine, rows, zv, keyset, pointer, call, acked, before, begun, faults>>

\* The DDL fails; when two processes create one table at once, CREATE TABLE IF
\* NOT EXISTS can itself answer 23505.
CreateFails(p) ==
  /\ ready[p] \in Tables /\ faults < MaxFaults
  /\ faults' = faults + 1
  /\ \E why \in {"failed"} \cup
               {w \in {"clashed"} : \E q \in Procs \ {p} : ready[q] = ready[p]} :
       ready' = [ready EXCEPT ![p] = why]
  /\ UNCHANGED <<engine, data, call, acked, before, begun>>

-----------------------------------------------------------------------------
\* A step of c's call from program point pc on.
Step(c, pc, cl) ==
  /\ call[c].pc = pc
  /\ call' = [call EXCEPT ![c] = cl]
  /\ UNCHANGED <<engine, ready, before, begun>>

\* Mutant of AwaitReady: awaited inside insertVersion's try.
AwaitReadyInTry(c) ==
  /\ ready[ProcOf[c]] \in {"ok", "failed", "clashed"}
  /\ Step(c, "ready", IF ready[ProcOf[c]] = "clashed" /\ call[c].op = "insertVersion"
                      THEN Finish(call[c], "conflict")
                      ELSE IF ready[ProcOf[c]] # "ok" THEN Finish(call[c], "rejected")
                      ELSE IF call[c].op = "init" THEN Finish(call[c], "ok")
                      ELSE [call[c] EXCEPT !.pc = "statement"])
  /\ UNCHANGED <<data, acked, faults>>

\* Awaited before the statement, and outside insertVersion's try.
AwaitReady(c) ==
  /\ ready[ProcOf[c]] \in {"ok", "failed", "clashed"}
  /\ Step(c, "ready", IF ready[ProcOf[c]] # "ok" THEN Finish(call[c], "rejected")
                      ELSE IF call[c].op = "init" THEN Finish(call[c], "ok")
                      ELSE [call[c] EXCEPT !.pc = "statement"])
  /\ UNCHANGED <<data, acked, faults>>

\* The table of c's method; a SQL statement on one that is missing fails.
TableOf(op) == IF op \in {"getLabel", "upsertLabel"} THEN "labels" ELSE "versions"
Missing(cl) == engine \in {"postgres", "sqlite"} /\ TableOf(cl.op) \notin keyed

Ask(c, answer) ==
  Step(c, "statement", IF Missing(call[c]) THEN Finish(call[c], "noTable") ELSE answer)

-----------------------------------------------------------------------------
\* init where it is a statement: Mongo makes one index, then the other, and
\* cannot make a unique one over duplicates; Redis and SQLite have nothing left.
Duplicates == \E r, s \in rows : r # s /\ r.key = s.key /\ r.number = s.number

\* createIndex takes effect.
MakeIndex(cl) == LET table == IF cl.pc = "labels" THEN "labels" ELSE "versions" IN
  /\ table = "versions" => ~ Duplicates
  /\ keyed' = keyed \cup {table}
  /\ UNCHANGED <<rows, zv, keyset, pointer>>

InitStore(c) == LET cl == call[c] IN
  /\ cl.op = "init"
  /\ \/ engine # "mongo" /\ Step(c, "statement", Finish(cl, "ok")) /\ UNCHANGED data
     \/ /\ engine = "mongo" /\ Duplicates
        /\ Step(c, "statement", Finish(cl, "rejected")) /\ UNCHANGED data
     \/ /\ engine = "mongo" /\ MakeIndex(cl)
        /\ Step(c, "statement", [cl EXCEPT !.pc = "labels"])
     \/ MakeIndex(cl) /\ Step(c, "labels", Finish(cl, "ok"))
  /\ UNCHANGED <<acked, faults>>

\* Mutant of Refused: the script without its EXISTS.
RefusedByKey(cl) ==
  Held(cl.key, cl.number) # {} /\ engine # "redis" /\ "versions" \in keyed

\* What refuses a second document: the EXISTS of the script, or the unique key.
Refused(cl) ==
  /\ Held(cl.key, cl.number) # {}
  /\ (engine = "redis" \/ "versions" \in keyed)

\* Mutants of Store: separate commands, the client may die after the first; the
\* key left out of the set of keys.
StoreInCommands(cl) ==
  IF Refused(cl) THEN UNCHANGED data
  ELSE /\ rows' = rows \cup {RowOf(cl)}
       /\ zv' \in IF engine = "redis" THEN {zv, zv \cup {<<cl.key, cl.number>>}} ELSE {zv}
       /\ keyset' = IF engine = "redis" THEN keyset \cup {cl.key} ELSE keyset
       /\ UNCHANGED <<keyed, pointer>>

StoreUnlisted(cl) ==
  IF Refused(cl) THEN UNCHANGED data
  ELSE /\ rows' = rows \cup {RowOf(cl)}
       /\ zv' = IF engine = "redis" THEN zv \cup {<<cl.key, cl.number>>} ELSE zv
       /\ UNCHANGED <<keyed, keyset, pointer>>

\* The insert takes effect: a SET with both indexes, or a new row.
Store(cl) ==
  IF Missing(cl) \/ Refused(cl) THEN UNCHANGED data
  ELSE /\ rows' = (IF engine = "redis" THEN rows \ Held(cl.key, cl.number) ELSE rows)
                  \cup {RowOf(cl)}
       /\ zv' = IF engine = "redis" THEN zv \cup {<<cl.key, cl.number>>} ELSE zv
       /\ keyset' = IF engine = "redis" THEN keyset \cup {cl.key} ELSE keyset
       /\ UNCHANGED <<keyed, pointer>>

Insert(c) == LET cl == call[c] IN
  /\ cl.op = "insertVersion"
  /\ Ask(c, Finish(cl, IF Refused(cl) THEN "conflict" ELSE "ok"))
  /\ Store(cl)
  /\ acked' = IF Missing(cl) \/ Refused(cl) THEN acked ELSE acked \cup {RowOf(cl)}
  /\ UNCHANGED faults

\* Redis joins key and label into one name: two pairs can meet in it.
SameField(p, q) == IF engine = "redis" THEN p[1] \o p[2] = q[1] \o q[2] ELSE p = q

\* The upsert takes effect.
Point(cl) ==
  /\ pointer' = [p \in DOMAIN pointer |->
       IF ~ Missing(cl) /\ SameField(p, <<cl.key, cl.label>>)
       THEN [key |-> cl.key, label |-> cl.label, number |-> cl.number]
       ELSE pointer[p]]
  /\ UNCHANGED <<keyed, rows, zv, keyset>>

Upsert(c) ==
  /\ call[c].op = "upsertLabel"
  /\ Ask(c, Finish(call[c], "ok"))
  /\ Point(call[c])
  /\ UNCHANGED <<acked, faults>>

-----------------------------------------------------------------------------
VersionsOf(k) == {r \in rows : r.key = k}
KeysOfRows == {r.key : r \in rows}

\* maxVersion asks the sorted set on Redis, the rows elsewhere.
Greatest(k) ==
  LET numbers == IF engine = "redis" THEN {v[2] : v \in {v \in zv : v[1] = k}}
                 ELSE {r.number : r \in VersionsOf(k)}
  IN {n \in numbers : \A m \in numbers : m <= n}

\* A read of one statement; the rest of an answer is in found, keys, todo or seen.
Answer(c, op, answer) ==
  /\ call[c].op = op /\ Ask(c, answer)
  /\ UNCHANGED <<data, acked, faults>>

GetVersion(c) == Answer(c, "getVersion",
  [Finish(call[c], "ok") EXCEPT !.found = Held(call[c].key, call[c].number)])

GetMaxVersion(c) == Answer(c, "maxVersion",
  [Finish(call[c], "ok") EXCEPT !.todo = Greatest(call[c].key)])

DistinctKeys(c) == Answer(c, "distinctKeys",
  [Finish(call[c], "ok") EXCEPT !.keys = IF engine = "redis" THEN keyset ELSE KeysOfRows])

GetLabel(c) == Answer(c, "getLabel",
  [Finish(call[c], "ok") EXCEPT !.seen = pointer[<<call[c].key, call[c].label>>]])

ListVersionsDesc(c) ==
  /\ engine # "redis"
  /\ Answer(c, "listVersionsDesc",
            [Finish(call[c], "ok") EXCEPT !.found = VersionsOf(call[c].key)])

\* Redis lists in two: the sorted set, then the documents it names.
ZRevRange(c) ==
  LET members == {n \in Numbers : <<call[c].key, n>> \in zv} IN
  /\ engine = "redis"
  /\ Answer(c, "listVersionsDesc",
            IF members = {} THEN Finish(call[c], "ok")
            ELSE [call[c] EXCEPT !.pc = "mget", !.todo = members])

MGet(c) ==
  /\ Step(c, "mget", [Finish(call[c], "ok") EXCEPT !.todo = {},
       !.found = {r \in VersionsOf(call[c].key) : r.number \in call[c].todo}])
  /\ UNCHANGED <<data, acked, faults>>

Read(c) ==
  \/ GetVersion(c) \/ GetMaxVersion(c) \/ DistinctKeys(c) \/ GetLabel(c)
  \/ ListVersionsDesc(c) \/ ZRevRange(c) \/ MGet(c)

\* A statement fails under c, or its answer is lost after it took effect.
StatementFails(c) == LET cl == call[c] IN
  /\ faults < MaxFaults /\ faults' = faults + 1
  /\ cl.pc \in {"statement", "mget", "labels"}
  /\ Step(c, cl.pc, Finish(cl, "rejected"))
  /\ \/ UNCHANGED data
     \/ cl.op = "insertVersion" /\ Store(cl)
     \/ cl.op = "upsertLabel" /\ Point(cl)
     \/ cl.op = "init" /\ engine = "mongo" /\ MakeIndex(cl)
  /\ UNCHANGED acked

\* Process p dies: its calls with it, and what its promise remembered.
Restart(p) ==
  /\ faults < MaxFaults /\ faults' = faults + 1
  /\ ready[p] # "none" \/ \E c \in Clients : ProcOf[c] = p /\ call[c].pc # "done"
  /\ ready' = [ready EXCEPT ![p] = "none"]
  /\ call' = [c \in Clients |->
       IF ProcOf[c] = p /\ call[c].pc # "done" THEN Finish(call[c], "rejected") ELSE call[c]]
  /\ UNCHANGED <<engine, data, acked, before, begun>>

CallStep(c) ==
  AwaitReady(c) \/ InitStore(c) \/ Insert(c) \/ Upsert(c) \/ Read(c)

Next ==
  \/ \E c \in Clients : Begin(c) \/ CallStep(c) \/ StatementFails(c)
  \/ \E p \in Procs : CreateTable(p) \/ CreateFails(p) \/ Restart(p)

Spec == Init /\ [][Next]_vars
-----------------------------------------------------------------------------
\* The types, with Redis's promise: its two indexes agree with its documents.
TypeOK ==
  /\ engine \in Engines /\ keyed \subseteq Tables
  /\ rows \subseteq Rows /\ acked \subseteq Rows
  /\ zv = (IF engine = "redis" THEN {<<r.key, r.number>> : r \in rows} ELSE {})
  /\ keyset = (IF engine = "redis" THEN KeysOfRows ELSE {})
  /\ pointer \in [Keys \X Labels -> Pointers \cup {NoPointer}]
  /\ ready \in [Procs -> {"none", "ok", "failed", "clashed"} \cup Tables]
  /\ call \in [Clients -> Calls] /\ before \in [Clients -> SUBSET Rows]
  /\ begun \in 0 .. MaxCalls /\ faults \in 0 .. MaxFaults

\* Two racing inserts leave one winner where the key is in force, and the winner
\* is never overwritten: an insert that was answered is still what is stored.
OneWinner ==
  /\ acked \subseteq rows
  /\ (engine # "mongo" \/ "versions" \in keyed) => ~ Duplicates

\* A conflict is told only to a call that another call's document stands in the
\* way of, an error of the DDL, unique or not, is not told as one, and no call of
\* any process meets a table that is not there yet.
ErrorsAreReal == \A c \in Clients : LET cl == call[c] IN
  /\ cl.op = "insertVersion" /\ cl.outcome = "conflict" =>
       \E r \in Held(cl.key, cl.number) : r.by # cl.id
  /\ cl.outcome # "noTable"

\* A read shows every insert answered before it began, and only what is stored.
ReadsKeepUp == \A c \in Clients :
  LET cl == call[c]  mine == {r \in before[c] : r.key = cl.key} IN
  cl.outcome = "ok" =>
    /\ cl.op = "getVersion" => {r \in mine : r.number = cl.number} \subseteq cl.found
    /\ cl.op = "listVersionsDesc" => mine \subseteq cl.found /\ cl.found \subseteq rows
    /\ cl.op = "distinctKeys" => {r.key : r \in before[c]} \subseteq cl.keys
    /\ cl.op = "maxVersion" => \A r \in mine : \E n \in cl.todo : r.number <= n
=============================================================================
