--------------------- MODULE VersionedStoreHistoryProofs --------------------
(***************************************************************************)
(* Theorems about what the history variables of VersionedStoreHistory tell *)
(* of the store's past: resolve serves what a label named while the call   *)
(* was under way, every retry is paid for by a rival, and the audit trail  *)
(* counts the moves.                                                       *)
(***************************************************************************)
EXTENDS VersionedStoreHistory, VersionedStoreProofs

-----------------------------------------------------------------------------
\* What a step leaves of a client's record.

\* The record f follows cl in a step of its own client.
Shape(cl, f) ==
  /\ f.op = cl.op
  /\ f.outcome # "conflict"
  /\ f.pc \notin {"insert", "emit", "idle"}
  /\ f.pc = "readMax" => f.attempt = 1 /\ cl.pc # "readMax"

LEMMA ContinueShape ==
  ASSUME IInv, AInv, NEW c \in Clients, Continue(c)
  PROVE  \/ ReadMax(c) \/ InsertVersion(c) \/ UpsertLabel(c)
         \/ Shape(call[c], call'[c])
<1> DEFINE p == ProcOf[c]
           cl == call[c]
<1>0. /\ cl \in Calls /\ call \in [Clients -> Calls] /\ p \in Procs
      /\ cl.pc # "done" => cl.outcome = "pending"
      /\ cl.op \in {"seed", "sync"} => cl.todo \subseteq DefaultKeys(p)
  BY ConstantsAssumption
  DEF IInv, TInv, SaneCalls, Sane, Fits, AInv, Agrees, Owns
<1>1. ASSUME NEW f, SetCall(c, f), Shape(cl, f) PROVE Shape(cl, call'[c])
  BY <1>1, CallIsSet
<1>2. ASSUME NEW t \in Calls, t.op = cl.op
      PROVE  /\ \A o \in Outcomes \ {"conflict"} : Shape(cl, Finish(t, o))
             /\ \A o \in Outcomes \ {"conflict"} : Shape(cl, Fallback(p, t, o))
             /\ t.outcome = "pending" => Shape(cl, NextDefault(t))
  <2>1. ASSUME NEW o \in Outcomes \ {"conflict"}
        PROVE  Shape(cl, Finish(t, o)) /\ Shape(cl, Fallback(p, t, o))
    BY <1>2 DEF Finish, Fallback, Calls, Shape
  <2>2. t.outcome = "pending" => Shape(cl, NextDefault(t))
    BY <1>2 DEF NextDefault, Goto, Calls, Shape
  <2> QED
    BY <2>1, <2>2
<1>3. ASSUME NEW t \in Calls, t.op = cl.op, t.outcome = "pending", cl.pc # "readMax"
      PROVE  /\ Shape(cl, StartAdd(p, t)) /\ Shape(cl, Install(p, t))
             /\ \A n : Shape(cl, [Goto(t, "compareVersion") EXCEPT !.version = n])
  <2>1. Shape(cl, [t EXCEPT !.pc = "readMax", !.attempt = 1])
    BY <1>3 DEF Calls, Shape
  <2>2. Shape(cl, StartAdd(p, t))
    BY <1>2, <1>3, <2>1 DEF StartAdd, Outcomes
  <2>3. Shape(cl, Goto(t, "vet"))
    BY <1>3 DEF Goto, Calls, Shape
  <2>4. ASSUME NEW n PROVE Shape(cl, [Goto(t, "compareVersion") EXCEPT !.version = n])
    BY <1>3 DEF Goto, Calls, Shape
  <2> QED
    BY <2>2, <2>3, <2>4 DEF Install
<1>4. ASSUME NEW k \in cl.todo, cl.op \in {"seed", "sync"}, cl.outcome = "pending"
      PROVE  LET t == Taken(c, k)
             IN t \in Calls /\ t.op = cl.op /\ t.outcome = "pending"
  <2>1. k \in Keys /\ Default[p][k] \in Values \cup {None}
    BY <1>0, <1>4, ConstantsAssumption DEF Calls
  <2> QED
    BY <1>0, <1>4, <2>1, ConstantsAssumption DEF Taken, Calls
<1>5. CASE ReadLabel(c) \/ ReadVersion(c)
  <2>1. cl.pc \in {"readLabel", "readVersion"} /\ cl.outcome = "pending"
    BY <1>0, <1>5 DEF ReadLabel, ReadVersion, At
  <2>2. ASSUME NEW n PROVE Shape(cl, [Goto(cl, "readVersion") EXCEPT !.version = n])
    BY <1>0, <2>1 DEF Goto, Calls, Shape
  <2>3. ASSUME NEW n, NEW v
        PROVE  /\ Shape(cl, [Finish(cl, "ok") EXCEPT !.version = n, !.value = v])
               /\ Shape(cl, [Finish(cl, "ok") EXCEPT !.value = v])
    BY <1>0, <2>1 DEF Finish, Calls, Shape
  <2>4. ASSUME NEW o \in {"absent", "label-missing", "schema-invalid", "doc-missing"}
        PROVE  Shape(cl, Finish(cl, o)) /\ Shape(cl, Fallback(p, cl, o))
    BY <1>0, <1>2 DEF Outcomes, FallbackReasons
  <2>5. CASE ReadLabel(c)
    BY <1>1, <2>2, <2>3, <2>4, <2>5 DEF ReadLabel, Advance
  <2>6. CASE ReadVersion(c)
    BY <1>1, <2>3, <2>4, <2>6 DEF ReadVersion, Advance
  <2> QED
    BY <1>5, <2>5, <2>6
<1>6. CASE Load(c) \/ RunGate(c) \/ EmitAccepted(c)
  <2>1. cl.pc \in {"load", "gate", "emit"} /\ cl.outcome = "pending"
    BY <1>0, <1>6 DEF Load, RunGate, EmitAccepted, Move, At
  <2>2. ASSUME NEW v, NEW pc \in {"gate", "point"}
        PROVE  Shape(cl, [Goto(cl, pc) EXCEPT !.value = v]) /\ Shape(cl, Goto(cl, pc))
    BY <1>0, <2>1 DEF Goto, Calls, Shape
  <2>3. ASSUME NEW o \in {"notFound", "refused", "ok"} PROVE Shape(cl, Finish(cl, o))
    BY <1>0, <1>2 DEF Outcomes
  <2>4. Shape(cl, NextDefault(cl))
    BY <1>0, <1>2, <2>1
  <2>5. CASE Load(c)
    BY <1>1, <2>2, <2>3, <2>5 DEF Load, Move, Advance
  <2>6. CASE RunGate(c)
    BY <1>1, <2>2, <2>3, <2>6 DEF RunGate, Move, Advance
  <2>7. CASE EmitAccepted(c)
    BY <1>1, <2>3, <2>4, <2>7 DEF EmitAccepted, AfterPromote, Move, Advance
  <2> QED
    BY <1>6, <2>5, <2>6, <2>7
<1>7. CASE \/ EnsureIndexes(c) \/ DefaultsDone(c) \/ SeedProbe(c)
           \/ SyncCompare(c) \/ SyncCompareVersion(c) \/ VetDefault(c)
  <2>1. /\ cl.pc \in {"init", "probe", "compare", "compareVersion", "vet"}
        /\ cl.outcome = "pending" /\ cl.op \in {"seed", "sync"}
    BY <1>0, <1>7
    DEF EnsureIndexes, DefaultsDone, SeedProbe, SyncCompare, SyncCompareVersion,
        VetDefault, Move, At, IInv, TInv, SaneCalls, Sane, Fits
  <2>2. /\ Shape(cl, NextDefault(cl)) /\ Shape(cl, Install(p, cl))
        /\ Shape(cl, StartAdd(p, cl)) /\ Shape(cl, Finish(cl, "ok"))
    BY <1>0, <1>2, <1>3, <2>1 DEF Outcomes
  <2>3. ASSUME NEW k \in cl.todo
        PROVE  LET t == Taken(c, k) IN
               /\ Shape(cl, NextDefault(t)) /\ Shape(cl, Install(p, t))
               /\ Shape(cl, Finish(t, "invalid"))
               /\ \A n : Shape(cl, [Goto(t, "compareVersion") EXCEPT !.version = n])
    BY <1>2, <1>3, <1>4, <2>1 DEF Outcomes
  <2>4. CASE EnsureIndexes(c) \/ DefaultsDone(c)
    BY <1>1, <2>2, <2>4 DEF EnsureIndexes, DefaultsDone, Move, Advance
  <2>5. CASE SeedProbe(c)
    BY <1>1, <2>3, <2>5 DEF SeedProbe, Move, Advance
  <2>6. CASE SyncCompare(c)
    BY <1>1, <2>3, <2>6 DEF SyncCompare, Move, Advance
  <2>7. CASE SyncCompareVersion(c) \/ VetDefault(c)
    BY <1>1, <2>2, <2>7 DEF SyncCompareVersion, VetDefault, Move, Advance
  <2> QED
    BY <1>7, <2>4, <2>5, <2>6, <2>7
<1>8. CASE DistinctKeys(c) \/ ListLabel(c) \/ ListRows(c)
  <2>1. cl.pc \in {"distinct", "listLabel", "listRows"} /\ cl.outcome = "pending"
    BY <1>0, <1>8 DEF DistinctKeys, ListLabel, ListRows, Move, At
  <2>2. ASSUME NEW todo, NEW listed, NEW d, NEW f \in ListTurn(d),
               d = [cl EXCEPT !.todo = todo] \/ d = [cl EXCEPT !.listed = listed]
        PROVE  Shape(cl, f)
    <3>1. CASE d.todo = {}
      <4>1. f = Finish(d, "ok")
        BY <2>2, <3>1 DEF ListTurn
      <4> QED
        BY <1>0, <2>1, <2>2, <4>1 DEF Finish, Calls, Shape
    <3>2. CASE d.todo # {}
      <4>1. PICK k \in d.todo :
              f = [Goto(d, "listLabel") EXCEPT !.key = k, !.todo = @ \ {k}]
        BY <2>2, <3>2 DEF ListTurn
      <4> QED
        BY <1>0, <2>1, <2>2, <4>1 DEF Goto, Calls, Shape
    <3> QED
      BY <3>1, <3>2
  <2>3. ASSUME NEW n PROVE Shape(cl, [Goto(cl, "listRows") EXCEPT !.version = n])
    BY <1>0, <2>1 DEF Goto, Calls, Shape
  <2> QED
    BY <1>1, <1>8, <2>2, <2>3 DEF DistinctKeys, ListLabel, ListRows, Move, Advance
<1> QED
  BY <1>5, <1>6, <1>7, <1>8 DEF Continue

LEMMA BeginShape ==
  ASSUME IInv, NEW c \in Clients, BeginCall(c)
  PROVE  /\ call'[c].outcome # "conflict"
         /\ call'[c].pc \notin {"insert", "emit", "idle"}
         /\ call'[c].pc = "readMax" => call'[c].attempt = 1
         /\ call[c].pc \in {"idle", "done"}
         /\ call'[c].op = "resolve" => BeginResolve(c) \/ ResolveUnavailable(c)
         /\ \A d \in Clients \ {c} : call'[d] = call[d]
<1> DEFINE p == ProcOf[c]
<1>1. ASSUME NEW op, NEW cl, Begin(c, op, cl), op # "resolve",
             LET f == [cl EXCEPT !.op = op] IN
             /\ f.outcome # "conflict" /\ f.pc \notin {"insert", "emit", "idle"}
             /\ f.pc = "readMax" => f.attempt = 1
             /\ f.op = op
      PROVE  /\ call'[c].outcome # "conflict"
             /\ call'[c].pc \notin {"insert", "emit", "idle"}
             /\ call'[c].pc = "readMax" => call'[c].attempt = 1
             /\ call[c].pc \in {"idle", "done"}
             /\ call'[c].op # "resolve"
             /\ \A d \in Clients \ {c} : call'[d] = call[d]
  <2>1. SetCall(c, [cl EXCEPT !.op = op]) /\ call[c].pc \in {"idle", "done"}
    BY <1>1 DEF Begin
  <2> QED
    BY <1>1, <2>1, CallIsSet
<1>2. CASE BeginResolve(c)
  <2>1. PICK k \in Keys, l \in Labels : Begin(c, "resolve",
          [NoCall EXCEPT !.pc = "readLabel", !.key = k, !.label = l])
    BY <1>2 DEF BeginResolve
  <2> DEFINE f == [[NoCall EXCEPT !.pc = "readLabel", !.key = k, !.label = l]
                     EXCEPT !.op = "resolve"]
  <2>2. SetCall(c, f) /\ call[c].pc \in {"idle", "done"}
    BY <2>1 DEF Begin
  <2>3. f.outcome = "pending" /\ f.pc = "readLabel"
    BY DEF NoCall
  <2> QED
    BY <1>2, <2>2, <2>3, CallIsSet
<1>3. CASE ResolveUnavailable(c)
  <2> DEFINE f(k, l) == Fallback(p, [NoCall EXCEPT !.op = "resolve", !.key = k,
                                                   !.label = l], "backend-unavailable")
  <2>1. PICK k \in Keys, l \in Labels : SetCall(c, f(k, l)) /\ call[c].pc \in {"idle", "done"}
    BY <1>3 DEF ResolveUnavailable
  <2>2. f(k, l).outcome = "backend-unavailable" /\ f(k, l).pc = "done"
    BY DEF Fallback, NoCall
  <2> QED
    BY <1>3, <2>1, <2>2, CallIsSet
<1>4. CASE \/ BeginGetVersion(c) \/ BeginGetActive(c)
           \/ BeginListVersions(c) \/ BeginListKeys(c)
  BY <1>1, <1>4
  DEF BeginGetVersion, BeginGetActive, BeginListVersions, BeginListKeys, NoCall
<1>5. CASE BeginAdd(c) \/ BeginRevert(c)
  BY <1>1, <1>5 DEF BeginAdd, BeginRevert, StartAdd, Finish, NoCall
<1>6. CASE BeginPromote(c)
  <2> DEFINE e(k, l, n, g) == [NoCall EXCEPT !.key = k, !.label = l, !.version = n,
                                             !.gated = g]
             f(k, l, n, g) == IF n = 0 THEN Finish(e(k, l, n, g), "sentinel")
                                       ELSE Goto(e(k, l, n, g), "load")
  <2>1. PICK k \in Keys, l \in Labels, g \in GateChoices :
          \E n \in 0 .. MaxVersion(k) + 1 : Begin(c, "promote", f(k, l, n, g))
    BY <1>6 DEF BeginPromote
  <2>2. PICK n \in 0 .. MaxVersion(k) + 1 : Begin(c, "promote", f(k, l, n, g))
    BY <2>1
  <2>3. LET h == [f(k, l, n, g) EXCEPT !.op = "promote"]
        IN h.outcome # "conflict" /\ h.pc \in {"load", "done"} /\ h.op = "promote"
    BY DEF Finish, Goto, NoCall
  <2> QED
    BY <1>1, <2>2, <2>3
<1>7. CASE BeginSeed(c) \/ BeginSync(c)
  <2>1. PICK op \in {"seed", "sync"}, g \in GateChoices : Begin(c, op,
          [NoCall EXCEPT !.pc = "init", !.gated = g, !.todo = DefaultKeys(p)])
    BY <1>7 DEF BeginSeed, BeginSync, BeginDefaults
  <2> QED
    BY <1>1, <2>1 DEF NoCall
<1> QED
  BY <1>2, <1>3, <1>4, <1>5, <1>6, <1>7 DEF BeginCall

-----------------------------------------------------------------------------
\* What a step tells the history.

\* Nothing reaches a label, no event is emitted and none becomes due; one that
\* was due goes away only with a fault.
Silent ==
  /\ Landed = {} /\ Emitted = {} /\ labels' = labels
  /\ \A c \in Clients : call'[c].pc = "emit" => call'[c] = call[c]
  /\ faults' = 0 => \A c \in Clients : call[c].pc = "emit" => call'[c] = call[c]

\* A step is a move of a label, of an awaited or a late upsert, or an event, or
\* neither.
LEMMA StepTold ==
  ASSUME IInv, AInv, [Next]_vars
  PROVE  \/ \E c \in Clients : /\ UpsertLabel(c) /\ Emitted = {}
                               /\ Landed = {PointerOf(c)}
         \/ \E l \in latePointers : /\ Landed = {l} /\ Emitted = {} /\ call' = call
                                    /\ faults' = faults
                                    /\ labels' = [labels EXCEPT ![l.key][l.label] = l.version]
         \/ \E c \in Clients : /\ EmitAccepted(c) /\ Landed = {}
                               /\ Emitted = {PointerOf(c)} /\ labels' = labels
         \/ Silent
<1>0. call \in [Clients -> Calls] /\ faults \in Nat
  BY DEF IInv, TInv, TypeOK, SaneCalls
<1>1. ASSUME NEW c \in Clients, UpsertLabel(c)
      PROVE  Landed = {PointerOf(c)} /\ Emitted = {}
  <2>1. /\ At(c, "point") /\ SetCall(c, Goto(call[c], "emit")) /\ faults' = faults
        /\ latePointers' = latePointers
    BY <1>1 DEF UpsertLabel, Advance
  <2>2. call'[c] = Goto(call[c], "emit") /\ \A d \in Clients \ {c} : call'[d] = call[d]
    BY <2>1, CallIsSet
  <2>3. call'[c].pc = "emit" /\ call[c].pc = "point"
    BY <1>0, <2>1, <2>2 DEF Goto, Calls, At
  <2>4. {d \in Clients : At(d, "point") /\ call'[d] # call[d] /\ faults' = faults} = {c}
    BY <2>1, <2>2, <2>3
  <2>5. {d \in Clients : At(d, "emit") /\ call'[d].pc \notin {"emit", "idle"}} = {}
    BY <2>2, <2>3 DEF At
  <2> QED
    BY <2>1, <2>4, <2>5 DEF Landed, Emitted
<1>2. ASSUME NEW c \in Clients, EmitAccepted(c)
      PROVE  Landed = {} /\ Emitted = {PointerOf(c)} /\ labels' = labels
  <2>1. /\ call[c].pc = "emit" /\ latePointers' = latePointers /\ labels' = labels
        /\ SetCall(c, AfterPromote(call[c]))
    BY <1>2 DEF EmitAccepted, Move, At, backend, Advance
  <2>2. /\ call'[c] = AfterPromote(call[c])
        /\ \A d \in Clients \ {c} : call'[d] = call[d]
    BY <2>1, CallIsSet
  <2>3. call'[c].pc \in {"probe", "compare", "done"}
    BY <1>0, <2>2 DEF AfterPromote, NextDefault, Finish, Goto, Calls
  <2>4. {d \in Clients : At(d, "point") /\ call'[d] # call[d] /\ faults' = faults} = {}
    BY <2>1, <2>2 DEF At
  <2>5. {d \in Clients : At(d, "emit") /\ call'[d].pc \notin {"emit", "idle"}} = {c}
    BY <2>1, <2>2, <2>3 DEF At
  <2> QED
    BY <2>1, <2>4, <2>5 DEF Landed, Emitted
<1>3. ASSUME NEW c \in Clients, labels' = labels, latePointers' = latePointers,
             \A d \in Clients \ {c} : call'[d] = call[d],
             call[c].pc \notin {"point", "emit"}, call'[c].pc # "emit"
      PROVE  Silent
  <2>1. {d \in Clients : At(d, "point") /\ call'[d] # call[d] /\ faults' = faults} = {}
    BY <1>3 DEF At
  <2>2. {d \in Clients : At(d, "emit") /\ call'[d].pc \notin {"emit", "idle"}} = {}
    BY <1>3 DEF At
  <2> QED
    BY <1>3, <2>1, <2>2 DEF Silent, Landed, Emitted
<1>4. ASSUME NEW c \in Clients, BeginCall(c) PROVE Silent
  BY <1>3, <1>4, BeginShape, BeginFrame
<1>5. ASSUME NEW c \in Clients, Continue(c), ~ UpsertLabel(c), ~ EmitAccepted(c)
      PROVE  Silent
  <2>1. labels' = labels /\ latePointers' = latePointers
    BY <1>5, ContinueFrame
  <2>2. \A d \in Clients \ {c} : call'[d] = call[d]
    BY <1>5, ContinueAgrees DEF Turns
  <2>3. call[c].pc \notin {"point", "emit"}
    BY <1>5
    DEF Continue, ReadLabel, ReadVersion, ReadMax, InsertVersion, Load, RunGate,
        EnsureIndexes, DefaultsDone, SeedProbe, SyncCompare, SyncCompareVersion,
        VetDefault, DistinctKeys, ListLabel, ListRows, Move, At
  <2>4. ReadMax(c) \/ InsertVersion(c) => call'[c].pc # "emit"
    BY <1>0
    DEF ReadMax, InsertVersion, Move, Advance, SetCall, AfterInsert, Finish, Goto, Calls
  <2>5. call'[c].pc # "emit"
    BY <1>5, <2>4, ContinueShape DEF Shape
  <2> QED
    BY <1>3, <2>1, <2>2, <2>3, <2>5
<1>6. ASSUME labels' = labels, latePointers \subseteq latePointers', faults' = faults + 1,
             \A d \in Clients : call[d].pc = "emit" => call'[d].pc \in {"emit", "idle"},
             \A d \in Clients : call'[d].pc = "emit" => call'[d] = call[d]
      PROVE  Silent
  BY <1>0, <1>6 DEF Silent, Landed, Emitted, At
<1>7. ASSUME NEW c \in Clients, AwaitRejects(c) PROVE Silent
  <2>1. \A d \in Clients : call[d].pc = "emit" => call'[d] = call[d]
    BY <1>0, <1>7 DEF AwaitRejects, SetCall
  <2>2. labels' = labels /\ latePointers \subseteq latePointers' /\ faults' = faults + 1
    BY <1>0, <1>7 DEF AwaitRejects
  <2>3. call'[c].pc = "done" /\ \A d \in Clients \ {c} : call'[d] = call[d]
    BY <1>0, <1>7 DEF AwaitRejects, SetCall, Fallback, Finish, Calls
  <2> QED
    BY <1>6, <2>1, <2>2, <2>3
<1>8. ASSUME NEW p \in Procs, Crash(p) PROVE Silent
  <2>1. \A d \in Clients : call'[d] \in {call[d], NoCall}
    BY <1>8 DEF Crash
  <2>2. labels' = labels /\ latePointers \subseteq latePointers' /\ faults' = faults + 1
    BY <1>0, <1>8 DEF Crash
  <2> QED
    BY <1>6, <2>1, <2>2 DEF NoCall
<1>9. ASSUME LateUpsert
      PROVE  \E l \in latePointers :
               /\ Landed = {l} /\ Emitted = {} /\ call' = call /\ faults' = faults
               /\ labels' = [labels EXCEPT ![l.key][l.label] = l.version]
  <2>1. PICK l \in latePointers :
          /\ labels' = [labels EXCEPT ![l.key][l.label] = l.version]
          /\ latePointers' = latePointers \ {l} /\ call' = call /\ faults' = faults
    BY <1>9 DEF LateUpsert
  <2>2. latePointers \ latePointers' = {l}
    BY <2>1
  <2> QED
    BY <2>1, <2>2 DEF Landed, Emitted, At
<1>10. ASSUME LateInsert \/ UNCHANGED vars PROVE Silent
  <2>1. labels' = labels /\ latePointers' = latePointers /\ call' = call
    BY <1>10 DEF LateInsert, vars
  <2> QED
    BY <2>1 DEF Silent, Landed, Emitted, At
<1> QED
  BY <1>1, <1>2, <1>4, <1>5, <1>7, <1>8, <1>9, <1>10 DEF Next, Fault, Rest

-----------------------------------------------------------------------------
\* The history adds variables and takes no step away: what holds of Spec holds.

Told == [Next]_vars /\ (Watch \/ UNCHANGED hvars)

LEMMA HistoryTells == [HNext]_hvars => Told
  BY DEF HNext, hvars, Told, vars

LEMMA HistoryIsSafe == HSpec => [](IInv /\ AInv)
<1>1. HInit => Init
  BY DEF HInit
<1>2. Told => [Next]_vars
  BY DEF Told
<1> QED
  BY <1>1, <1>2, HistoryTells, InitIInv, StepIInv, InitAInv, StepAInv, PTL DEF HSpec

-----------------------------------------------------------------------------
\* Retries.

LEMMA MaxGrows ==
  ASSUME IInv, [Next]_vars, NEW k \in Keys
  PROVE  /\ MaxVersion(k) \in Nat /\ MaxVersion(k)' \in Nat
         /\ MaxVersion(k)' >= MaxVersion(k)
<1>1. PICK m \in Nat : VersionsOf(k) = 1 .. m
  BY DEF IInv, Dense
<1>2. PICK n \in Nat : VersionsOf(k)' = 1 .. n
  BY StepIInv DEF IInv, Dense
<1>3. ASSUME NEW i \in Nat PROVE Max({0} \cup 1 .. i) = i
  <2> DEFINE S == {0} \cup 1 .. i
  <2>1. i \in S /\ \A y \in S : i >= y
    OBVIOUS
  <2>2. ASSUME NEW x \in S, \A y \in S : x >= y PROVE x = i
    BY <2>1, <2>2
  <2>3. Max(S) = i
    BY <2>1, <2>2 DEF Max
  <2> QED
    BY <2>3
<1>4. MaxVersion(k) = m /\ MaxVersion(k)' = n
  BY <1>1, <1>2, <1>3 DEF MaxVersion
<1>5. 1 .. m \subseteq 1 .. n
  BY <1>1, <1>2, GrowsOnly DEF VersionsOf
<1>6. n >= m
  <2>1. m = 0 \/ m \in 1 .. m
    OBVIOUS
  <2> QED
    BY <1>5, <2>1
<1> QED
  BY <1>4, <1>6

\* The history of cl's key has grown to m since it stood at n, by a version for
\* each attempt that failed; the number an attempt claims is beyond those.
Paid(cl, n, m) ==
  /\ cl.pc \in {"readMax", "insert"} => cl.attempt >= 1 /\ m >= n + cl.attempt - 1
  /\ cl.pc = "insert" => cl.version >= n + cl.attempt
  /\ cl.outcome = "conflict" => cl.key \in Keys /\ m >= n + MaxCasAttempts

PInv == \A c \in Clients :
  floor[c] \in Nat /\ Paid(call[c], floor[c], MaxVersion(call[c].key))

LEMMA StepPInv == IInv /\ AInv /\ PInv /\ Told => PInv'
<1> SUFFICES ASSUME IInv, AInv, PInv, Told, NEW c \in Clients
             PROVE  floor'[c] \in Nat
                    /\ Paid(call'[c], floor'[c], MaxVersion(call[c].key)')
  BY DEF PInv
<1> DEFINE cl == call[c]
           f == call'[c]
<1>0. [Next]_vars /\ IInv'
  BY StepIInv DEF Told
<1>1. /\ cl \in Calls /\ f \in Calls /\ call \in [Clients -> Calls]
      /\ cl.pc \notin Unkeyed => cl.key \in Keys
      /\ f.pc \notin Unkeyed => f.key \in Keys
      /\ cl.pc # "done" => cl.outcome = "pending"
      /\ floor[c] \in Nat /\ Paid(cl, floor[c], MaxVersion(cl.key))
      /\ MaxCasAttempts \in Nat
  BY <1>0, ConstantsAssumption
  DEF IInv, TInv, SaneCalls, Sane, Fits, PInv, AInv, Agrees, Owns
<1>2. PICK k : k = f.key
  OBVIOUS
<1>3. MaxVersion(call[c].key)' = MaxVersion(k)'
  BY <1>2 DEF MaxVersion, VersionsOf
<1>4. k \in Keys => /\ MaxVersion(k) \in Nat /\ MaxVersion(k)' \in Nat
                     /\ MaxVersion(k)' >= MaxVersion(k)
  BY <1>0, MaxGrows
<1>5. ASSUME ~ EntersAdd(c) PROVE floor'[c] = floor[c]
  BY <1>5 DEF Told, Watch, hvars, histvars
<1> SUFFICES floor'[c] \in Nat /\ Paid(f, floor'[c], MaxVersion(k)')
  BY <1>3
<1>6. CASE f = cl
  <2>1. floor'[c] = floor[c]
    BY <1>5, <1>6 DEF EntersAdd
  <2>2. Paid(cl, floor[c], MaxVersion(k))
    BY <1>1, <1>2, <1>6
  <2>3. cl.pc \in {"readMax", "insert"} \/ cl.outcome = "conflict" => k \in Keys
    BY <1>1, <1>2, <1>6 DEF Paid, Unkeyed
  <2>4. cl.attempt \in Nat
    BY <1>1 DEF Calls
  <2>5. Paid(cl, floor[c], MaxVersion(k)')
    BY <1>1, <1>4, <2>2, <2>3, <2>4 DEF Paid
  <2> QED
    BY <1>1, <1>6, <2>1, <2>5
<1>7. ASSUME f.outcome # "conflict", f.pc # "insert",
             f.pc = "readMax" => f.attempt = 1 /\ cl.pc # "readMax"
      PROVE  floor'[c] \in Nat /\ Paid(f, floor'[c], MaxVersion(k)')
  <2>1. CASE EntersAdd(c)
    <3>1. f.pc = "readMax" /\ f.attempt = 1 /\ f # cl
      BY <2>1 DEF EntersAdd
    <3>2. Watch
      BY <3>1 DEF Told, hvars, vars
    <3>3. floor'[c] = MaxVersion(k)
      BY <1>2, <2>1, <3>2 DEF Watch
    <3> QED
      BY <1>1, <1>2, <1>4, <1>7, <3>1, <3>3 DEF Paid, Unkeyed
  <2>2. CASE ~ EntersAdd(c)
    <3>1. f.pc # "readMax"
      BY <1>7, <2>2 DEF EntersAdd
    <3> QED
      BY <1>1, <1>5, <1>7, <2>2, <3>1 DEF Paid
  <2> QED
    BY <2>1, <2>2
<1>8. CASE ReadMax(c)
  <2>1. /\ f = [Goto(cl, "insert") EXCEPT !.version = MaxVersion(cl.key) + 1]
        /\ cl.pc = "readMax"
    BY <1>1, <1>8 DEF ReadMax, Move, Advance, SetCall, At
  <2>2. /\ f.pc = "insert" /\ f.attempt = cl.attempt /\ f.key = cl.key
        /\ f.version = MaxVersion(k) + 1 /\ f.outcome = "pending"
    BY <1>1, <1>2, <2>1 DEF Goto, Calls
  <2>3. floor'[c] = floor[c]
    BY <1>5, <2>2 DEF EntersAdd
  <2> QED
    BY <1>1, <1>2, <1>4, <2>1, <2>2, <2>3 DEF Paid, Unkeyed, Calls
<1>9. CASE InsertVersion(c)
  <2>1. /\ cl.pc = "insert"
        /\ \/ f = AfterInsert(cl)
           \/ /\ HasVersion(cl.key, cl.version)
              /\ f = IF cl.attempt < MaxCasAttempts
                      THEN [Goto(cl, "readMax") EXCEPT !.attempt = @ + 1]
                      ELSE Finish(cl, "conflict")
    BY <1>1, <1>9 DEF InsertVersion, Advance, SetCall, At
  <2>2. CASE f = AfterInsert(cl)
    <3>1. f.pc \in {"load", "done"} /\ f.outcome \in {"pending", "ok"}
      BY <1>1, <2>1, <2>2 DEF AfterInsert, Finish, Goto, Calls
    <3> QED
      BY <1>7, <3>1
  <2>3. CASE /\ HasVersion(cl.key, cl.version)
             /\ f = IF cl.attempt < MaxCasAttempts
                     THEN [Goto(cl, "readMax") EXCEPT !.attempt = @ + 1]
                     ELSE Finish(cl, "conflict")
    <3>1. cl.attempt \in Nat /\ cl.version \in Nat /\ cl.key \in Keys
      BY <1>1, <2>1 DEF Calls, Unkeyed
    <3>2. MaxVersion(cl.key) >= floor[c] + cl.attempt
      <4>1. cl.version \in 1 .. MaxVersion(cl.key) /\ MaxVersion(cl.key) \in Nat
        BY <2>3, <3>1, DenseMax DEF IInv
      <4> QED
        BY <1>1, <2>1, <3>1, <4>1 DEF Paid
    <3>3. CASE cl.attempt < MaxCasAttempts
      <4>1. f.pc = "readMax" /\ f.attempt = cl.attempt + 1 /\ f.key = cl.key
            /\ f.outcome = "pending"
        BY <1>1, <2>1, <2>3, <3>3 DEF Goto, Calls
      <4>2. cl.attempt >= 1
        BY <1>1, <2>1 DEF Paid
      <4>3. floor'[c] = floor[c]
        BY <1>5, <3>1, <4>1, <4>2 DEF EntersAdd
      <4> QED
        BY <1>1, <1>2, <1>4, <3>1, <3>2, <4>1, <4>2, <4>3 DEF Paid
    <3>4. CASE ~ (cl.attempt < MaxCasAttempts)
      <4>1. f.pc = "done" /\ f.key = cl.key
        BY <1>1, <2>3, <3>4 DEF Finish, Calls
      <4>2. floor'[c] = floor[c]
        BY <1>5, <4>1 DEF EntersAdd
      <4> QED
        BY <1>1, <1>2, <1>4, <3>1, <3>2, <3>4, <4>1, <4>2 DEF Paid
    <3> QED
      BY <3>3, <3>4
  <2> QED
    BY <2>1, <2>2, <2>3
<1>10. CASE UpsertLabel(c)
  <2>1. f = Goto(cl, "emit") /\ cl.pc = "point"
    BY <1>1, <1>10 DEF UpsertLabel, Advance, SetCall, At
  <2>2. f.pc = "emit" /\ f.outcome = "pending"
    BY <1>1, <2>1 DEF Goto, Calls
  <2> QED
    BY <1>7, <2>2
<1>11. ASSUME Continue(c) PROVE floor'[c] \in Nat /\ Paid(f, floor'[c], MaxVersion(k)')
  <2>1. Shape(cl, f) \/ ReadMax(c) \/ InsertVersion(c) \/ UpsertLabel(c)
    BY <1>11, ContinueShape
  <2> QED
    BY <1>7, <1>8, <1>9, <1>10, <2>1 DEF Shape
<1>12. ASSUME BeginCall(c) PROVE floor'[c] \in Nat /\ Paid(f, floor'[c], MaxVersion(k)')
  BY <1>7, <1>12, BeginShape
<1>13. ASSUME NEW d \in Clients \ {c}, BeginCall(d) \/ Continue(d) PROVE f = cl
  BY <1>13, BeginShape, ContinueAgrees DEF Turns
<1>14. ASSUME NEW d \in Clients, AwaitRejects(d)
       PROVE  floor'[c] \in Nat /\ Paid(f, floor'[c], MaxVersion(k)')
  <2>1. CASE d # c
    BY <1>1, <1>6, <1>14, <2>1 DEF AwaitRejects, SetCall
  <2>2. CASE d = c
    <3>1. f \in {Fallback(ProcOf[c], cl, "resolve-error"), Finish(cl, "rejected")}
      BY <1>1, <1>14, <2>2 DEF AwaitRejects, SetCall
    <3>2. f.pc = "done" /\ f.outcome \in {"resolve-error", "rejected"}
      BY <1>1, <3>1 DEF Fallback, Finish, Calls
    <3> QED
      BY <1>7, <3>2
  <2> QED
    BY <2>1, <2>2
<1>15. ASSUME NEW q \in Procs, Crash(q)
       PROVE  floor'[c] \in Nat /\ Paid(f, floor'[c], MaxVersion(k)')
  <2>1. f \in {cl, NoCall}
    BY <1>15 DEF Crash
  <2>2. NoCall.pc = "idle" /\ NoCall.outcome = "pending"
    BY DEF NoCall
  <2> QED
    BY <1>6, <1>7, <2>1, <2>2
<1>16. LateInsert \/ LateUpsert \/ UNCHANGED vars => f = cl
  BY DEF LateInsert, LateUpsert, vars
<1> QED
  BY <1>0, <1>6, <1>11, <1>12, <1>13, <1>14, <1>15, <1>16 DEF Next, Fault, Rest

\* Every conflict an addVersion has met is a version somebody committed since it
\* began: fewer than MaxCasAttempts rival inserts never exhaust it.
THEOREM EveryRetryIsPaid == HSpec => []RetriesArePaid
<1>1. HInit => PInv
  BY DEF HInit, Init, PInv, Paid, NoCall
<1>2. IInv /\ PInv => RetriesArePaid
  <2> SUFFICES ASSUME IInv, PInv, NEW c \in Clients,
                      call[c].pc \in {"readMax", "insert"} \/ call[c].outcome = "conflict"
               PROVE  LET grown == MaxVersion(call[c].key) - floor[c] IN
                      /\ call[c].pc \in {"readMax", "insert"} =>
                           grown >= call[c].attempt - 1
                      /\ call[c].outcome = "conflict" => grown >= MaxCasAttempts
    BY DEF RetriesArePaid
  <2>1. /\ call[c] \in Calls /\ call[c].key \in Keys
        /\ floor[c] \in Nat /\ Paid(call[c], floor[c], MaxVersion(call[c].key))
    BY DEF IInv, TInv, SaneCalls, Sane, Fits, Unkeyed, PInv, Paid
  <2>2. MaxVersion(call[c].key) \in Nat /\ call[c].attempt \in Nat /\ MaxCasAttempts \in Nat
    BY <2>1, DenseMax, ConstantsAssumption DEF IInv, Calls
  <2> QED
    BY <2>1, <2>2 DEF Paid
<1> QED
  BY <1>1, <1>2, StepPInv, HistoryIsSafe, HistoryTells, PTL DEF HSpec

-----------------------------------------------------------------------------
\* What the history variables hold.

HType ==
  /\ moves \in [KeyLabels -> Seq(Nat)]
  /\ audit \in [KeyLabels -> Seq(Nat)]

LEMMA ExtendNone ==
  ASSUME NEW S, NEW seqs \in [KeyLabels -> S]
  PROVE  Extend(seqs, {}) = seqs
  BY DEF Extend

LEMMA ExtendOne ==
  ASSUME NEW seqs, NEW x, NEW kl \in KeyLabels
  PROVE  Extend(seqs, {x})[kl] = IF <<x.key, x.label>> = kl
                                 THEN Append(seqs[kl], x.version) ELSE seqs[kl]
<1>1. (CHOOSE y \in {x} : <<y.key, y.label>> = kl) = x \/ <<x.key, x.label>> # kl
  OBVIOUS
<1> QED
  BY <1>1 DEF Extend

LEMMA WatchTold ==
  ASSUME HType, Told
  PROVE  /\ moves' = Extend(moves, Landed)
         /\ audit' = Extend(audit, Emitted)
<1>1. CASE Watch
  BY <1>1 DEF Watch
<1>2. CASE UNCHANGED hvars
  <2>1. /\ moves' = moves /\ audit' = audit /\ call' = call
        /\ latePointers' = latePointers
    BY <1>2 DEF hvars, vars, histvars
  <2>2. Landed = {} /\ Emitted = {}
    BY <2>1 DEF Landed, Emitted, At
  <2> QED
    BY <2>1, <2>2, ExtendNone DEF HType
<1> QED
  BY <1>1, <1>2 DEF Told

\* A pointer that lands names a key, a label and a number.
LEMMA LandedTyped ==
  ASSUME IInv
  PROVE  /\ latePointers \subseteq Pointers
         /\ \A c \in Clients : call[c].pc \in {"point", "emit"} => PointerOf(c) \in Pointers
  BY DEF IInv, TInv, TypeOK, SaneCalls, Sane, Fits, Unkeyed, Labelled, Calls,
     Pointers, PointerOf

\* Where the moves of a label end is where it points.
LastMove == \A k \in Keys, l \in Labels : LET s == moves[<<k, l>>] IN
  Len(s) >= 1 /\ s[Len(s)] = labels[k][l]

\* Sequences that only grow at their end.
Prefixed(s, t) == Len(t) >= Len(s) /\ \A i \in 1 .. Len(s) : t[i] = s[i]

Longer(m, n) == \A kl \in KeyLabels : Prefixed(m[kl], n[kl])

LEMMA AppendPrefixed ==
  ASSUME NEW s \in Seq(Nat), NEW n \in Nat
  PROVE  Prefixed(s, s) /\ Prefixed(s, Append(s, n)) /\ Append(s, n) \in Seq(Nat)
<1>1. Len(s) \in Nat
  OBVIOUS
<1>2. /\ Append(s, n) \in Seq(Nat) /\ Len(Append(s, n)) = Len(s) + 1
      /\ \A i \in 1 .. Len(s) : Append(s, n)[i] = s[i]
  BY AppendProperties
<1> QED
  BY <1>1, <1>2 DEF Prefixed

LEMMA StepMoves ==
  ASSUME IInv, AInv, HType, LastMove, Told
  PROVE  HType' /\ LastMove' /\ Longer(moves, moves')
<1>0. [Next]_vars
  BY DEF Told
<1>1. /\ moves' = Extend(moves, Landed) /\ audit' = Extend(audit, Emitted)
      /\ labels \in [Keys -> [Labels -> Nat]]
  BY WatchTold DEF IInv, TInv, TypeOK
<1>2. ASSUME NEW seqs \in [KeyLabels -> Seq(Nat)], NEW x \in Pointers
      PROVE  Extend(seqs, {x}) \in [KeyLabels -> Seq(Nat)] /\ Longer(seqs, Extend(seqs, {x}))
  <2>1. ASSUME NEW kl \in KeyLabels
        PROVE  /\ Extend(seqs, {x})[kl] \in Seq(Nat)
               /\ Prefixed(seqs[kl], Extend(seqs, {x})[kl])
    <3>1. seqs[kl] \in Seq(Nat) /\ x.version \in Nat
      BY DEF Pointers
    <3>2. Extend(seqs, {x})[kl] \in {seqs[kl], Append(seqs[kl], x.version)}
      BY ExtendOne
    <3> QED
      BY <3>1, <3>2, AppendPrefixed
  <2>2. Extend(seqs, {x}) = [kl \in KeyLabels |-> Extend(seqs, {x})[kl]]
    BY DEF Extend
  <2> QED
    BY <2>1, <2>2 DEF Longer
<1>3. ASSUME NEW x \in Pointers, Landed = {x}, Emitted = {},
             labels' = [labels EXCEPT ![x.key][x.label] = x.version]
      PROVE  HType' /\ LastMove' /\ Longer(moves, moves')
  <2>1. HType' /\ Longer(moves, moves')
    BY <1>1, <1>2, <1>3, ExtendNone DEF HType
  <2>2. ASSUME NEW k \in Keys, NEW l \in Labels
        PROVE  LET s == moves'[<<k, l>>] IN Len(s) >= 1 /\ s[Len(s)] = labels'[k][l]
    <3>1. /\ <<k, l>> \in KeyLabels /\ moves[<<k, l>>] \in Seq(Nat)
          /\ x.key \in Keys /\ x.label \in Labels /\ x.version \in Nat
      BY DEF KeyLabels, HType, Pointers
    <3>2. moves'[<<k, l>>] = IF <<x.key, x.label>> = <<k, l>>
                             THEN Append(moves[<<k, l>>], x.version) ELSE moves[<<k, l>>]
      BY <1>1, <1>3, <3>1, ExtendOne
    <3>3. CASE x.key = k /\ x.label = l
      <4>1. labels'[k][l] = x.version
        BY <1>1, <1>3, <3>1, <3>3
      <4> QED
        BY <3>1, <3>2, <3>3, <4>1, AppendProperties
    <3>4. CASE ~ (x.key = k /\ x.label = l)
      <4>1. labels'[k][l] = labels[k][l]
        BY <1>1, <1>3, <3>1, <3>4
      <4>2. moves'[<<k, l>>] = moves[<<k, l>>]
        BY <3>2, <3>4
      <4> QED
        BY <4>1, <4>2 DEF LastMove
    <3> QED
      BY <3>3, <3>4
  <2> QED
    BY <2>1, <2>2 DEF LastMove, HType
<1>4. ASSUME Landed = {}, labels' = labels, audit' \in [KeyLabels -> Seq(Nat)]
      PROVE  HType' /\ LastMove' /\ Longer(moves, moves')
  <2>1. moves' = moves
    BY <1>1, <1>4, ExtendNone DEF HType
  <2>2. Longer(moves, moves')
    BY <2>1, AppendPrefixed DEF Longer, HType
  <2> QED
    BY <1>4, <2>1, <2>2 DEF HType, LastMove
<1>5. Silent => HType' /\ LastMove' /\ Longer(moves, moves')
  BY <1>1, <1>4, ExtendNone DEF Silent, HType
<1>6. ASSUME NEW c \in Clients, EmitAccepted(c), Landed = {}, Emitted = {PointerOf(c)},
             labels' = labels
      PROVE  HType' /\ LastMove' /\ Longer(moves, moves')
  <2>1. PointerOf(c) \in Pointers
    BY <1>6, LandedTyped DEF EmitAccepted, Move, At
  <2> QED
    BY <1>1, <1>2, <1>4, <1>6, <2>1 DEF HType
<1>7. ASSUME NEW c \in Clients, UpsertLabel(c), Emitted = {}, Landed = {PointerOf(c)}
      PROVE  HType' /\ LastMove' /\ Longer(moves, moves')
  <2>1. PointerOf(c) \in Pointers
    BY <1>7, LandedTyped DEF UpsertLabel, At
  <2>2. labels' = [labels EXCEPT ![PointerOf(c).key][PointerOf(c).label] = PointerOf(c).version]
    BY <1>7 DEF UpsertLabel, PointerOf
  <2> QED
    BY <1>3, <1>7, <2>1, <2>2
<1> QED
  BY <1>0, <1>3, <1>5, <1>6, <1>7, StepTold, LandedTyped

-----------------------------------------------------------------------------
\* Freshness.

\* A resolve of record cl that began when its label had moved s times has read,
\* once it is past the label, a version the label named since; what it serves as
\* the content of that version is stored in V.
Follows(V, m, s, cl) ==
  /\ cl.op = "resolve"
  /\ cl.pc \in {"readLabel", "readVersion"} \/ cl.outcome \in {"ok", "label-missing"}
  => LET named == m[<<cl.key, cl.label>>] IN
     /\ cl.key \in Keys /\ cl.label \in Labels
     /\ s \in 1 .. Len(named)
     /\ cl.pc # "readLabel" => \E i \in s .. Len(named) : named[i] = cl.version
     /\ cl.outcome = "ok" =>
          \E r \in V : r.key = cl.key /\ r.version = cl.version /\ r.value = cl.value

RInv == /\ HType /\ LastMove
        /\ \A c \in Clients : Follows(versions, moves, since[c], call[c])

LEMMA FollowsKept ==
  ASSUME NEW V, NEW W, V \subseteq W, NEW m \in [KeyLabels -> Seq(Nat)],
         NEW n \in [KeyLabels -> Seq(Nat)], Longer(m, n), NEW s, NEW cl,
         Follows(V, m, s, cl)
  PROVE  Follows(W, n, s, cl)
<1> SUFFICES ASSUME cl.op = "resolve",
                    \/ cl.pc \in {"readLabel", "readVersion"}
                    \/ cl.outcome \in {"ok", "label-missing"}
             PROVE  Follows(W, n, s, cl)
  BY DEF Follows
<1> DEFINE kl == <<cl.key, cl.label>>
<1>1. /\ kl \in KeyLabels /\ cl.key \in Keys /\ cl.label \in Labels
      /\ s \in 1 .. Len(m[kl])
      /\ cl.pc # "readLabel" => \E i \in s .. Len(m[kl]) : m[kl][i] = cl.version
      /\ cl.outcome = "ok" =>
           \E r \in V : r.key = cl.key /\ r.version = cl.version /\ r.value = cl.value
  BY DEF Follows, KeyLabels
<1>2. /\ Len(n[kl]) \in Nat /\ Len(m[kl]) \in Nat /\ Len(n[kl]) >= Len(m[kl])
      /\ \A i \in 1 .. Len(m[kl]) : n[kl][i] = m[kl][i]
  <2>1. kl \in KeyLabels /\ m[kl] \in Seq(Nat) /\ n[kl] \in Seq(Nat)
    BY <1>1
  <2>2. Len(n[kl]) \in Nat /\ Len(m[kl]) \in Nat
    BY <2>1
  <2> HIDE DEF kl
  <2> QED
    BY <2>1, <2>2 DEF Longer, Prefixed
<1>3. s \in 1 .. Len(n[kl])
  BY <1>1, <1>2
<1>4. cl.pc # "readLabel" => \E i \in s .. Len(n[kl]) : n[kl][i] = cl.version
  <2> SUFFICES ASSUME NEW i \in s .. Len(m[kl]), m[kl][i] = cl.version
               PROVE  \E j \in s .. Len(n[kl]) : n[kl][j] = cl.version
    BY <1>1
  <2>1. i \in 1 .. Len(m[kl]) /\ i \in s .. Len(n[kl])
    BY <1>1, <1>2
  <2> QED
    BY <1>2, <2>1
<1> QED
  BY <1>1, <1>3, <1>4 DEF Follows

LEMMA StepRInv == IInv /\ AInv /\ RInv /\ Told => RInv'
<1> SUFFICES ASSUME IInv, AInv, RInv, Told, NEW c \in Clients
             PROVE  Follows(versions', moves', since'[c], call'[c])
  BY StepMoves DEF RInv
<1> DEFINE cl == call[c]
           f == call'[c]
           p == ProcOf[c]
<1>1. /\ [Next]_vars /\ HType' /\ LastMove' /\ Longer(moves, moves')
      /\ versions \subseteq versions'
      /\ moves \in [KeyLabels -> Seq(Nat)] /\ moves' \in [KeyLabels -> Seq(Nat)]
  BY StepMoves, GrowsOnly DEF Told, RInv, HType
<1>2. /\ call \in [Clients -> Calls] /\ cl \in Calls /\ Fits(p, cl, cl.pc)
      /\ labels \in [Keys -> [Labels -> Nat]] /\ begun \in Nat /\ p \in Procs
      /\ cl.pc # "done" => cl.outcome = "pending"
  BY ConstantsAssumption
  DEF IInv, TInv, SaneCalls, Sane, TypeOK, AInv, Agrees, Owns
<1>3. Follows(versions', moves', since[c], cl)
  BY <1>1, FollowsKept DEF RInv
<1>4. ASSUME ~ BeginsResolve(c) PROVE since'[c] = since[c]
  BY <1>4 DEF Told, Watch, hvars, histvars
<1>5. CASE f = cl
  BY <1>3, <1>4, <1>5 DEF BeginsResolve
<1>6. CASE \/ f.op # "resolve"
           \/ /\ f.pc \notin {"readLabel", "readVersion"}
              /\ f.outcome \notin {"ok", "label-missing"}
  BY <1>6 DEF Follows
<1>7. CASE BeginResolve(c)
  <2>1. PICK k \in Keys, l \in Labels : Begin(c, "resolve",
          [NoCall EXCEPT !.pc = "readLabel", !.key = k, !.label = l])
    BY <1>7 DEF BeginResolve
  <2>2. /\ f = [[NoCall EXCEPT !.pc = "readLabel", !.key = k, !.label = l]
                  EXCEPT !.op = "resolve"]
        /\ begun' = begun + 1 /\ cl.pc \in {"idle", "done"}
    BY <1>2, <2>1 DEF Begin, SetCall
  <2>3. /\ f.op = "resolve" /\ f.pc = "readLabel" /\ f.key = k /\ f.label = l
        /\ f.outcome = "pending"
    BY <2>2 DEF NoCall
  <2>4. BeginsResolve(c)
    <3>1. begun' # begun /\ call'[c] # call[c]
      <4>1. begun + 1 # begun
        BY <1>2
      <4>2. call'[c].pc # call[c].pc
        BY <2>2, <2>3
      <4> QED
        BY <2>2, <4>1, <4>2
    <3> QED
      BY <2>3, <3>1 DEF BeginsResolve
  <2>5. since'[c] = Len(moves[<<k, l>>])
    BY <1>2, <2>2, <2>3, <2>4 DEF Told, Watch, hvars, vars
  <2>6. Len(moves[<<k, l>>]) \in 1 .. Len(moves'[<<k, l>>])
    <3>1. <<k, l>> \in KeyLabels
      BY DEF KeyLabels
    <3>2. Len(moves[<<k, l>>]) \in Nat /\ Len(moves'[<<k, l>>]) \in Nat
      BY <1>1, <3>1
    <3> QED
      BY <1>1, <3>1, <3>2 DEF RInv, LastMove, Longer, Prefixed
  <2> QED
    BY <2>3, <2>5, <2>6 DEF Follows
<1>8. CASE ReadLabel(c)
  <2> DEFINE n == labels[cl.key][cl.label]
             named == moves'[<<cl.key, cl.label>>]
  <2>1. /\ cl.pc = "readLabel" /\ since'[c] = since[c] /\ labels' = labels
    BY <1>2, <1>4, <1>8 DEF ReadLabel, At, Advance, BeginsResolve, backend
  <2>2. \/ n = 0 /\ f = Fallback(p, cl, "label-missing")
        \/ n = 0 /\ f = Finish(cl, "absent")
        \/ \E e \in cache[p] : /\ e.key = cl.key /\ e.version = n
                               /\ f = [Finish(cl, "ok") EXCEPT !.version = n, !.value = e.value]
        \/ f = [Goto(cl, "readVersion") EXCEPT !.version = n]
    BY <1>2, <1>8 DEF ReadLabel, Advance, SetCall
  <2>3. cl.outcome = "pending" /\ n \in Nat /\ cl.key \in Keys /\ cl.label \in Labels
    BY <1>2, <2>1 DEF Fits, Unkeyed, Labelled
  <2>4. /\ f.op = cl.op /\ f.key = cl.key /\ f.label = cl.label
        /\ f.pc \in {"readVersion", "done"}
        /\ f.outcome = "absent" => f.pc = "done"
        /\ f.outcome # "absent" => f.version = n
        /\ f.outcome = "ok" => \E e \in cache[p] :
             e.key = cl.key /\ e.version = n /\ f.value = e.value
    <3>1. ASSUME NEW e, f = [Finish(cl, "ok") EXCEPT !.version = n, !.value = e.value]
          PROVE  /\ f.op = cl.op /\ f.key = cl.key /\ f.label = cl.label
                 /\ f.pc = "done" /\ f.version = n /\ f.value = e.value
      BY <1>2, <3>1 DEF Finish, Calls
    <3>2. f = Fallback(p, cl, "label-missing") =>
            /\ f.op = cl.op /\ f.key = cl.key /\ f.label = cl.label
            /\ f.pc = "done" /\ f.version = 0 /\ f.outcome = "label-missing"
      BY <1>2 DEF Fallback, Calls
    <3>3. f = Finish(cl, "absent") \/ f = [Goto(cl, "readVersion") EXCEPT !.version = n] =>
            /\ f.op = cl.op /\ f.key = cl.key /\ f.label = cl.label
            /\ \/ f.pc = "done" /\ f.outcome = "absent"
               \/ f.pc = "readVersion" /\ f.version = n /\ f.outcome = "pending"
      BY <1>2, <2>3 DEF Finish, Goto, Calls
    <3> HIDE DEF f
    <3> QED
      BY <2>2, <3>1, <3>2, <3>3
  <2>5. ASSUME f.op = "resolve", f.outcome # "absent"
        PROVE  Follows(versions', moves', since[c], f)
    <3>1. since[c] \in 1 .. Len(named)
      BY <1>3, <2>1, <2>4, <2>5 DEF Follows
    <3>2. named \in Seq(Nat) /\ Len(named) \in Nat
      BY <1>1, <2>3 DEF KeyLabels
    <3>3. named[Len(named)] = n
      BY <1>1, <2>1, <2>3 DEF LastMove
    <3>4. \E i \in since[c] .. Len(named) : named[i] = f.version
      BY <2>4, <2>5, <3>1, <3>2, <3>3
    <3>5. f.outcome = "ok" => \E r \in versions' :
            r.key = f.key /\ r.version = f.version /\ r.value = f.value
      BY <1>1, <1>2, <2>4 DEF AInv, CacheCoherent
    <3> HIDE DEF f
    <3> QED
      BY <2>3, <2>4, <3>1, <3>4, <3>5 DEF Follows
  <2> QED
    BY <1>6, <2>1, <2>4, <2>5
<1>9. CASE ReadVersion(c)
  <2>1. cl.pc = "readVersion" /\ since'[c] = since[c]
    BY <1>2, <1>4, <1>9 DEF ReadVersion, At, Advance, BeginsResolve
  <2>2. \/ /\ Loads(p, cl.key, cl.version)
           /\ f = [Finish(cl, "ok") EXCEPT !.value = Row(cl.key, cl.version).value]
        \/ f = Finish(cl, "absent")
        \/ \E o \in {"schema-invalid", "doc-missing"} : f = Fallback(p, cl, o)
    BY <1>2, <1>9 DEF ReadVersion, Advance, SetCall
  <2>3. CASE /\ Loads(p, cl.key, cl.version)
             /\ f = [Finish(cl, "ok") EXCEPT !.value = Row(cl.key, cl.version).value]
    <3>1. /\ f.op = cl.op /\ f.key = cl.key /\ f.label = cl.label /\ f.pc = "done"
          /\ f.version = cl.version /\ f.value = Row(cl.key, cl.version).value
      BY <1>2, <2>3 DEF Finish, Calls
    <3>2. \E r \in versions' :
            r.key = cl.key /\ r.version = cl.version /\ r.value = f.value
      BY <1>1, <2>3, <3>1, RowIsStored DEF Loads
    <3>3. ASSUME f.op = "resolve"
          PROVE  LET named == moves'[<<cl.key, cl.label>>] IN
                 /\ cl.key \in Keys /\ cl.label \in Labels
                 /\ since[c] \in 1 .. Len(named)
                 /\ \E i \in since[c] .. Len(named) : named[i] = cl.version
      BY <1>3, <2>1, <3>1, <3>3 DEF Follows
    <3> QED
      BY <2>1, <3>1, <3>2, <3>3 DEF Follows
  <2>4. CASE f = Finish(cl, "absent")
    <3>1. f.pc = "done" /\ f.outcome = "absent"
      BY <1>2, <2>4 DEF Finish, Calls
    <3> QED
      BY <1>6, <3>1
  <2>5. ASSUME NEW o \in {"schema-invalid", "doc-missing"}, f = Fallback(p, cl, o)
        PROVE  Follows(versions', moves', since'[c], f)
    <3>1. f.pc = "done" /\ f.outcome = o
      BY <1>2, <2>5 DEF Fallback, Calls
    <3> QED
      BY <1>6, <2>5, <3>1
  <2> QED
    BY <2>2, <2>3, <2>4, <2>5
<1>10. ASSUME Continue(c), ~ ReadLabel(c), ~ ReadVersion(c) PROVE f.op # "resolve"
  <2>1. cl.op # "resolve"
    BY <1>2, <1>10
    DEF Continue, ReadMax, InsertVersion, Load, RunGate, UpsertLabel, EmitAccepted,
        EnsureIndexes, DefaultsDone, SeedProbe, SyncCompare, SyncCompareVersion,
        VetDefault, DistinctKeys, ListLabel, ListRows, Move, At, Fits
  <2>2. ReadMax(c) => f.op = cl.op
    BY <1>2 DEF ReadMax, Move, Advance, SetCall, Goto, Calls
  <2>3. InsertVersion(c) => f.op = cl.op
    <3>1. InsertVersion(c) => f \in {AfterInsert(cl), Finish(cl, "conflict"),
                                    [Goto(cl, "readMax") EXCEPT !.attempt = @ + 1]}
      BY <1>2 DEF InsertVersion, Advance, SetCall
    <3> QED
      BY <1>2, <3>1 DEF AfterInsert, Finish, Goto, Calls
  <2>4. UpsertLabel(c) => f.op = cl.op
    BY <1>2 DEF UpsertLabel, Advance, SetCall, Goto, Calls
  <2> QED
    BY <1>10, <2>1, <2>2, <2>3, <2>4, ContinueShape DEF Shape
<1>11. ASSUME BeginCall(c), ~ BeginResolve(c)
       PROVE  Follows(versions', moves', since'[c], f)
  <2>1. CASE ResolveUnavailable(c)
    <3>1. PICK k \in Keys, l \in Labels :
            f = Fallback(p, [NoCall EXCEPT !.op = "resolve", !.key = k, !.label = l],
                         "backend-unavailable")
      BY <1>2, <2>1 DEF ResolveUnavailable, SetCall
    <3>2. f.pc = "done" /\ f.outcome = "backend-unavailable"
      BY <3>1 DEF Fallback, NoCall
    <3> QED
      BY <1>6, <3>2
  <2> QED
    BY <1>6, <1>11, <2>1, BeginShape
<1>12. ASSUME NEW d \in Clients \ {c}, BeginCall(d) \/ Continue(d) PROVE f = cl
  BY <1>12, BeginShape, ContinueAgrees DEF Turns, RInv
<1>13. ASSUME NEW d \in Clients, AwaitRejects(d)
       PROVE  f = cl \/ (f.pc = "done" /\ f.outcome \in {"resolve-error", "rejected"})
  <2>1. CASE d # c
    BY <1>2, <1>13, <2>1 DEF AwaitRejects, SetCall
  <2>2. CASE d = c
    <3>1. f \in {Fallback(ProcOf[c], cl, "resolve-error"), Finish(cl, "rejected")}
      BY <1>2, <1>13, <2>2 DEF AwaitRejects, SetCall
    <3> QED
      BY <1>2, <3>1 DEF Fallback, Finish, Calls
  <2> QED
    BY <2>1, <2>2
<1>14. ASSUME NEW q \in Procs, Crash(q)
       PROVE  f = cl \/ (f.pc = "idle" /\ f.outcome = "pending")
  <2>1. f \in {cl, NoCall}
    BY <1>14 DEF Crash
  <2> QED
    BY <2>1 DEF NoCall
<1>15. LateInsert \/ LateUpsert \/ UNCHANGED vars => f = cl
  BY DEF LateInsert, LateUpsert, vars
<1>16. ASSUME Continue(c) PROVE Follows(versions', moves', since'[c], f)
  BY <1>6, <1>8, <1>9, <1>10, <1>16
<1>17. ASSUME Fault PROVE Follows(versions', moves', since'[c], f)
  BY <1>5, <1>6, <1>13, <1>14, <1>17 DEF Fault
<1> QED
  BY <1>1, <1>5, <1>7, <1>11, <1>12, <1>15, <1>16, <1>17 DEF Next, Rest

LEMMA HInitRInv == HInit => RInv
<1> SUFFICES ASSUME HInit PROVE RInv
  OBVIOUS
<1>1. HType
  BY DEF HInit, HType
<1>2. LastMove
  BY DEF HInit, Init, LastMove, KeyLabels
<1>3. \A c \in Clients : Follows(versions, moves, since[c], call[c])
  BY DEF HInit, Init, NoCall, Follows
<1> QED
  BY <1>1, <1>2, <1>3 DEF RInv

\* A promote takes effect on the next resolve, in every process: what resolve
\* serves from the store, or the absence it reports, is what the label named at
\* some moment of the call.
THEOREM ResolvesAreFresh == HSpec => []ResolveIsFresh
<1>1. AInv /\ RInv => ResolveIsFresh
  <2> SUFFICES ASSUME AInv, RInv, NEW c \in Clients, call[c].op = "resolve",
                      call[c].outcome \in {"ok", "label-missing"}
               PROVE  LET named == moves[<<call[c].key, call[c].label>>] IN
                      /\ \E i \in since[c] .. Len(named) : named[i] = call[c].version
                      /\ call[c].outcome = "ok" =>
                           \E r \in versions : /\ r.key = call[c].key
                                               /\ r.version = call[c].version
                                               /\ r.value = call[c].value
    BY DEF ResolveIsFresh
  <2>1. call[c].pc = "done"
    BY DEF AInv, Agrees, Owns
  <2> QED
    BY <2>1 DEF RInv, Follows
<1> QED
  BY <1>1, HInitRInv, StepRInv, HistoryIsSafe, HistoryTells, PTL DEF HSpec

-----------------------------------------------------------------------------
\* The count of the events.

LEMMA TimesCount ==
  ASSUME NEW s \in Seq(Nat), NEW m \in Nat, NEW n
  PROVE  /\ Times(s, n) \in Nat
         /\ Times(Append(s, m), n) = Times(s, n) + (IF m = n THEN 1 ELSE 0)
<1> DEFINE S == {i \in DOMAIN s : s[i] = n}
           t == Append(s, m)
           T == {i \in DOMAIN t : t[i] = n}
           z == Len(s) + 1
<1>1. z \in Nat /\ DOMAIN s = 1 .. Len(s) /\ Len(s) \in Nat
  OBVIOUS
<1>2. /\ DOMAIN t = 1 .. z /\ t[z] = m
      /\ \A i \in 1 .. Len(s) : t[i] = s[i]
  <2>1. /\ t \in Seq(Nat) /\ Len(t) = z /\ t[z] = m
        /\ \A i \in 1 .. Len(s) : t[i] = s[i]
    BY AppendProperties
  <2> QED
    BY <2>1
<1>3. IsFiniteSet(S) /\ Cardinality(S) \in Nat
  <2>1. 1 \in Int /\ Len(s) \in Int
    BY <1>1
  <2>2. IsFiniteSet(1 .. Len(s))
    BY <2>1, FS_Interval, Zenon
  <2>3. S \subseteq 1 .. Len(s)
    BY <1>1
  <2> HIDE DEF S
  <2> QED
    BY <2>2, <2>3, FS_Subset, FS_CardinalityType
<1>4. T = IF m = n THEN S \cup {z} ELSE S
  BY <1>1, <1>2
<1>5. z \notin S
  BY <1>1
<1>6. Cardinality(T) = Cardinality(S) + (IF m = n THEN 1 ELSE 0)
  <2> HIDE DEF S, T, z
  <2>1. Cardinality(S \cup {z}) = Cardinality(S) + 1
    BY <1>3, <1>5, FS_AddElement
  <2> QED
    BY <1>3, <1>4, <2>1
<1> QED
  BY <1>3, <1>6 DEF Times

\* The clients whose event is due.
Due == {c \in Clients : call[c].pc = "emit"}

DueFor(kl, n) == {c \in Clients : /\ At(c, "emit")
                                  /\ <<call[c].key, call[c].label>> = kl
                                  /\ call[c].version = n}

Matches(x, kl, n) == <<x.key, x.label>> = kl /\ x.version = n

One(b) == IF b THEN 1 ELSE 0

CountInv ==
  /\ IsFiniteSet(Due)
  /\ faults = 0 => latePointers = {}
  /\ \A kl \in KeyLabels : \A n \in Nat \ {0} :
       LET told == Times(audit[kl], n) + Unannounced(kl, n)
           done == Times(moves[kl], n)
       IN told <= done /\ (faults = 0 => told = done)

LEMMA FaultsOnly ==
  ASSUME IInv, [Next]_vars
  PROVE  faults' = 0 => faults = 0 /\ latePointers' \subseteq latePointers
<1>0. faults \in Nat
  BY DEF IInv, TInv, TypeOK
<1>1. ASSUME NEW c \in Clients, BeginCall(c)
      PROVE  faults' \in {faults, faults + 1} /\ latePointers' = latePointers
  BY <1>1, BeginFrame
  DEF BeginCall, BeginResolve, BeginGetVersion, BeginGetActive, BeginAdd, BeginPromote,
      BeginRevert, BeginSeed, BeginSync, BeginDefaults, BeginListVersions,
      BeginListKeys, ResolveUnavailable, Begin
<1>2. ASSUME NEW c \in Clients, Continue(c)
      PROVE  faults' = faults /\ latePointers' = latePointers
  <2>1. faults' = faults
    BY <1>2
    DEF Continue, ReadLabel, ReadVersion, ReadMax, InsertVersion, Load, RunGate,
        UpsertLabel, EmitAccepted, EnsureIndexes, DefaultsDone, SeedProbe, SyncCompare,
        SyncCompareVersion, VetDefault, DistinctKeys, ListLabel, ListRows, Move, Advance
  <2> QED
    BY <1>2, <2>1, ContinueFrame
<1>3. ASSUME Fault PROVE faults' = faults + 1
  BY <1>3 DEF Fault, AwaitRejects, Crash
<1>4. ASSUME LateInsert \/ LateUpsert \/ UNCHANGED vars
      PROVE  faults' = faults /\ latePointers' \subseteq latePointers
  BY <1>4 DEF LateInsert, LateUpsert, vars
<1> QED
  BY <1>0, <1>1, <1>2, <1>3, <1>4 DEF Next, Rest

LEMMA StepCountInv == IInv /\ AInv /\ RInv /\ CountInv /\ Told => CountInv'
<1> SUFFICES ASSUME IInv, AInv, RInv, CountInv, Told PROVE CountInv'
  OBVIOUS
<1>0. /\ [Next]_vars /\ HType /\ call \in [Clients -> Calls] /\ faults \in Nat
      /\ moves' = Extend(moves, Landed) /\ audit' = Extend(audit, Emitted)
      /\ latePointers \subseteq Pointers
  BY WatchTold DEF Told, RInv, IInv, TInv, TypeOK, SaneCalls
<1>1. faults' = 0 => faults = 0 /\ latePointers' = {}
  BY <1>0, FaultsOnly DEF CountInv
<1>2. ASSUME NEW x, NEW seqs \in [KeyLabels -> Seq(Nat)], x.version \in Nat,
             NEW kl \in KeyLabels, NEW n
      PROVE  /\ Times(seqs[kl], n) \in Nat
             /\ Times(Extend(seqs, {x})[kl], n) = Times(seqs[kl], n) + One(Matches(x, kl, n))
  <2>1. seqs[kl] \in Seq(Nat)
    OBVIOUS
  <2>2. /\ Times(seqs[kl], n) \in Nat
        /\ Times(Append(seqs[kl], x.version), n) =
             Times(seqs[kl], n) + (IF x.version = n THEN 1 ELSE 0)
    BY <1>2, <2>1, TimesCount
  <2>3. CASE <<x.key, x.label>> = kl
    <3>1. Extend(seqs, {x})[kl] = Append(seqs[kl], x.version)
      BY <2>3, ExtendOne
    <3> QED
      BY <2>2, <2>3, <3>1 DEF Matches, One
  <2>4. CASE <<x.key, x.label>> # kl
    <3>1. Extend(seqs, {x})[kl] = seqs[kl]
      BY <2>4, ExtendOne
    <3> QED
      BY <2>2, <2>4, <3>1 DEF Matches, One
  <2> QED
    BY <2>3, <2>4
<1>3. ASSUME NEW kl, NEW n
      PROVE  /\ IsFiniteSet(DueFor(kl, n)) /\ Cardinality(DueFor(kl, n)) \in Nat
             /\ Unannounced(kl, n) = Cardinality(DueFor(kl, n))
             /\ Unannounced(kl, n)' = Cardinality(DueFor(kl, n)')
  <2>1. DueFor(kl, n) \subseteq Due
    BY DEF DueFor, Due, At
  <2>2. IsFiniteSet(DueFor(kl, n))
    BY <2>1, FS_Subset DEF CountInv
  <2> QED
    BY <2>2, FS_CardinalityType DEF Unannounced, DueFor
<1>4. ASSUME NEW kl \in KeyLabels, NEW n \in Nat \ {0}
      PROVE  /\ Times(moves[kl], n) \in Nat /\ Times(audit[kl], n) \in Nat
             /\ Times(audit[kl], n) + Unannounced(kl, n) <= Times(moves[kl], n)
             /\ faults = 0 =>
                  Times(audit[kl], n) + Unannounced(kl, n) = Times(moves[kl], n)
  <2>1. moves[kl] \in Seq(Nat) /\ audit[kl] \in Seq(Nat)
    BY <1>0 DEF HType
  <2> QED
    BY <2>1, TimesCount DEF CountInv
<1>5. ASSUME NEW x \in Pointers, Emitted = {}, Landed = {x}, call' = call,
             faults' # 0
      PROVE  CountInv'
  <2>1. ASSUME NEW kl \in KeyLabels, NEW n \in Nat \ {0}
        PROVE  Times(audit'[kl], n) + Unannounced(kl, n)' <= Times(moves'[kl], n)
    <3>1. Unannounced(kl, n)' = Unannounced(kl, n)
      BY <1>5 DEF Unannounced, At
    <3>2. audit' = audit
      BY <1>0, <1>5, ExtendNone DEF HType
    <3>3. Times(moves'[kl], n) = Times(moves[kl], n) + One(Matches(x, kl, n))
      BY <1>0, <1>2, <1>5 DEF HType, Pointers
    <3> QED
      BY <1>3, <1>4, <3>1, <3>2, <3>3 DEF One
  <2>2. IsFiniteSet(Due)'
    BY <1>5 DEF CountInv, Due
  <2> QED
    BY <1>5, <2>1, <2>2 DEF CountInv
<1>6. ASSUME NEW c \in Clients, UpsertLabel(c), Emitted = {}, Landed = {PointerOf(c)}
      PROVE  CountInv'
  <2> DEFINE x == PointerOf(c)
  <2>1. call[c].pc = "point" /\ faults' = faults /\ latePointers' = latePointers
    BY <1>6 DEF UpsertLabel, At, Advance
  <2>2. /\ call'[c] = Goto(call[c], "emit") /\ \A d \in Clients \ {c} : call'[d] = call[d]
    BY <1>6, CallIsSet DEF UpsertLabel, Advance
  <2>3. /\ call'[c].pc = "emit" /\ call'[c].key = x.key /\ call'[c].label = x.label
        /\ call'[c].version = x.version
    BY <1>0, <2>2 DEF Goto, Calls, PointerOf
  <2>4. x \in Pointers
    BY <2>1, LandedTyped
  <2>5. IsFiniteSet(Due)'
    <3>1. Due' = Due \cup {c}
      BY <2>2, <2>3 DEF Due
    <3> QED
      BY <3>1, FS_AddElement DEF CountInv
  <2>6. ASSUME NEW kl \in KeyLabels, NEW n \in Nat \ {0}
        PROVE  /\ Times(audit'[kl], n) + Unannounced(kl, n)' <= Times(moves'[kl], n)
               /\ faults = 0 =>
                    Times(audit'[kl], n) + Unannounced(kl, n)' = Times(moves'[kl], n)
    <3>1. DueFor(kl, n)' = IF Matches(x, kl, n) THEN DueFor(kl, n) \cup {c} ELSE DueFor(kl, n)
      BY <2>1, <2>2, <2>3 DEF DueFor, At, Matches
    <3>2. c \notin DueFor(kl, n)
      BY <2>1 DEF DueFor, At
    <3>3. Unannounced(kl, n)' = Unannounced(kl, n) + One(Matches(x, kl, n))
      <4>1. Cardinality(DueFor(kl, n) \cup {c}) = Cardinality(DueFor(kl, n)) + 1
        BY <1>3, <3>2, FS_AddElement
      <4>2. CASE Matches(x, kl, n)
        <5>1. DueFor(kl, n)' = DueFor(kl, n) \cup {c} /\ One(Matches(x, kl, n)) = 1
          BY <3>1, <4>2 DEF One
        <5> QED
          BY <1>3, <4>1, <5>1
      <4>3. CASE ~ Matches(x, kl, n)
        <5>1. DueFor(kl, n)' = DueFor(kl, n) /\ One(Matches(x, kl, n)) = 0
          BY <3>1, <4>3 DEF One
        <5> QED
          BY <1>3, <5>1
      <4> QED
        BY <4>2, <4>3
    <3>4. audit' = audit
      BY <1>0, <1>6, ExtendNone DEF HType
    <3>5. Times(moves'[kl], n) = Times(moves[kl], n) + One(Matches(x, kl, n))
      BY <1>0, <1>2, <1>6, <2>4 DEF HType, Pointers
    <3>6. Unannounced(kl, n) \in Nat /\ One(Matches(x, kl, n)) \in Nat
      BY <1>3 DEF One
    <3> QED
      BY <1>4, <3>3, <3>4, <3>5, <3>6
  <2> QED
    BY <1>1, <2>1, <2>5, <2>6 DEF CountInv
<1>7. ASSUME NEW c \in Clients, EmitAccepted(c), Landed = {}, Emitted = {PointerOf(c)}
      PROVE  CountInv'
  <2> DEFINE x == PointerOf(c)
  <2>1. call[c].pc = "emit" /\ faults' = faults /\ latePointers' = latePointers
    BY <1>7 DEF EmitAccepted, Move, At, Advance, backend
  <2>2. /\ call'[c] = AfterPromote(call[c])
        /\ \A d \in Clients \ {c} : call'[d] = call[d]
    BY <1>7, CallIsSet DEF EmitAccepted, Move, Advance
  <2>3. call'[c].pc # "emit"
    BY <1>0, <2>2 DEF AfterPromote, NextDefault, Finish, Goto, Calls
  <2>4. x \in Pointers
    BY <2>1, LandedTyped
  <2>5. IsFiniteSet(Due)'
    <3>1. Due' \subseteq Due
      BY <2>2, <2>3 DEF Due
    <3> QED
      BY <3>1, FS_Subset DEF CountInv
  <2>6. ASSUME NEW kl \in KeyLabels, NEW n \in Nat \ {0}
        PROVE  /\ Times(audit'[kl], n) + Unannounced(kl, n)' <= Times(moves'[kl], n)
               /\ faults = 0 =>
                    Times(audit'[kl], n) + Unannounced(kl, n)' = Times(moves'[kl], n)
    <3>1. DueFor(kl, n)' = DueFor(kl, n) \ {c}
      BY <2>2, <2>3 DEF DueFor, At
    <3>2. c \in DueFor(kl, n) <=> Matches(x, kl, n)
      BY <2>1 DEF DueFor, At, Matches, PointerOf
    <3>3. Unannounced(kl, n) = Unannounced(kl, n)' + One(Matches(x, kl, n))
      <4>1. CASE c \in DueFor(kl, n)
        <5>1. Cardinality(DueFor(kl, n) \ {c}) = Cardinality(DueFor(kl, n)) - 1
          BY <1>3, <4>1, FS_RemoveElement
        <5>2. One(Matches(x, kl, n)) = 1
          BY <3>2, <4>1 DEF One
        <5> QED
          BY <1>3, <3>1, <5>1, <5>2
      <4>2. CASE c \notin DueFor(kl, n)
        <5>1. DueFor(kl, n) \ {c} = DueFor(kl, n) /\ One(Matches(x, kl, n)) = 0
          BY <3>2, <4>2 DEF One
        <5> QED
          BY <1>3, <3>1, <5>1
      <4> QED
        BY <4>1, <4>2
    <3>4. moves' = moves
      BY <1>0, <1>7, ExtendNone DEF HType
    <3>5. Times(audit'[kl], n) = Times(audit[kl], n) + One(Matches(x, kl, n))
      BY <1>0, <1>2, <1>7, <2>4 DEF HType, Pointers
    <3>6. /\ Unannounced(kl, n) \in Nat /\ One(Matches(x, kl, n)) \in Nat
          /\ One(Matches(x, kl, n)) <= Unannounced(kl, n)
      <4>1. One(Matches(x, kl, n)) \in {0, 1}
        BY DEF One
      <4>2. Unannounced(kl, n)' \in Nat
        <5>1. IsFiniteSet(DueFor(kl, n) \ {c})
          BY <1>3, FS_Subset
        <5> QED
          BY <1>3, <3>1, <5>1, FS_CardinalityType
      <4> QED
        BY <1>3, <3>3, <4>1, <4>2
    <3>7. Unannounced(kl, n)' = Unannounced(kl, n) - One(Matches(x, kl, n))
      <4>1. Unannounced(kl, n)' \in Nat
        <5>1. IsFiniteSet(DueFor(kl, n) \ {c})
          BY <1>3, FS_Subset
        <5> QED
          BY <1>3, <3>1, <5>1, FS_CardinalityType
      <4> QED
        BY <3>3, <3>6, <4>1
    <3> QED
      BY <1>4, <3>4, <3>5, <3>6, <3>7
  <2> QED
    BY <1>1, <2>1, <2>5, <2>6 DEF CountInv
<1>8. ASSUME Silent PROVE CountInv'
  <2>1. moves' = moves /\ audit' = audit
    BY <1>0, <1>8, ExtendNone DEF HType, Silent
  <2>2. IsFiniteSet(Due)'
    <3>1. Due' \subseteq Due
      BY <1>8 DEF Due, Silent
    <3> QED
      BY <3>1, FS_Subset DEF CountInv
  <2>3. ASSUME NEW kl \in KeyLabels, NEW n \in Nat \ {0}
        PROVE  /\ Unannounced(kl, n)' \in Nat
               /\ Unannounced(kl, n)' <= Unannounced(kl, n)
               /\ faults' = 0 => Unannounced(kl, n)' = Unannounced(kl, n)
    <3>1. DueFor(kl, n)' \subseteq DueFor(kl, n)
      BY <1>8 DEF Silent, DueFor, At
    <3>2. faults' = 0 => DueFor(kl, n)' = DueFor(kl, n)
      BY <1>8 DEF Silent, DueFor, At
    <3>3. /\ IsFiniteSet(DueFor(kl, n)')
          /\ Cardinality(DueFor(kl, n)') <= Cardinality(DueFor(kl, n))
      BY <1>3, <3>1, FS_Subset
    <3> QED
      BY <1>3, <3>2, <3>3, FS_CardinalityType
  <2>4. ASSUME NEW kl \in KeyLabels, NEW n \in Nat \ {0}
        PROVE  /\ Times(audit'[kl], n) + Unannounced(kl, n)' <= Times(moves'[kl], n)
               /\ faults' = 0 =>
                    Times(audit'[kl], n) + Unannounced(kl, n)' = Times(moves'[kl], n)
    BY <1>1, <1>3, <1>4, <2>1, <2>3
  <2> QED
    BY <1>1, <2>2, <2>4 DEF CountInv
<1> QED
  BY <1>0, <1>1, <1>5, <1>6, <1>7, <1>8, StepTold DEF CountInv

\* The events tell no move that did not happen, and while no answer was lost and
\* no process died they miss none, up to those still to be emitted.
THEOREM AuditIsTrue == HSpec => []AuditCountsMoves
<1>1. HInit => CountInv
  <2> SUFFICES ASSUME HInit PROVE CountInv
    OBVIOUS
  <2>1. Due = {} /\ latePointers = {}
    BY DEF HInit, Init, Due, NoCall
  <2>2. ASSUME NEW kl \in KeyLabels, NEW n \in Nat \ {0}
        PROVE  Times(audit[kl], n) = 0 /\ Unannounced(kl, n) = 0 /\ Times(moves[kl], n) = 0
    <3>1. moves[kl] = <<0>> /\ audit[kl] = << >>
      BY DEF HInit
    <3>2. {i \in DOMAIN moves[kl] : moves[kl][i] = n} = {}
      BY <3>1
    <3>3. {i \in DOMAIN audit[kl] : audit[kl][i] = n} = {}
      BY <3>1
    <3>4. {c \in Clients : /\ At(c, "emit") /\ <<call[c].key, call[c].label>> = kl
                           /\ call[c].version = n} = {}
      BY DEF HInit, Init, NoCall, At
    <3> QED
      BY <3>2, <3>3, <3>4, FS_EmptySet DEF Times, Unannounced
  <2> QED
    BY <2>1, <2>2, FS_EmptySet DEF CountInv
<1>2. CountInv => AuditCountsMoves
  <2> SUFFICES ASSUME CountInv, NEW kl \in KeyLabels, NEW n \in 1 .. MaxVersion(kl[1])
               PROVE  LET told == Times(audit[kl], n) + Unannounced(kl, n)
                          done == Times(moves[kl], n)
                      IN told <= done /\ (faults = 0 => told = done)
    BY DEF AuditCountsMoves
  <2>1. n \in Nat \ {0}
    OBVIOUS
  <2> QED
    BY <2>1 DEF CountInv
<1> QED
  BY <1>1, <1>2, HInitRInv, StepRInv, StepCountInv, HistoryIsSafe, HistoryTells, PTL DEF HSpec

=============================================================================
