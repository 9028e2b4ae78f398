------------------------- MODULE OperatorCliProofs --------------------------
(***************************************************************************)
(* Theorems about OperatorCli for any registered domains, any defaults and *)
(* any number of runs, rejections and failing writes.                      *)
(***************************************************************************)
EXTENDS OperatorCli, SequenceTheorems, TLAPS

-----------------------------------------------------------------------------
\* Lists of domains.

LEMMA TailOfList ==
  ASSUME NEW s \in Seq(Domains), s # << >>
  PROVE  /\ Head(s) \in Range(s) /\ Tail(s) \in Seq(Domains)
         /\ Range(s) = Range(Tail(s)) \cup {Head(s)}
         /\ IsInjective(s) => IsInjective(Tail(s)) /\ Head(s) \notin Range(Tail(s))
<1> DEFINE t == Tail(s)
<1>1. /\ t \in Seq(Domains) /\ Len(t) = Len(s) - 1 /\ Len(s) \in Nat \ {0}
      /\ \A i \in 1 .. Len(t) : t[i] = s[i + 1]
  BY HeadTailProperties, EmptySeq
<1>2. DOMAIN s = 1 .. Len(s) /\ DOMAIN t = 1 .. Len(t) /\ Head(s) = s[1]
  BY <1>1
<1>3. Head(s) \in Range(s)
  BY <1>1, <1>2 DEF Range
<1>4. ASSUME NEW x \in Range(t) PROVE \E i \in 2 .. Len(s) : s[i] = x
  <2>1. PICK i \in 1 .. Len(t) : t[i] = x
    BY <1>2 DEF Range
  <2>2. i + 1 \in 2 .. Len(s)
    BY <1>1
  <2> QED
    BY <1>1, <2>1, <2>2
<1>5. ASSUME NEW x \in Range(s) PROVE x = Head(s) \/ x \in Range(t)
  <2>1. PICK i \in 1 .. Len(s) : s[i] = x
    BY <1>2 DEF Range
  <2>2. CASE i = 1
    BY <1>2, <2>1, <2>2
  <2>3. CASE i # 1
    <3>1. i - 1 \in 1 .. Len(t) /\ (i - 1) + 1 = i
      BY <1>1, <2>3
    <3>2. t[i - 1] = x
      BY <1>1, <2>1, <3>1
    <3> QED
      BY <1>2, <3>1, <3>2 DEF Range
  <2> QED
    BY <2>2, <2>3
<1>6. Range(s) = Range(t) \cup {Head(s)}
  <2>1. \A x \in Range(t) : x \in Range(s)
    BY <1>2, <1>4 DEF Range
  <2> QED
    BY <1>3, <1>5, <2>1
<1>7. ASSUME IsInjective(s) PROVE IsInjective(t) /\ Head(s) \notin Range(t)
  <2>1. ASSUME NEW a \in 1 .. Len(t), NEW b \in 1 .. Len(t), t[a] = t[b] PROVE a = b
    <3>1. s[a + 1] = s[b + 1] /\ a + 1 \in 1 .. Len(s) /\ b + 1 \in 1 .. Len(s)
      BY <1>1, <2>1
    <3> QED
      BY <1>2, <1>7, <3>1 DEF IsInjective
  <2>2. ASSUME Head(s) \in Range(t) PROVE FALSE
    <3>1. PICK i \in 2 .. Len(s) : s[i] = s[1]
      BY <1>2, <1>4, <2>2
    <3> QED
      BY <1>1, <1>2, <1>7, <3>1 DEF IsInjective
  <2> QED
    BY <1>2, <2>1, <2>2 DEF IsInjective
<1> QED
  BY <1>1, <1>3, <1>6, <1>7

-----------------------------------------------------------------------------
\* Types, and how much a run may still do.

Points == {"connect", "verb", "drain", "draining", "done", "threw", "dead"}

RunRecords ==
  [verb : Parsed, domain : Domains \cup {None, "unknown"}, version : Nat,
   value : Values \cup {None}, keyed : BOOLEAN, pc : Points, todo : Seq(Domains),
   waits : SUBSET Writes, refused : BOOLEAN, exit : 0 .. 2]

TInv ==
  /\ counts \in [EventTypes -> [Domains -> Nat]]
  /\ inflight \subseteq Writes /\ written \subseteq Writes
  /\ swallowed \subseteq Writes /\ rejected \subseteq Writes /\ lost \subseteq Writes
  /\ throws \in BOOLEAN
  /\ stored \in [Domains -> Seq(Values)]
  /\ live \in [Domains -> Nat]
  /\ \A d \in Domains : live[d] <= Len(stored[d])
  /\ reverted \in [Domains -> SUBSET Nat]
  /\ \A d \in Domains : reverted[d] \subseteq 1 .. Len(stored[d])
  /\ run \in RunRecords
  /\ runs \in 0 .. MaxRuns /\ faults \in 0 .. MaxFaults

\* The run has not come to domain d yet.
Ahead(r, d) == r.pc = "connect" \/ (r.pc = "verb" /\ d \in Range(r.todo))

Left(r, d) == IF Ahead(r, d) THEN 1 ELSE 0

\* A run adds one version of a domain at most, and one event of a type.
OncePerRun ==
  /\ run.pc = "verb" => IsInjective(run.todo)
  /\ run.pc = "draining" => run.todo # << >>
  /\ \A d \in Domains : /\ \A t \in EventTypes : counts[t][d] + Left(run, d) <= runs
                        /\ Len(stored[d]) + Left(run, d) <= runs + 1

Inv == TInv /\ OncePerRun

\* The ways a run's record moves on keep its type.
LEMMA PcMoves ==
  ASSUME NEW r \in RunRecords, NEW p \in Points
  PROVE  [r EXCEPT !.pc = p] \in RunRecords /\ [r EXCEPT !.pc = p].pc = p
  BY DEF RunRecords

LEMMA ExitMoves ==
  ASSUME NEW r \in RunRecords, NEW p \in Points, NEW e \in 0 .. 2
  PROVE  /\ [r EXCEPT !.pc = p, !.exit = e] \in RunRecords
         /\ [r EXCEPT !.pc = p, !.exit = e].pc = p
  BY DEF RunRecords

LEMMA TodoMoves ==
  ASSUME NEW r \in RunRecords, NEW p \in Points, NEW s \in Seq(Domains)
  PROVE  /\ [r EXCEPT !.pc = p, !.todo = s] \in RunRecords
         /\ [r EXCEPT !.pc = p, !.todo = s].pc = p
         /\ [r EXCEPT !.pc = p, !.todo = s].todo = s
  BY DEF RunRecords

LEMMA WaitsMoves ==
  ASSUME NEW r \in RunRecords, NEW p \in Points, NEW W \in SUBSET Writes
  PROVE  /\ [r EXCEPT !.pc = p, !.waits = W] \in RunRecords
         /\ [r EXCEPT !.pc = p, !.waits = W].pc = p
  BY DEF RunRecords

LEMMA TodoWaitsMoves ==
  ASSUME NEW r \in RunRecords, NEW p \in Points, NEW s \in Seq(Domains),
         NEW W \in SUBSET Writes
  PROVE  /\ [r EXCEPT !.pc = p, !.todo = s, !.waits = W] \in RunRecords
         /\ [r EXCEPT !.pc = p, !.todo = s, !.waits = W].pc = p
  BY DEF RunRecords

LEMMA BeginShape ==
  ASSUME NEW verb \in Parsed, NEW domain \in Domains \cup {None, "unknown"}, NEW n \in Nat,
         NEW v \in Values \cup {None}, NEW keyed \in BOOLEAN, Begin(verb, domain, n, v, keyed)
  PROVE  /\ run' \in RunRecords
         /\ run'.pc = (IF verb \in Verbs THEN "connect" ELSE "done")
         /\ run'.exit = (IF verb = "usage" THEN 2 ELSE 0)
         /\ run'.refused = FALSE /\ run'.verb = verb
<1>1. run' = [verb |-> verb, domain |-> domain, version |-> n, value |-> v, keyed |-> keyed,
              pc |-> IF verb \in Verbs THEN "connect" ELSE "done", todo |-> << >>,
              waits |-> {}, refused |-> FALSE, exit |-> IF verb = "usage" THEN 2 ELSE 0]
  BY DEF Begin, NoRun
<1>2. << >> \in Seq(Domains) /\ {} \in SUBSET Writes /\ FALSE \in BOOLEAN
  OBVIOUS
<1>3. run' \in RunRecords
  BY <1>1, <1>2 DEF RunRecords, Points
<1> QED
  BY <1>1, <1>3

LEMMA FinallyTyped ==
  ASSUME NEW r \in RunRecords, NEW e \in 0 .. 2
  PROVE  /\ Finally(r, e) \in RunRecords /\ Finally(r, e).pc = "drain"
         /\ Finally(r, e).todo = Commands /\ Finally(r, e).exit = e
         /\ Finally(r, e).refused = r.refused /\ Finally(r, e).verb = r.verb
         /\ Finally(r, e).domain = r.domain /\ Finally(r, e).version = r.version
         /\ Finally(r, e).value = r.value /\ Finally(r, e).keyed = r.keyed
<1>1. Commands \in Seq(Domains)
  BY CliAssumption
<1> QED
  BY <1>1 DEF Finally, RunRecords, Points

LEMMA InitInv == Init => Inv
<1> SUFFICES ASSUME Init PROVE Inv
  OBVIOUS
<1>1. NoRun \in RunRecords /\ NoRun.pc = "done"
  BY DEF NoRun, RunRecords, Parsed, Points
<1>2. ASSUME NEW d \in Domains
      PROVE  stored[d] \in Seq(Values) /\ Len(stored[d]) \in {0, 1}
  <2>1. stored[d] = << >> \/ \E v \in Values : stored[d] = <<v>>
    BY DEF Init
  <2>2. ASSUME NEW v \in Values
        PROVE  <<v>> \in Seq(Values) /\ Len(<<v>>) = 1
    OBVIOUS
  <2>3. << >> \in Seq(Values) /\ Len(<< >>) = 0
    OBVIOUS
  <2> QED
    BY <2>1, <2>2, <2>3
<1>3. stored \in [Domains -> Seq(Values)] /\ live \in [Domains -> Nat]
  BY <1>2 DEF Init
<1>4. ASSUME NEW d \in Domains PROVE live[d] <= Len(stored[d])
  <2>1. live[d] \in {0, 1} /\ (live[d] # 0 => stored[d] # << >>)
    BY DEF Init
  <2> QED
    BY <1>2, <2>1, EmptySeq
<1>5. TInv
  BY <1>1, <1>3, <1>4, CliAssumption DEF Init, SinkInit, TInv
<1>6. OncePerRun
  <2>1. run.pc = "done" /\ runs = 0
    BY <1>1 DEF Init
  <2>2. \A d \in Domains : Left(run, d) = 0
    BY <2>1 DEF Ahead, Left
  <2>3. \A d \in Domains : \A t \in EventTypes : counts[t][d] = 0
    BY DEF Init, SinkInit
  <2>4. ASSUME NEW d \in Domains, NEW t \in EventTypes
        PROVE  counts[t][d] + Left(run, d) <= runs /\ Len(stored[d]) + Left(run, d) <= runs + 1
    <3>1. Len(stored[d]) \in {0, 1}
      BY <1>2
    <3>2. Left(run, d) = 0 /\ counts[t][d] = 0 /\ runs = 0
      BY <2>1, <2>2, <2>3
    <3>3. counts[t][d] + Left(run, d) <= runs
      BY <3>2
    <3>4. Len(stored[d]) + Left(run, d) <= runs + 1
      <4>1. CASE Len(stored[d]) = 0
        BY <3>2, <4>1
      <4>2. CASE Len(stored[d]) = 1
        BY <3>2, <4>2
      <4> QED
        BY <3>1, <4>1, <4>2
    <3> QED
      BY <3>3, <3>4
  <2>5. EventTypes # {}
    BY DEF EventTypes
  <2> QED
    BY <2>1, <2>4, <2>5 DEF OncePerRun
<1> QED
  BY <1>5, <1>6 DEF Inv

-----------------------------------------------------------------------------
\* What a verb does on the domain whose turn it is.

VerbStep(d) ==
  \/ List(d) \/ Diff(d) \/ Add(d) \/ Promote(d) \/ PromoteMissing(d)
  \/ PromoteRefused(d) \/ Revert(d) \/ SeedOrSync(d) \/ Health(d)

\* The effects of one turn, whichever verb it is.
TurnTaken(d) ==
  /\ run.pc = "verb" /\ run.todo # << >> /\ d = Head(run.todo)
  /\ \/ \E b \in BOOLEAN : Returned(b)
     \/ Threw
  /\ stored' = stored \/ \E v \in Values : Store(d, v)
  /\ \/ live' = live
     \/ \E n \in Nat : n <= Len(stored'[d]) /\ live' = [live EXCEPT ![d] = n]
  /\ \/ reverted' = reverted
     \/ \E v \in Values : /\ Store(d, v)
                          /\ reverted' = [reverted EXCEPT ![d] = @ \cup {Len(stored[d]) + 1}]
  /\ UNCHANGED sink \/ \E types \in SUBSET EventTypes : Emit(d, types)

LEMMA VerbTurn ==
  ASSUME TInv, NEW d \in Domains, VerbStep(d) \/ StoreRejects(d)
  PROVE  TurnTaken(d)
<1>0. /\ stored \in [Domains -> Seq(Values)] /\ run \in RunRecords
      /\ Default[d] \in Values \cup {None} /\ Len(stored[d]) \in Nat
  BY CliAssumption DEF TInv
<1>1. CASE List(d) \/ Diff(d) \/ PromoteMissing(d)
  BY <1>1 DEF List, Diff, PromoteMissing, Turn, At, TurnTaken, stores
<1>2. CASE Add(d)
  BY <1>0, <1>2 DEF Add, Turn, At, TurnTaken, RunRecords
<1>3. CASE PromoteRefused(d)
  <2>1. {"gate-outcome", "promote-refused"} \in SUBSET EventTypes
    BY DEF EventTypes
  <2> QED
    BY <1>3, <2>1 DEF PromoteRefused, Turn, At, TurnTaken, stores
<1>4. CASE Promote(d)
  <2>1. {"gate-outcome", "promote-accepted"} \in SUBSET EventTypes
    BY DEF EventTypes
  <2>2. run.version \in Nat /\ run.version <= Len(stored[d]) /\ stored' = stored
    <3>1. DOMAIN stored[d] = 1 .. Len(stored[d])
      BY <1>0
    <3> QED
      BY <1>0, <1>4, <3>1 DEF Promote, GatePasses
  <2> QED
    BY <1>4, <2>1, <2>2 DEF Promote, MoveLive, Turn, At, TurnTaken
<1>5. ASSUME Install(d), Default[d] # None
      PROVE  /\ Store(d, Default[d]) /\ Default[d] \in Values
             /\ \E n \in Nat : n <= Len(stored'[d]) /\ live' = [live EXCEPT ![d] = n]
             /\ \E types \in SUBSET EventTypes : Emit(d, types)
  <2>1. stored'[d] = Append(stored[d], Default[d]) /\ Default[d] \in Values
    BY <1>0, <1>5 DEF Install, Store
  <2>2. Len(stored'[d]) = Len(stored[d]) + 1
    BY <1>0, <2>1, AppendProperties
  <2>3. {"promote-accepted"} \in SUBSET EventTypes
    BY DEF EventTypes
  <2>4. Len(stored[d]) + 1 \in Nat /\ Len(stored[d]) + 1 <= Len(stored'[d])
    BY <1>0, <2>2
  <2> QED
    BY <1>5, <2>1, <2>3, <2>4 DEF Install, MoveLive
<1>6. CASE Revert(d)
  BY <1>5, <1>6 DEF Revert, NoteRevert, Turn, At, TurnTaken, stores
<1>7. CASE SeedOrSync(d)
  BY <1>5, <1>7 DEF SeedOrSync, UpToDate, Turn, At, TurnTaken, stores
<1>8. CASE Health(d)
  BY <1>8 DEF Health, Turn, At, TurnTaken, stores
<1>9. CASE StoreRejects(d)
  <2>1. Turn(d) /\ Threw
    BY <1>9 DEF StoreRejects
  <2>2. ASSUME NEW v \in Values, Store(d, v),
               live' = live \/ MoveLive(d, Len(stored[d]) + 1),
               reverted' = reverted \/ NoteRevert(d), UNCHANGED sink
        PROVE  TurnTaken(d)
    <3>1. stored'[d] = Append(stored[d], v)
      BY <1>0, <2>2 DEF Store
    <3>2. Len(stored'[d]) = Len(stored[d]) + 1
      BY <1>0, <3>1, AppendProperties
    <3>3. Len(stored[d]) + 1 \in Nat /\ Len(stored[d]) + 1 <= Len(stored'[d])
      BY <1>0, <3>2
    <3> QED
      BY <2>1, <2>2, <3>3 DEF Turn, At, TurnTaken, MoveLive, NoteRevert
  <2>3. CASE UNCHANGED <<stores, sink>>
    BY <2>1, <2>3 DEF Turn, At, TurnTaken, stores
  <2>4. ASSUME /\ run.value # None /\ Store(d, run.value)
               /\ UNCHANGED <<live, reverted, sink>>
        PROVE  TurnTaken(d)
    BY <1>0, <2>2, <2>4 DEF RunRecords
  <2>5. ASSUME /\ GatePasses(d)
               /\ UNCHANGED live \/ MoveLive(d, run.version)
               /\ Emit(d, {"gate-outcome"}) /\ UNCHANGED <<stored, reverted>>
        PROVE  TurnTaken(d)
    <3>1. {"gate-outcome"} \in SUBSET EventTypes
      BY DEF EventTypes
    <3>2. run.version \in Nat /\ run.version <= Len(stored'[d])
      <4>1. DOMAIN stored[d] = 1 .. Len(stored[d]) /\ stored' = stored
        BY <1>0, <2>5
      <4>2. run.version \in 1 .. Len(stored[d])
        BY <2>5, <4>1 DEF GatePasses
      <4> QED
        BY <1>0, <4>1, <4>2
    <3> QED
      BY <2>1, <2>5, <3>1, <3>2 DEF Turn, At, TurnTaken, MoveLive
  <2>6. ASSUME Default[d] # None, Store(d, Default[d]), UNCHANGED sink,
               \/ UNCHANGED <<live, reverted>>
               \/ MoveLive(d, Len(stored[d]) + 1) /\ (NoteRevert(d) \/ reverted' = reverted)
        PROVE  TurnTaken(d)
    BY <1>0, <2>2, <2>6
  <2> QED
    BY <1>9, <2>3, <2>4, <2>5, <2>6 DEF StoreRejects, UpToDate
<1> QED
  BY <1>1, <1>2, <1>3, <1>4, <1>6, <1>7, <1>8, <1>9 DEF VerbStep

\* A turn ends in the next one, or in the finally block.
LEMMA TurnMoves ==
  ASSUME run \in RunRecords, run.todo # << >>, run.pc = "verb",
         Threw \/ \E b \in BOOLEAN : Returned(b)
  PROVE  /\ run' \in RunRecords
         /\ \/ run'.pc = "verb" /\ run'.todo = Tail(run.todo)
            \/ run'.pc = "drain" /\ run'.todo = Commands
<1>1. CASE Threw
  BY <1>1, FinallyTyped DEF Threw
<1>2. ASSUME NEW b \in BOOLEAN, Returned(b)
      PROVE  /\ run' \in RunRecords
             /\ \/ run'.pc = "verb" /\ run'.todo = Tail(run.todo)
                \/ run'.pc = "drain" /\ run'.todo = Commands
  <2> DEFINE r == [run EXCEPT !.todo = Tail(@), !.refused = @ \/ b]
  <2>1. run.todo \in Seq(Domains) /\ Tail(run.todo) \in Seq(Domains)
    BY TailOfList DEF RunRecords
  <2>2. r \in RunRecords /\ r.pc = "verb" /\ r.todo = Tail(run.todo)
    BY <2>1 DEF RunRecords
  <2>3. \A code \in {0, 1} : /\ Finally(r, code) \in RunRecords /\ Finally(r, code).pc = "drain"
                             /\ Finally(r, code).todo = Commands
    <3> HIDE DEF r
    <3> QED
      BY <2>2, FinallyTyped
  <2>4. run' = r \/ run' = Finally(r, 0) \/ run' = Finally(r, 1)
    BY <1>2 DEF Returned
  <2> HIDE DEF r
  <2> QED
    BY <2>2, <2>3, <2>4
<1> QED
  BY <1>1, <1>2

LEMMA StepInv == Inv /\ [Next]_vars => Inv'
<1> SUFFICES ASSUME Inv, [Next]_vars PROVE Inv'
  OBVIOUS
<1>0. /\ TInv /\ OncePerRun /\ run \in RunRecords /\ stored \in [Domains -> Seq(Values)]
      /\ counts \in [EventTypes -> [Domains -> Nat]] /\ runs \in Nat
      /\ MaxRuns \in Nat /\ MaxFaults \in Nat /\ MaxEvents \in Nat /\ MaxEvents >= MaxRuns
  BY CliAssumption DEF Inv, TInv
<1>0b. run \in RunRecords
  BY <1>0
<1>0c. faults \in 0 .. MaxFaults /\ MaxFaults \in Nat
  BY <1>0 DEF TInv
<1>1. ASSUME run' \in RunRecords, UNCHANGED <<stores, sink>>, lost' \in {lost, lost \cup inflight},
             runs' = runs, faults' \in 0 .. MaxFaults,
             run'.pc = "verb" => IsInjective(run'.todo),
             run'.pc = "draining" => run'.todo # << >>,
             \A d \in Domains : Ahead(run', d) => Ahead(run, d)
      PROVE  Inv'
  <2>1. TInv'
    BY <1>0, <1>1 DEF TInv, stores, sink
  <2>2. \A d \in Domains : Left(run', d) \in {0, 1} /\ Left(run', d) <= Left(run, d)
    BY <1>1 DEF Left
  <2>3. OncePerRun'
    BY <1>0, <1>1, <2>2 DEF OncePerRun, stores, sink, Left
  <2> QED
    BY <2>1, <2>3 DEF Inv
<1>4. ASSUME NEW d \in Domains, TurnTaken(d), runs' = runs, faults' \in 0 .. MaxFaults,
             lost' = lost
      PROVE  Inv'
  <2>1. /\ run' \in RunRecords /\ run'.pc \in {"verb", "drain"}
        /\ run'.pc = "verb" => run'.todo = Tail(run.todo)
    BY <1>0b, <1>4, TurnMoves DEF TurnTaken
  <2>2. /\ run.pc = "verb" /\ run.todo \in Seq(Domains) /\ run.todo # << >>
        /\ d = Head(run.todo) /\ IsInjective(run.todo)
    BY <1>0, <1>4 DEF TurnTaken, RunRecords, OncePerRun
  <2>3. run'.pc = "verb" => IsInjective(run'.todo)
    BY <2>1, <2>2, TailOfList
  <2>4. Left(run, d) = 1 /\ Left(run', d) = 0
    BY <2>1, <2>2, TailOfList DEF Left, Ahead
  <2>5. ASSUME NEW e \in Domains
        PROVE  Left(run', e) \in {0, 1} /\ Left(run, e) \in {0, 1} /\ Left(run', e) <= Left(run, e)
    BY <2>1, <2>2, TailOfList DEF Left, Ahead
  <2>6. ASSUME NEW e \in Domains
        PROVE  /\ stored'[e] \in Seq(Values) /\ Len(stored'[e]) \in Nat
               /\ Len(stored[e]) \in Nat
               /\ IF e = d THEN Len(stored'[e]) \in {Len(stored[e]), Len(stored[e]) + 1}
                           ELSE stored'[e] = stored[e]
    <3>1. CASE stored' = stored
      BY <1>0, <3>1
    <3>2. ASSUME NEW v \in Values, Store(d, v)
          PROVE  /\ stored'[e] \in Seq(Values) /\ Len(stored'[e]) \in Nat
                 /\ Len(stored[e]) \in Nat
                 /\ IF e = d THEN Len(stored'[e]) \in {Len(stored[e]), Len(stored[e]) + 1}
                             ELSE stored'[e] = stored[e]
      <4>1. stored'[e] = IF e = d THEN Append(stored[e], v) ELSE stored[e]
        BY <1>0, <3>2 DEF Store
      <4> QED
        BY <1>0, <4>1, AppendProperties
    <3> QED
      BY <1>4, <3>1, <3>2 DEF TurnTaken
  <2>7. stored' \in [Domains -> Seq(Values)]
    <3>1. DOMAIN stored' = Domains /\ stored' = [e \in DOMAIN stored' |-> stored'[e]]
      BY <1>0, <1>4 DEF TurnTaken, Store
    <3> QED
      BY <2>6, <3>1
  <2>8. ASSUME NEW t \in EventTypes, NEW e \in Domains
        PROVE  counts'[t][e] \in {counts[t][e], counts[t][e] + (IF e = d THEN 1 ELSE 0)}
    <3>1. \/ counts' = counts
          \/ \E types \in SUBSET EventTypes : counts' = [u \in EventTypes |->
               [counts[u] EXCEPT ![d] = IF u \in types THEN @ + 1 ELSE @]]
      BY <1>4 DEF TurnTaken, Emit, sink
    <3>2. counts[t] \in [Domains -> Nat]
      BY <1>0
    <3>3. ASSUME NEW types \in SUBSET EventTypes, counts' = [u \in EventTypes |->
                   [counts[u] EXCEPT ![d] = IF u \in types THEN @ + 1 ELSE @]]
          PROVE  counts'[t][e] \in {counts[t][e], counts[t][e] + (IF e = d THEN 1 ELSE 0)}
      <4>1. counts'[t] = [counts[t] EXCEPT ![d] = IF t \in types THEN @ + 1 ELSE @]
        BY <3>3
      <4> QED
        BY <3>2, <4>1
    <3> QED
      BY <3>1, <3>3
  <2>9. counts' \in [EventTypes -> [Domains -> Nat]]
    <3>1. ASSUME NEW types \in SUBSET EventTypes, counts' = [u \in EventTypes |->
                   [counts[u] EXCEPT ![d] = IF u \in types THEN @ + 1 ELSE @]]
          PROVE  counts' \in [EventTypes -> [Domains -> Nat]]
      BY <1>0, <3>1
    <3> QED
      BY <1>0, <1>4, <3>1 DEF TurnTaken, Emit, sink
  <2>10. OncePerRun'
    <3>1. ASSUME NEW e \in Domains
          PROVE  /\ \A t \in EventTypes : counts'[t][e] + Left(run', e) <= runs'
                 /\ Len(stored'[e]) + Left(run', e) <= runs' + 1
      <4>1. /\ \A t \in EventTypes : counts[t][e] \in Nat /\ counts[t][e] + Left(run, e) <= runs
            /\ Len(stored[e]) + Left(run, e) <= runs + 1
        BY <1>0 DEF OncePerRun
      <4>2. /\ runs \in Nat /\ runs' = runs
            /\ Left(run, e) \in {0, 1} /\ Left(run', e) \in {0, 1}
            /\ Left(run', e) <= Left(run, e)
            /\ e = d => Left(run, e) = 1 /\ Left(run', e) = 0
        BY <1>0, <1>4, <2>4, <2>5
      <4>3. ASSUME NEW t \in EventTypes PROVE counts'[t][e] + Left(run', e) <= runs'
        <5>1. counts'[t][e] \in {counts[t][e], counts[t][e] + (IF e = d THEN 1 ELSE 0)}
          BY <2>8
        <5> QED
          BY <4>1, <4>2, <5>1
      <4>4. Len(stored'[e]) + Left(run', e) <= runs' + 1
        <5>1. /\ Len(stored'[e]) \in Nat /\ Len(stored[e]) \in Nat
              /\ \/ Len(stored'[e]) = Len(stored[e])
                 \/ e = d /\ Len(stored'[e]) = Len(stored[e]) + 1
          BY <2>6
        <5>2. Len(stored[e]) + Left(run, e) <= runs + 1
          BY <4>1
        <5> QED
          BY <4>2, <5>1, <5>2
      <4> QED
        BY <4>3, <4>4
    <3> QED
      BY <2>1, <2>3, <3>1 DEF OncePerRun
  <2>11. inflight' \subseteq Writes
    <3>1. ASSUME NEW types \in SUBSET EventTypes, NEW t \in types
          PROVE  [type |-> t, domain |-> d, n |-> counts[t][d] + 1] \in Writes
      <4>1. counts[t][d] \in Nat /\ counts[t][d] + 1 <= runs /\ runs <= MaxEvents
        BY <1>0, <2>4 DEF OncePerRun, TInv
      <4> QED
        BY <1>0, <4>1 DEF Writes
    <3> QED
      BY <1>0, <1>4, <3>1 DEF TurnTaken, Emit, sink, TInv
  <2>12. /\ written' \subseteq Writes /\ swallowed' \subseteq Writes /\ rejected' \subseteq Writes
         /\ lost' \subseteq Writes /\ throws' \in BOOLEAN
    BY <1>0, <1>4 DEF TurnTaken, Emit, sink, TInv
  <2>13. /\ live' \in [Domains -> Nat]
         /\ \A e \in Domains : live'[e] <= Len(stored'[e])
    <3>1. /\ live \in [Domains -> Nat]
          /\ \A e \in Domains : live[e] <= Len(stored'[e])
      <4>1. /\ live \in [Domains -> Nat]
            /\ \A e \in Domains : live[e] <= Len(stored[e])
        BY <1>0 DEF TInv
      <4>2. ASSUME NEW e \in Domains PROVE live[e] <= Len(stored'[e])
        <5>1. live[e] \in Nat /\ live[e] <= Len(stored[e])
          BY <4>1
        <5> QED
          BY <2>6, <5>1
      <4> QED
        BY <4>1, <4>2
    <3> QED
      BY <1>4, <3>1 DEF TurnTaken
  <2>14. /\ reverted' \in [Domains -> SUBSET Nat]
         /\ \A e \in Domains : reverted'[e] \subseteq 1 .. Len(stored'[e])
    <3>1. /\ reverted \in [Domains -> SUBSET Nat]
          /\ \A e \in Domains : reverted[e] \subseteq 1 .. Len(stored'[e])
      <4>1. /\ reverted \in [Domains -> SUBSET Nat]
            /\ \A e \in Domains : reverted[e] \subseteq 1 .. Len(stored[e])
        BY <1>0 DEF TInv
      <4>2. ASSUME NEW e \in Domains PROVE 1 .. Len(stored[e]) \subseteq 1 .. Len(stored'[e])
        BY <2>6
      <4> QED
        BY <4>1, <4>2
    <3>2. ASSUME NEW v \in Values, Store(d, v),
                 reverted' = [reverted EXCEPT ![d] = @ \cup {Len(stored[d]) + 1}]
          PROVE  /\ reverted' \in [Domains -> SUBSET Nat]
                 /\ \A e \in Domains : reverted'[e] \subseteq 1 .. Len(stored'[e])
      <4>1. Len(stored'[d]) = Len(stored[d]) + 1 /\ Len(stored[d]) \in Nat
        BY <1>0, <3>2, AppendProperties DEF Store
      <4> QED
        BY <3>1, <3>2, <4>1
    <3> QED
      BY <1>4, <3>1, <3>2 DEF TurnTaken
  <2> QED
    BY <1>0, <1>4, <2>1, <2>7, <2>9, <2>10, <2>11, <2>12, <2>13, <2>14 DEF Inv, TInv
<1>5. ASSUME NEW verb \in Parsed, NEW domain \in Domains \cup {None, "unknown"},
             NEW n \in 0 .. MaxVersion, NEW v \in Values \cup {None}, NEW keyed \in BOOLEAN,
             Begin(verb, domain, n, v, keyed)
      PROVE  Inv'
  <2>1. /\ run.pc \in {"done", "threw"} /\ runs < MaxRuns /\ runs' = runs + 1
        /\ UNCHANGED <<stores, sink, lost, faults>>
        /\ run' = [NoRun EXCEPT !.verb = verb, !.domain = domain, !.version = n, !.value = v,
                     !.keyed = keyed,
                     !.pc = IF verb \in Verbs THEN "connect" ELSE "done",
                     !.exit = IF verb = "usage" THEN 2 ELSE 0]
    BY <1>5 DEF Begin
  <2>2. n \in Nat
    BY <1>0 DEF MaxVersion
  <2>3. run' \in RunRecords /\ run'.pc \in {"connect", "done"}
    BY <1>5, <2>2, BeginShape
  <2>4. TInv'
    BY <1>0, <2>1, <2>3 DEF TInv, stores, sink
  <2>5. \A d \in Domains : Left(run, d) = 0 /\ Left(run', d) \in {0, 1}
    BY <2>1 DEF Left, Ahead
  <2>6. ASSUME NEW d \in Domains
        PROVE  /\ \A t \in EventTypes : counts[t][d] + Left(run', d) <= runs'
               /\ Len(stored[d]) + Left(run', d) <= runs' + 1
    <3>1. /\ \A t \in EventTypes : counts[t][d] \in Nat /\ counts[t][d] + 0 <= runs
          /\ Len(stored[d]) + 0 <= runs + 1 /\ Len(stored[d]) \in Nat
      BY <1>0, <2>5 DEF OncePerRun
    <3>2. runs' = runs + 1 /\ runs \in Nat /\ Left(run', d) \in {0, 1}
      BY <1>0, <2>1, <2>5
    <3>3. ASSUME NEW t \in EventTypes PROVE counts[t][d] + Left(run', d) <= runs'
      <4>1. counts[t][d] \in Nat /\ counts[t][d] <= runs
        BY <3>1, <3>2
      <4> QED
        BY <3>2, <4>1
    <3>4. Len(stored[d]) + Left(run', d) <= runs' + 1
      BY <3>1, <3>2
    <3> QED
      BY <3>3, <3>4
  <2>7. OncePerRun'
    BY <2>1, <2>3, <2>6 DEF OncePerRun, stores, sink
  <2> QED
    BY <2>4, <2>7 DEF Inv
<1>6. ASSUME Connect PROVE Inv'
  <2>1. Targets \in Seq(Domains) /\ IsInjective(Targets)
    <3>1. ASSUME NEW d \in Domains PROVE <<d>> \in Seq(Domains) /\ IsInjective(<<d>>)
      BY DEF IsInjective
    <3>2. << >> \in Seq(Domains) /\ IsInjective(<< >>)
      BY DEF IsInjective
    <3> QED
      BY <3>1, <3>2, CliAssumption DEF Targets
  <2>2. \/ run' = Finally(run, 1)
        \/ run' = [run EXCEPT !.pc = "verb", !.todo = Targets]
    BY <1>6 DEF Connect
  <2>3. run' \in RunRecords /\ (run'.pc = "verb" => IsInjective(run'.todo))
    <3>1. CASE run' = Finally(run, 1)
      BY <1>0, <3>1, FinallyTyped
    <3>2. CASE run' = [run EXCEPT !.pc = "verb", !.todo = Targets]
      <4>1. "verb" \in Points
        BY DEF Points
      <4> QED
        BY <1>0b, <2>1, <3>2, <4>1, TodoMoves
    <3> QED
      BY <2>2, <3>1, <3>2
  <2>4. \A d \in Domains : Ahead(run, d)
    BY <1>6 DEF Connect, At, Ahead
  <2>5. run'.pc # "draining"
    <3>1. "verb" \in Points
      BY DEF Points
    <3>2. CASE run' = Finally(run, 1)
      BY <1>0b, <3>2, FinallyTyped
    <3>3. CASE run' = [run EXCEPT !.pc = "verb", !.todo = Targets]
      BY <1>0b, <2>1, <3>1, <3>3, TodoMoves
    <3> QED
      BY <2>2, <3>2, <3>3
  <2>6. UNCHANGED <<stores, sink, lost, runs, faults>>
    BY <1>6 DEF Connect
  <2> QED
    BY <1>0c, <1>1, <2>3, <2>4, <2>5, <2>6
<1>7. ASSUME StartDrain \/ EndDrain, UNCHANGED <<stores, sink, lost, runs, faults>>
      PROVE  Inv'
  <2>1. run' \in RunRecords /\ run'.pc \in {"drain", "draining"}
        /\ (run'.pc = "draining" => run'.todo # << >>)
    <3>1. \A d \in Domains : Pending(d) \in SUBSET Writes
      BY <1>0 DEF Pending, TInv
    <3>2. "drain" \in Points /\ "draining" \in Points
      BY DEF Points
    <3>3. run.todo \in Seq(Domains)
      BY <1>0 DEF RunRecords
    <3>4. CASE StartDrain
      <4>1. PICK W \in SUBSET Writes : run' = [run EXCEPT !.pc = "draining", !.waits = W]
        BY <3>1, <3>3, <3>4, TailOfList, HeadTailProperties DEF StartDrain
      <4>2. run' \in RunRecords /\ run'.pc = "draining" /\ run'.todo = run.todo
        BY <1>0b, <4>1 DEF RunRecords, Points
      <4> QED
        BY <3>4, <4>2 DEF StartDrain
    <3>5. CASE EndDrain
      <4>1. run' = [run EXCEPT !.pc = "drain", !.todo = Tail(@), !.waits = {}]
        BY <3>5 DEF EndDrain
      <4>2. Tail(run.todo) \in Seq(Domains)
        BY <1>0, <3>3, <3>5, TailOfList DEF EndDrain, At, OncePerRun
      <4>3. run' \in RunRecords /\ run'.pc = "drain"
        BY <1>0b, <4>1, <4>2 DEF RunRecords, Points
      <4> QED
        BY <4>3
    <3> QED
      BY <1>7, <3>4, <3>5
  <2>2. \A d \in Domains : ~ Ahead(run', d)
    BY <2>1 DEF Ahead
  <2> QED
    BY <1>0, <1>1, <1>7, <2>1, <2>2 DEF TInv
<1>8. ASSUME Close \/ Dies, UNCHANGED <<stores, sink, runs, faults>> PROVE Inv'
  <2>1. run' \in RunRecords /\ run'.pc \in {"done", "dead"}
    <3>1. "done" \in Points /\ "dead" \in Points /\ 1 \in 0 .. 2
      BY DEF Points
    <3>2. CASE Close
      <4>1. run' = [run EXCEPT !.pc = "done"]
        BY <3>2 DEF Close
      <4>2. run' \in RunRecords /\ run'.pc = "done"
        BY <1>0b, <3>1, <4>1, PcMoves
      <4> QED
        BY <4>2
    <3>3. CASE Dies
      <4>1. run' = [run EXCEPT !.pc = "dead", !.exit = 1]
        BY <3>3 DEF Dies
      <4>2. run' \in RunRecords /\ run'.pc = "dead"
        BY <1>0b, <3>1, <4>1, ExitMoves
      <4> QED
        BY <4>2
    <3> QED
      BY <1>8, <3>2, <3>3
  <2>2. \A d \in Domains : ~ Ahead(run', d)
    BY <2>1 DEF Ahead
  <2> QED
    BY <1>0, <1>1, <1>8, <2>1, <2>2 DEF TInv, Close, Dies
<1>9. ASSUME ConnectRejects PROVE Inv'
  <2>1. run' \in RunRecords /\ run'.pc = "threw" /\ faults' \in 0 .. MaxFaults
    <3>1. "threw" \in Points /\ 1 \in 0 .. 2
      BY DEF Points
    <3>2. run' = [run EXCEPT !.pc = "threw", !.exit = 1] /\ faults < MaxFaults
          /\ faults' = faults + 1
      BY <1>9 DEF ConnectRejects
    <3> QED
      <4>1. run' \in RunRecords /\ run'.pc = "threw"
        BY <1>0b, <3>1, <3>2, ExitMoves
      <4>2. faults' \in 0 .. MaxFaults
        BY <1>0c, <3>2
      <4> QED
        BY <4>1, <4>2
  <2>2. \A d \in Domains : ~ Ahead(run', d)
    BY <2>1 DEF Ahead
  <2> QED
    BY <1>0, <1>1, <1>9, <2>1, <2>2 DEF ConnectRejects
<1>10. ASSUME NEW w \in Writes, Settles(w) PROVE Inv'
  <2>1. TInv'
    BY <1>0, <1>10 DEF Settles, Settle, Lands, Fails, FailsLoudly, TInv, stores
  <2>2. OncePerRun'
    BY <1>0, <1>10 DEF Settles, Settle, Lands, Fails, FailsLoudly, stores, OncePerRun, Left, Ahead
  <2> QED
    BY <2>1, <2>2 DEF Inv
<1>11. ASSUME UNCHANGED vars PROVE Inv'
  BY <1>0, <1>1, <1>11 DEF vars, OncePerRun, TInv
<1>12. ASSUME NEW d \in Domains, VerbStep(d), UNCHANGED <<lost, runs, faults>> PROVE Inv'
  BY <1>0, <1>4, <1>12, VerbTurn DEF TInv
<1>13. ASSUME NEW d \in Domains, StoreRejects(d), UNCHANGED <<lost, runs>> PROVE Inv'
  <2>1. faults' \in 0 .. MaxFaults
    BY <1>0, <1>13 DEF StoreRejects, TInv
  <2> QED
    BY <1>0, <1>4, <1>13, <2>1, VerbTurn
<1> QED
  BY <1>5, <1>6, <1>7, <1>8, <1>9, <1>10, <1>11, <1>12, <1>13 DEF Next, Runs, VerbStep

\* The types, and OncePerRun: a run adds one version of a domain at most, and one
\* event of a type, so what the bounds of the model leave out is out of reach.
THEOREM RunInvariant == Spec => []Inv
  BY InitInv, StepInv, PTL DEF Spec

\* Every variable has its type, the bounds on versions and events included.
THEOREM RunTypes == Spec => []TypeOK
<1>1. ASSUME Inv PROVE TypeOK
  <2>0. /\ TInv /\ OncePerRun /\ MaxRuns \in Nat /\ MaxEvents \in Nat /\ MaxEvents >= MaxRuns
    BY <1>1, CliAssumption DEF Inv
  <2>1. ASSUME NEW d \in Domains, NEW t \in EventTypes PROVE counts[t][d] \in 0 .. MaxEvents
    <3>1. counts[t][d] \in Nat /\ counts[t][d] + Left(run, d) <= runs /\ runs \in 0 .. MaxRuns
      BY <2>0 DEF OncePerRun, TInv
    <3>2. Left(run, d) = 0 \/ Left(run, d) = 1
      BY DEF Left
    <3> QED
      BY <2>0, <3>1, <3>2
  <2>2. counts \in [EventTypes -> [Domains -> 0 .. MaxEvents]]
    <3>1. counts \in [EventTypes -> [Domains -> Nat]]
      BY <2>0 DEF TInv
    <3>2. ASSUME NEW t \in EventTypes PROVE counts[t] \in [Domains -> 0 .. MaxEvents]
      BY <2>1, <3>1
    <3> QED
      BY <3>1, <3>2
  <2>3. ASSUME NEW d \in Domains
        PROVE  stored[d] \in UNION {[1 .. n -> Values] : n \in 0 .. MaxVersion}
    <3>1. /\ stored[d] \in Seq(Values) /\ Len(stored[d]) \in Nat
          /\ Len(stored[d]) + Left(run, d) <= runs + 1 /\ runs \in 0 .. MaxRuns
      BY <2>0 DEF OncePerRun, TInv
    <3>2. Left(run, d) = 0 \/ Left(run, d) = 1
      BY DEF Left
    <3>3. Len(stored[d]) \in 0 .. MaxVersion
      BY <2>0, <3>1, <3>2 DEF MaxVersion
    <3>4. stored[d] \in [1 .. Len(stored[d]) -> Values]
      BY <3>1, LenProperties
    <3> QED
      BY <3>3, <3>4
  <2>4. stored \in [Domains -> UNION {[1 .. n -> Values] : n \in 0 .. MaxVersion}]
    <3>1. stored \in [Domains -> Seq(Values)]
      BY <2>0 DEF TInv
    <3> QED
      BY <2>3, <3>1
  <2>5. ASSUME NEW d \in Domains
        PROVE  live[d] \in 0 .. Len(stored[d]) /\ reverted[d] \subseteq DOMAIN stored[d]
    <3>1. /\ stored[d] \in Seq(Values) /\ live[d] \in Nat /\ live[d] <= Len(stored[d])
          /\ reverted[d] \subseteq 1 .. Len(stored[d])
      BY <2>0 DEF TInv
    <3>2. DOMAIN stored[d] = 1 .. Len(stored[d]) /\ Len(stored[d]) \in Nat
      BY <3>1, LenProperties
    <3> QED
      BY <3>1, <3>2
  <2>6. /\ run.verb \in Parsed /\ run.exit \in 0 .. 2 /\ run.waits \subseteq Writes
        /\ run.pc \in Points
    BY <2>0 DEF TInv, RunRecords
  <2>7. SinkTypeOK /\ lost \subseteq Writes /\ runs \in 0 .. MaxRuns /\ faults \in 0 .. MaxFaults
    BY <2>0, <2>2 DEF TInv, SinkTypeOK
  <2> QED
    BY <2>4, <2>5, <2>6, <2>7 DEF TypeOK, Points
<1> QED
  BY <1>1, RunInvariant, PTL

-----------------------------------------------------------------------------
\* What is live passed a gate, or a revert put it there.

Vetted(S, L, R, d) == L[d] # 0 =>
  \/ S[d][L[d]] \in Sound \/ L[d] \in R[d]
  \/ d \notin Gated /\ S[d][L[d]] = Default[d]

LEMMA Appended ==
  ASSUME NEW s \in Seq(Values), NEW v \in Values
  PROVE  /\ Append(s, v)[Len(s) + 1] = v
         /\ \A i \in 1 .. Len(s) : Append(s, v)[i] = s[i]
         /\ Append(s, v) # << >>
         /\ Len(Append(s, v)) = Len(s) + 1
  BY AppendProperties

LEMMA Installs ==
  ASSUME TInv, NEW d \in Domains, Install(d), Default[d] # None
  PROVE  /\ Default[d] \in Values
         /\ live'[d] = Len(stored[d]) + 1 /\ live'[d] # 0
         /\ stored'[d][live'[d]] = Default[d]
         /\ stored'[d] # << >>
         /\ Len(stored[d]) \in Nat
<1>1. /\ stored \in [Domains -> Seq(Values)] /\ live \in [Domains -> Nat]
      /\ Default[d] \in Values /\ Len(stored[d]) \in Nat
  BY CliAssumption DEF TInv
<1>2. stored'[d] = Append(stored[d], Default[d]) /\ live'[d] = Len(stored[d]) + 1
  BY <1>1 DEF Install, MoveLive, Store
<1>3. stored'[d][Len(stored[d]) + 1] = Default[d] /\ stored'[d] # << >>
  BY <1>1, <1>2, Appended
<1> QED
  BY <1>1, <1>2, <1>3

\* A turn leaves every other domain alone.
LEMMA OthersStay ==
  ASSUME TInv, NEW d \in Domains, TurnTaken(d), NEW e \in Domains, e # d
  PROVE  stored'[e] = stored[e] /\ live'[e] = live[e] /\ reverted'[e] = reverted[e]
<1>1. /\ stored \in [Domains -> Seq(Values)] /\ live \in [Domains -> Nat]
      /\ reverted \in [Domains -> SUBSET Nat]
  BY DEF TInv
<1>2. stored'[e] = stored[e]
  BY <1>1 DEF TurnTaken, Store
<1>3. live'[e] = live[e]
  BY <1>1 DEF TurnTaken
<1>4. reverted'[e] = reverted[e]
  BY <1>1 DEF TurnTaken
<1> QED
  BY <1>2, <1>3, <1>4

\* Where the label stays, its version keeps its value, whatever is added.
LEMMA LabelKept ==
  ASSUME TInv, NEW d \in Domains, live' = live, reverted' = reverted,
         stored' = stored \/ \E v \in Values : Store(d, v),
         Vetted(stored, live, reverted, d)
  PROVE  Vetted(stored', live', reverted', d)
<1>1. /\ stored \in [Domains -> Seq(Values)] /\ live[d] \in Nat /\ live[d] <= Len(stored[d])
      /\ Len(stored[d]) \in Nat
  BY DEF TInv
<1>2. ASSUME live[d] # 0 PROVE stored'[d][live[d]] = stored[d][live[d]]
  <2>1. live[d] \in 1 .. Len(stored[d])
    BY <1>1, <1>2
  <2>2. CASE stored' = stored
    BY <2>2
  <2>3. ASSUME NEW v \in Values, Store(d, v)
        PROVE  stored'[d][live[d]] = stored[d][live[d]]
    <3>1. stored'[d] = Append(stored[d], v)
      BY <1>1, <2>3 DEF Store
    <3> QED
      BY <1>1, <2>1, <3>1, Appended
  <2> QED
    BY <2>2, <2>3
<1> QED
  BY <1>2 DEF Vetted

LEMMA TurnVets ==
  ASSUME TInv, OnlyGatedLive, NEW d \in Domains, VerbStep(d) \/ StoreRejects(d)
  PROVE  OnlyGatedLive'
<1>0. TurnTaken(d) /\ Vetted(stored, live, reverted, d)
  BY VerbTurn DEF OnlyGatedLive, Vetted
<1>1. ASSUME live' = live, reverted' = reverted PROVE Vetted(stored', live', reverted', d)
  <2>1. stored' = stored \/ \E v \in Values : Store(d, v)
    BY <1>0 DEF TurnTaken
  <2> QED
    BY <1>0, <1>1, <2>1, LabelKept
<1>2. ASSUME \/ List(d) \/ Diff(d) \/ PromoteMissing(d) \/ PromoteRefused(d) \/ Health(d)
             \/ Add(d)
      PROVE  Vetted(stored', live', reverted', d)
  BY <1>1, <1>2 DEF List, Diff, PromoteMissing, PromoteRefused, Health, Add, stores
<1>3. ASSUME Promote(d) PROVE Vetted(stored', live', reverted', d)
  <2>1. stored[d][run.version] \in Sound /\ stored' = stored
        /\ live' = [live EXCEPT ![d] = run.version]
    BY <1>3 DEF Promote, GatePasses, MoveLive
  <2>2. live'[d] = run.version
    BY <2>1 DEF TInv
  <2> QED
    BY <2>1, <2>2 DEF Vetted
<1>4. ASSUME Revert(d) PROVE Vetted(stored', live', reverted', d)
  <2>1. CASE ~ run.keyed \/ Default[d] = None
    BY <1>1, <1>4, <2>1 DEF Revert, stores
  <2>2. CASE run.keyed /\ Default[d] # None
    <3>1. live'[d] = Len(stored[d]) + 1
      BY <1>4, <2>2, Installs DEF Revert
    <3>2. Len(stored[d]) + 1 \in reverted'[d]
      BY <1>4, <2>2 DEF Revert, NoteRevert, TInv
    <3> QED
      BY <3>1, <3>2 DEF Vetted
  <2> QED
    BY <2>1, <2>2
<1>5. ASSUME SeedOrSync(d) PROVE Vetted(stored', live', reverted', d)
  <2>1. CASE UNCHANGED stores
    BY <1>1, <2>1 DEF stores
  <2>2. CASE ~ UpToDate(d) /\ ~ Refuses(d) /\ Install(d)
    <3>1. Default[d] # None
      BY <2>2 DEF UpToDate
    <3>2. stored'[d][live'[d]] = Default[d]
      BY <2>2, <3>1, Installs
    <3>3. d \notin Gated \/ Default[d] \in Sound
      BY <2>2 DEF Refuses
    <3> QED
      BY <3>2, <3>3 DEF Vetted
  <2> QED
    BY <1>5, <2>1, <2>2 DEF SeedOrSync
<1>6. ASSUME StoreRejects(d) PROVE Vetted(stored', live', reverted', d)
  <2>1. CASE UNCHANGED <<live, reverted>>
    BY <1>1, <2>1
  <2>2. CASE GatePasses(d) /\ stored' = stored /\ MoveLive(d, run.version)
    <3>1. live'[d] = run.version
      BY <2>2 DEF MoveLive, TInv
    <3> QED
      BY <2>2, <3>1 DEF GatePasses, Vetted
  <2>3. CASE MoveLive(d, Len(stored[d]) + 1) /\ NoteRevert(d)
    <3>1. live'[d] = Len(stored[d]) + 1 /\ live'[d] \in reverted'[d]
      BY <2>3 DEF MoveLive, NoteRevert, TInv
    <3> QED
      BY <3>1 DEF Vetted
  <2>4. CASE /\ ~ UpToDate(d) /\ ~ Refuses(d) /\ Store(d, Default[d])
             /\ MoveLive(d, Len(stored[d]) + 1)
    <3>1. /\ Default[d] \in Values /\ stored[d] \in Seq(Values)
          /\ stored'[d] = Append(stored[d], Default[d]) /\ live'[d] = Len(stored[d]) + 1
      BY <2>4, CliAssumption DEF UpToDate, Store, MoveLive, TInv
    <3>2. stored'[d][live'[d]] = Default[d]
      BY <3>1, Appended
    <3> QED
      BY <2>4, <3>2 DEF Refuses, Vetted
  <2> QED
    BY <1>6, <2>1, <2>2, <2>3, <2>4 DEF StoreRejects, stores
<1>8. Vetted(stored', live', reverted', d)
  BY <1>2, <1>3, <1>4, <1>5, <1>6 DEF VerbStep
<1>7. ASSUME NEW e \in Domains PROVE Vetted(stored', live', reverted', e)
  <2>1. CASE e = d
    BY <1>8, <2>1
  <2>2. CASE e # d
    <3>1. Vetted(stored, live, reverted, e)
      BY DEF OnlyGatedLive, Vetted
    <3>2. stored'[e] = stored[e] /\ live'[e] = live[e] /\ reverted'[e] = reverted[e]
      BY <1>0, <2>2, OthersStay
    <3> QED
      BY <3>1, <3>2 DEF Vetted
  <2> QED
    BY <2>1, <2>2
<1> QED
  BY <1>7 DEF OnlyGatedLive, Vetted

\* Whatever verbs follow each other over any domains, what is live passed the
\* domain's gate (versionedStore.ts promote), or revertToDefault put it there, or it
\* is the default of a domain that seeds and syncs without a gate.
THEOREM LiveIsGated == Spec => []OnlyGatedLive
<1>1. Init => OnlyGatedLive
  <2> SUFFICES ASSUME Init, NEW d \in Domains, live[d] # 0
               PROVE  stored[d][live[d]] \in Sound
    BY DEF OnlyGatedLive
  <2>1. live[d] = 1 /\ stored[d][1] \in Sound
    BY DEF Init
  <2> QED
    BY <2>1
<1>2. Inv /\ OnlyGatedLive /\ [Next]_vars => OnlyGatedLive'
  <2> SUFFICES ASSUME Inv, OnlyGatedLive, [Next]_vars PROVE OnlyGatedLive'
    OBVIOUS
  <2>1. TInv
    BY DEF Inv
  <2>2. ASSUME UNCHANGED stores PROVE OnlyGatedLive'
    BY <2>2 DEF stores, OnlyGatedLive
  <2>3. ASSUME NEW d \in Domains, VerbStep(d) \/ StoreRejects(d) PROVE OnlyGatedLive'
    BY <2>1, <2>3, TurnVets
  <2> QED
    BY <2>2, <2>3 DEF Next, Runs, VerbStep, Begin, Connect, ConnectRejects, Settles, vars
<1> QED
  BY <1>1, <1>2, RunInvariant, PTL DEF Spec
-----------------------------------------------------------------------------
\* The close comes after every drain, and a drain waits for all there is.

\* In the finally block a domain's turn is still to come, or nothing of it is in
\* flight; a drain under way waits for all that is in flight.
Draining ==
  /\ run.pc \in {"drain", "draining"} =>
       \A d \in Drained : d \in Range(run.todo) \/ Pending(d) = {}
  /\ run.pc = "draining" /\ Head(run.todo) \in Drained => Pending(Head(run.todo)) \subseteq run.waits

NoneLost == \A w \in lost : w.domain \notin Drained

Audited == /\ rejected # {} => throws
           /\ throws \/ (Draining /\ NoneLost)

LEMMA StepAudited == Inv /\ Audited /\ [Next]_vars => Audited'
<1> SUFFICES ASSUME Inv, Audited, [Next]_vars PROVE Audited'
  OBVIOUS
<1>0. /\ TInv /\ OncePerRun /\ run \in RunRecords
      /\ run.todo \in Seq(Domains) /\ (rejected # {} => throws)
      /\ Drained \subseteq Domains /\ Range(Commands) = Domains
  BY CliAssumption DEF Inv, TInv, RunRecords, Audited
<1>1. ASSUME UNCHANGED <<sink, lost>>, run'.pc \in {"drain", "draining"} => run'.pc = "drain" /\ run'.todo = Commands
      PROVE  Audited'
  <2>1. Draining'
    BY <1>0, <1>1 DEF Draining
  <2> QED
    BY <1>1, <2>1 DEF Audited, NoneLost, sink
<1>2. ASSUME NEW d \in Domains, VerbStep(d) \/ StoreRejects(d), lost' = lost PROVE Audited'
  <2>1. /\ TurnTaken(d)
        /\ UNCHANGED sink \/ \E types \in SUBSET EventTypes : Emit(d, types)
    BY <1>0, <1>2, VerbTurn DEF TurnTaken
  <2>2. rejected' = rejected /\ throws' = throws
    BY <2>1 DEF Emit, sink
  <2>3. run'.pc = "verb" \/ (run'.pc = "drain" /\ run'.todo = Commands)
    BY <1>0, <2>1, TurnMoves DEF TurnTaken
  <2>4. Draining'
    BY <1>0, <2>3 DEF Draining
  <2> QED
    BY <1>2, <2>2, <2>4 DEF Audited, NoneLost
<1>3. ASSUME NEW verb \in Parsed, NEW domain \in Domains \cup {None, "unknown"},
             NEW n \in 0 .. MaxVersion, NEW v \in Values \cup {None}, NEW keyed \in BOOLEAN,
             Begin(verb, domain, n, v, keyed)
      PROVE  Audited'
  <2>1. n \in Nat
    BY CliAssumption DEF MaxVersion
  <2>2. run'.pc \in {"connect", "done"}
    BY <1>3, <2>1, BeginShape
  <2> QED
    BY <1>1, <1>3, <2>2 DEF Begin
<1>4. ASSUME Connect PROVE Audited'
  <2>1. CASE run' = Finally(run, 1)
    <3>1. run'.todo = Commands /\ run'.pc = "drain"
      BY <1>0, <2>1, FinallyTyped
    <3> QED
      BY <1>1, <1>4, <3>1 DEF Connect
  <2>2. CASE run' = [run EXCEPT !.pc = "verb", !.todo = Targets]
    <3>1. run'.pc = "verb"
      BY <1>0, <2>2 DEF RunRecords
    <3> QED
      BY <1>1, <1>4, <3>1 DEF Connect
  <2> QED
    BY <1>4, <2>1, <2>2 DEF Connect
<1>5. ASSUME ConnectRejects PROVE Audited'
  <2>1. run' = [run EXCEPT !.pc = "threw", !.exit = 1]
    BY <1>5 DEF ConnectRejects
  <2>2. run'.pc = "threw"
    BY <1>0, <2>1 DEF RunRecords
  <2> QED
    BY <1>1, <1>5, <2>2 DEF ConnectRejects
<1>6. ASSUME StartDrain, UNCHANGED <<sink, lost>> PROVE Audited'
  <2>1. /\ run.pc = "drain"
        /\ run' = [run EXCEPT !.pc = "draining",
              !.waits = IF Head(run.todo) \in Drained THEN Pending(Head(run.todo)) ELSE {}]
    BY <1>6 DEF StartDrain, At
  <2>2. /\ run'.pc = "draining" /\ run'.todo = run.todo
        /\ Head(run.todo) \in Drained => run'.waits = Pending(Head(run.todo))
    BY <1>0, <2>1 DEF RunRecords
  <2>3. \A d : Pending(d)' = Pending(d)
    BY <1>6 DEF Pending, sink
  <2>4. Draining => Draining'
    BY <2>1, <2>2, <2>3 DEF Draining
  <2> QED
    BY <1>6, <2>4 DEF Audited, NoneLost, sink
<1>7. ASSUME EndDrain, UNCHANGED <<sink, lost>> PROVE Audited'
  <2>1. /\ run.pc = "draining" /\ run.todo # << >>
        /\ run' = [run EXCEPT !.pc = "drain", !.todo = Tail(@), !.waits = {}]
        /\ run.waits \cap inflight = {} \/ run.waits \cap rejected # {}
    BY <1>0, <1>7 DEF EndDrain, At, OncePerRun
  <2>2. run'.pc = "drain" /\ run'.todo = Tail(run.todo)
    BY <1>0, <2>1 DEF RunRecords
  <2>3. \A d : Pending(d)' = Pending(d)
    BY <1>7 DEF Pending, sink
  <2>4. Range(run.todo) = Range(run'.todo) \cup {Head(run.todo)}
    BY <1>0, <2>1, <2>2, TailOfList
  <2>5. ASSUME ~ throws, Draining PROVE Draining'
    <3>1. run.waits \cap inflight = {}
      BY <1>0, <2>1, <2>5
    <3>2. Head(run.todo) \in Drained => Pending(Head(run.todo)) = {}
      BY <2>1, <2>5, <3>1 DEF Draining, Pending
    <3>3. \A d \in Drained : d \in Range(run.todo) \/ Pending(d) = {}
      BY <2>1, <2>5 DEF Draining
    <3> QED
      BY <2>2, <2>3, <2>4, <3>2, <3>3 DEF Draining
  <2> QED
    BY <1>7, <2>5 DEF Audited, NoneLost, sink
<1>8. ASSUME Close, UNCHANGED sink PROVE Audited'
  <2>1. /\ run.pc = "drain" /\ run.todo = << >> /\ lost' = lost \cup inflight
        /\ run' = [run EXCEPT !.pc = "done"]
    BY <1>8 DEF Close, At
  <2>2. run'.pc = "done"
    BY <1>0, <2>1 DEF RunRecords
  <2>3. Range(run.todo) = {}
    BY <2>1 DEF Range
  <2>4. ASSUME Draining, NoneLost PROVE NoneLost'
    <3>1. \A d \in Drained : Pending(d) = {}
      BY <2>1, <2>3, <2>4 DEF Draining
    <3>2. \A w \in inflight : w.domain \notin Drained
      BY <3>1 DEF Pending
    <3> QED
      BY <2>1, <2>4, <3>2 DEF NoneLost
  <2>5. Draining'
    BY <2>2 DEF Draining
  <2> QED
    BY <1>8, <2>4, <2>5 DEF Audited, sink
<1>9. ASSUME Dies, UNCHANGED sink PROVE Audited'
  BY <1>0, <1>9 DEF Dies, Audited, sink
<1>10. ASSUME NEW w \in Writes, Settles(w) PROVE Audited'
  <2>1. /\ run' = run /\ lost' = lost /\ throws' = throws
        /\ inflight' \subseteq inflight /\ (rejected' # {} => rejected # {} \/ throws)
    BY <1>10 DEF Settles, Settle, Lands, Fails, FailsLoudly
  <2>2. \A d : Pending(d)' \subseteq Pending(d)
    BY <2>1 DEF Pending
  <2>3. Draining => Draining'
    BY <2>1, <2>2 DEF Draining
  <2> QED
    BY <1>0, <2>1, <2>3 DEF Audited, NoneLost
<1>11. ASSUME UNCHANGED vars PROVE Audited'
  BY <1>11 DEF vars, sink, Audited, Draining, NoneLost, Pending
<1> QED
  BY <1>2, <1>3, <1>4, <1>5, <1>6, <1>7, <1>8, <1>9, <1>10, <1>11 DEF Next, Runs, VerbStep

\* No event of a domain with a drain is lost to the close, whatever the verb, the
\* order of the domains, the rejections and the settling of the writes (run's
\* finally block): unless an onError has itself thrown.
THEOREM AuditsSurvive == Spec => []AuditSurvives
<1>1. Init => Audited
  BY DEF Init, SinkInit, NoRun, Audited, Draining, NoneLost
<1>2. Audited => AuditSurvives
  BY DEF Audited, NoneLost, AuditSurvives
<1> QED
  BY <1>1, <1>2, StepAudited, RunInvariant, PTL DEF Spec
-----------------------------------------------------------------------------
\* What the exit code says is what was done.

Named(r) == IF r.domain \in Domains THEN <<r.domain>>
            ELSE IF r.domain = None /\ ((r.verb \in AllVerbs /\ ~ r.keyed) \/ Len(Commands) = 1)
                 THEN Commands ELSE << >>

Unsound(d) == Default[d] \notin Sound \cup {None}

SomeUnsound(r) == \E d \in Range(Named(r)) : Unsound(d)

\* What the verb of run r says of domain d, over its versions and its label.
Shows(S, L, d) == L[d] # 0 /\ S[d][L[d]] = Default[d]

Effect(r, S, L, d) ==
  /\ r.verb = "add" => Last(S[d]) = r.value
  /\ r.verb = "promote" => L[d] = r.version /\ S[d][r.version] \in Sound
  /\ r.verb = "revert" => Shows(S, L, d)
  /\ r.verb = "seed" => Default[d] = None \/ S[d] # << >>
  /\ r.verb = "sync" => Default[d] = None \/ Shows(S, L, d)
  /\ r.verb = "health" => ~ Unsound(d)

\* A target's turn is still to come, or its effect is there, or one was refused.
Underway(r, S, L) ==
  /\ Range(r.todo) \subseteq Range(Named(r))
  /\ \A d \in Range(Named(r)) : d \in Range(r.todo) \/ r.refused \/ Effect(r, S, L, d)
  /\ r.refused => SomeUnsound(r)

Ended(r, S, L, f) ==
  /\ r.exit = 0 => \A d \in Range(Named(r)) : Effect(r, S, L, d)
  /\ r.exit = 1 /\ f = 0 /\ r.verb \in AllVerbs => Named(r) = << >> \/ SomeUnsound(r)

Truthful ==
  /\ run.pc = "connect" => ~ run.refused
  /\ run.pc = "verb" => Underway(run, stored, live)
  /\ run.pc \in {"drain", "draining", "done"} /\ run.verb \in Verbs =>
       Ended(run, stored, live, faults)

SameCall(r, q) == /\ q.verb = r.verb /\ q.domain = r.domain
                  /\ q.version = r.version /\ q.value = r.value /\ q.keyed = r.keyed

LEMMA SameCallSaysTheSame ==
  ASSUME NEW r, NEW q, SameCall(r, q)
  PROVE  /\ Named(q) = Named(r) /\ (SomeUnsound(q) <=> SomeUnsound(r))
         /\ \A S, L, d : Effect(q, S, L, d) <=> Effect(r, S, L, d)
<1>1. Named(q) = Named(r)
  BY DEF SameCall, Named
<1>2. SomeUnsound(q) <=> SomeUnsound(r)
  BY <1>1 DEF SomeUnsound
<1>3. \A S, L, d : Effect(q, S, L, d) <=> Effect(r, S, L, d)
  BY DEF SameCall, Effect
<1> QED
  BY <1>1, <1>2, <1>3

LEMMA ReturnMoves ==
  ASSUME run \in RunRecords, run.todo # << >>, run.pc = "verb", NEW b \in BOOLEAN, Returned(b)
  PROVE  /\ SameCall(run, run') /\ run'.refused = (run.refused \/ b)
         /\ \/ run'.pc = "verb" /\ run'.todo = Tail(run.todo)
            \/ /\ run'.pc = "drain" /\ Tail(run.todo) = << >>
               /\ run'.exit = IF run.refused \/ b THEN 1 ELSE 0
<1> DEFINE r == [run EXCEPT !.todo = Tail(@), !.refused = @ \/ b]
<1>1. run.todo \in Seq(Domains) /\ Tail(run.todo) \in Seq(Domains) /\ run.refused \in BOOLEAN
  BY TailOfList DEF RunRecords
<1>2. /\ r \in RunRecords /\ r.pc = "verb" /\ r.todo = Tail(run.todo)
      /\ r.refused = (run.refused \/ b)
  BY <1>1 DEF RunRecords
<1>3. SameCall(run, r)
  BY DEF SameCall, RunRecords
<1>4. ASSUME NEW code \in {0, 1}
      PROVE  LET f == Finally(r, code) IN
             /\ f.pc = "drain" /\ f.exit = code /\ f.refused = r.refused
             /\ f.verb = r.verb /\ f.domain = r.domain /\ f.version = r.version
             /\ f.value = r.value /\ f.keyed = r.keyed
  <2> HIDE DEF r
  <2> QED
    BY <1>2, FinallyTyped
<1>5. run' = IF r.todo # << >> THEN r ELSE Finally(r, IF r.refused THEN 1 ELSE 0)
  BY DEF Returned
<1> HIDE DEF r
<1>6. CASE r.todo # << >>
  BY <1>2, <1>3, <1>5, <1>6
<1>7. CASE r.todo = << >>
  <2>1. CASE r.refused
    <3>1. run' = Finally(r, 1)
      BY <1>5, <1>7, <2>1
    <3> QED
      BY <1>2, <1>3, <1>4, <1>7, <2>1, <3>1 DEF SameCall
  <2>2. CASE ~ r.refused
    <3>1. run' = Finally(r, 0)
      BY <1>5, <1>7, <2>2
    <3> QED
      BY <1>2, <1>3, <1>4, <1>7, <2>2, <3>1 DEF SameCall
  <2> QED
    BY <2>1, <2>2
<1> QED
  BY <1>6, <1>7

LEMMA ThrowMoves ==
  ASSUME run \in RunRecords, Threw
  PROVE  SameCall(run, run') /\ run'.pc = "drain" /\ run'.exit = 1
<1>1. run' = Finally(run, 1)
  BY DEF Threw
<1> QED
  BY <1>1, FinallyTyped DEF SameCall

\* A turn throws, for a verb of one key; or it is refused, its default unsound; or
\* it has its effect.
LEMMA TurnTells ==
  ASSUME TInv, NEW d \in Domains, VerbStep(d)
  PROVE  \/ Threw /\ run.verb \notin AllVerbs
         \/ \E b \in BOOLEAN : /\ Returned(b)
                               /\ b => Unsound(d)
                               /\ ~ b => Effect(run, stored', live', d)
<1> DEFINE Goal == \/ Threw /\ run.verb \notin AllVerbs
                   \/ \E b \in BOOLEAN : /\ Returned(b)
                                         /\ b => Unsound(d)
                                         /\ ~ b => Effect(run, stored', live', d)
<1>0. /\ stored \in [Domains -> Seq(Values)] /\ live \in [Domains -> Nat]
      /\ run.value \in Values \cup {None} /\ stored[d] \in Seq(Values)
  BY DEF TInv, RunRecords
<1>1. ASSUME Returned(FALSE), Effect(run, stored', live', d) PROVE Goal
  BY <1>1
<1>2. ASSUME List(d) \/ Diff(d) PROVE Goal
  <2>1. CASE Returned(FALSE) /\ run.verb \in {"list", "diff"}
    BY <1>1, <2>1 DEF Effect
  <2>2. CASE Threw /\ run.verb = "diff"
    BY <2>2 DEF AllVerbs
  <2> QED
    BY <1>2, <2>1, <2>2 DEF List, Diff
<1>3. ASSUME Add(d) PROVE Goal
  <2>1. run.verb = "add"
    BY <1>3 DEF Add
  <2>2. CASE run.value = None
    BY <1>3, <2>1, <2>2 DEF Add, AllVerbs
  <2>3. CASE run.value # None
    <3>1. Returned(FALSE) /\ Store(d, run.value) /\ run.value \in Values
      BY <1>0, <1>3, <2>3 DEF Add
    <3>2. stored'[d] = Append(stored[d], run.value)
      BY <1>0, <3>1 DEF Store
    <3>3. Last(stored'[d]) = run.value
      BY <1>0, <3>1, <3>2, Appended DEF Last
    <3> QED
      BY <1>1, <2>1, <3>1, <3>3 DEF Effect
  <2> QED
    BY <2>2, <2>3
<1>4. ASSUME PromoteMissing(d) \/ PromoteRefused(d) PROVE Goal
  BY <1>4 DEF PromoteMissing, PromoteRefused, AllVerbs
<1>5. ASSUME Promote(d) PROVE Goal
  <2>1. /\ run.verb = "promote" /\ stored[d][run.version] \in Sound /\ Returned(FALSE)
        /\ stored' = stored /\ live' = [live EXCEPT ![d] = run.version]
    BY <1>5 DEF Promote, GatePasses, MoveLive
  <2>2. live'[d] = run.version
    BY <1>0, <2>1
  <2> QED
    BY <1>1, <2>1, <2>2 DEF Effect
<1>6. ASSUME Revert(d) PROVE Goal
  <2>1. run.verb = "revert"
    BY <1>6 DEF Revert
  <2>2. CASE ~ run.keyed \/ Default[d] = None
    BY <1>6, <2>1, <2>2 DEF Revert, AllVerbs
  <2>3. CASE run.keyed /\ Default[d] # None
    <3>1. Install(d) /\ Returned(FALSE)
      BY <1>6, <2>3 DEF Revert
    <3>2. Shows(stored', live', d)
      BY <2>3, <3>1, Installs DEF Shows
    <3> QED
      BY <1>1, <2>1, <3>1, <3>2 DEF Effect
  <2> QED
    BY <2>2, <2>3
<1>7. ASSUME SeedOrSync(d) PROVE Goal
  <2>1. run.verb \in {"seed", "sync"}
    BY <1>7 DEF SeedOrSync
  <2>2. CASE UpToDate(d)
    <3>1. Returned(FALSE) /\ UNCHANGED stores
      BY <1>7, <2>2 DEF SeedOrSync
    <3>2. Effect(run, stored', live', d)
      BY <2>1, <2>2, <3>1 DEF UpToDate, Effect, Shows, stores
    <3> QED
      BY <1>1, <3>1, <3>2
  <2>3. CASE ~ UpToDate(d) /\ Refuses(d)
    <3>1. Returned(TRUE) /\ Unsound(d)
      BY <1>7, <2>3 DEF SeedOrSync, UpToDate, Refuses, Unsound
    <3> QED
      BY <3>1
  <2>4. CASE ~ UpToDate(d) /\ ~ Refuses(d)
    <3>1. Install(d) /\ Returned(FALSE) /\ Default[d] # None
      BY <1>7, <2>4 DEF SeedOrSync, UpToDate
    <3>2. Shows(stored', live', d) /\ stored'[d] # << >>
      BY <3>1, Installs DEF Shows
    <3>3. Effect(run, stored', live', d)
      BY <2>1, <3>2 DEF Effect
    <3> QED
      BY <1>1, <3>1, <3>3
  <2> QED
    BY <2>2, <2>3, <2>4
<1>8. ASSUME Health(d) PROVE Goal
  <2>1. run.verb = "health" /\ Returned(Default[d] # None /\ Default[d] \notin Sound)
    BY <1>8 DEF Health
  <2>2. CASE Unsound(d)
    <3>1. (Default[d] # None /\ Default[d] \notin Sound) = TRUE
      BY <2>2 DEF Unsound
    <3>2. Returned(TRUE)
      BY <2>1, <3>1
    <3> QED
      BY <2>2, <3>2
  <2>3. CASE ~ Unsound(d)
    <3>1. (Default[d] # None /\ Default[d] \notin Sound) = FALSE
      BY <2>3 DEF Unsound
    <3>2. Returned(FALSE)
      BY <2>1, <3>1
    <3> QED
      BY <1>1, <2>1, <2>3, <3>2 DEF Effect
  <2> QED
    BY <2>2, <2>3
<1> QED
  BY <1>2, <1>3, <1>4, <1>5, <1>6, <1>7, <1>8 DEF VerbStep
LEMMA TurnTruthful ==
  ASSUME TInv, Truthful, NEW d \in Domains, VerbStep(d) \/ (StoreRejects(d) /\ faults' # 0),
         faults' = 0 => faults = 0
  PROVE  Truthful'
<1>0. /\ TurnTaken(d) /\ run \in RunRecords /\ run.todo \in Seq(Domains)
      /\ run.pc = "verb" /\ run.todo # << >> /\ d = Head(run.todo)
      /\ Underway(run, stored, live)
  BY VerbTurn DEF TInv, RunRecords, TurnTaken, Truthful
<1>1. ASSUME Threw, faults' = 0 => run.verb \notin AllVerbs PROVE Truthful'
  <2>1. SameCall(run, run') /\ run'.pc = "drain" /\ run'.exit = 1
    BY <1>0, <1>1, ThrowMoves
  <2>2. Ended(run', stored', live', faults')
    BY <1>1, <2>1 DEF Ended, SameCall
  <2> QED
    BY <2>1, <2>2 DEF Truthful
<1>2. ASSUME NEW b \in BOOLEAN, Returned(b), b => Unsound(d),
             ~ b => Effect(run, stored', live', d)
      PROVE  Truthful'
  <2>1. /\ SameCall(run, run') /\ run'.refused = (run.refused \/ b)
        /\ \/ run'.pc = "verb" /\ run'.todo = Tail(run.todo)
           \/ /\ run'.pc = "drain" /\ Tail(run.todo) = << >>
              /\ run'.exit = IF run.refused \/ b THEN 1 ELSE 0
    BY <1>0, <1>2, ReturnMoves
  <2>2. /\ Named(run') = Named(run) /\ (SomeUnsound(run') <=> SomeUnsound(run))
        /\ \A S, L, e : Effect(run', S, L, e) <=> Effect(run, S, L, e)
    BY <2>1, SameCallSaysTheSame
  <2>3. Range(run.todo) = Range(Tail(run.todo)) \cup {d} /\ d \in Range(run.todo)
    BY <1>0, TailOfList
  <2>4. run'.refused => SomeUnsound(run)
    <3>1. CASE run.refused
      BY <1>0, <3>1 DEF Underway
    <3>2. CASE b
      BY <1>0, <1>2, <2>3, <3>2 DEF Underway, SomeUnsound
    <3> QED
      BY <2>1, <3>1, <3>2
  <2>5. ASSUME NEW e \in Range(Named(run)), ~ run'.refused, e \notin Range(Tail(run.todo))
        PROVE  Effect(run, stored', live', e)
    <3>1. CASE e = d
      BY <1>2, <2>1, <2>5, <3>1
    <3>2. CASE e # d
      <4>1. Effect(run, stored, live, e)
        BY <1>0, <2>1, <2>3, <2>5, <3>2 DEF Underway
      <4>2. e \in Domains
        <5>1. Range(Named(run)) \subseteq Domains
          BY CliAssumption DEF Named, Range
        <5> QED
          BY <5>1
      <4>3. stored'[e] = stored[e] /\ live'[e] = live[e]
        BY <1>0, <3>2, <4>2, OthersStay
      <4> QED
        BY <4>1, <4>3 DEF Effect, Shows
    <3> QED
      BY <3>1, <3>2
  <2>6. CASE run'.pc = "verb" /\ run'.todo = Tail(run.todo)
    <3>1. Range(run'.todo) \subseteq Range(Named(run'))
      BY <1>0, <2>2, <2>3, <2>6 DEF Underway
    <3>2. Underway(run', stored', live')
      BY <2>2, <2>4, <2>5, <2>6, <3>1 DEF Underway
    <3> QED
      BY <2>6, <3>2 DEF Truthful
  <2>7. CASE /\ run'.pc = "drain" /\ Tail(run.todo) = << >>
             /\ run'.exit = IF run.refused \/ b THEN 1 ELSE 0
    <3>1. Range(Tail(run.todo)) = {}
      BY <2>7 DEF Range
    <3>2. run'.exit = 0 => ~ run'.refused
      BY <2>1, <2>7
    <3>3. run'.exit = 1 => run'.refused
      <4> SUFFICES ASSUME ~ run'.refused PROVE run'.exit # 1
        OBVIOUS
      <4>1. ~ (run.refused \/ b)
        BY <2>1
      <4>2. run'.exit = 0
        BY <2>7, <4>1
      <4> QED
        BY <4>2
    <3>4. Ended(run', stored', live', faults')
      BY <2>2, <2>4, <2>5, <3>1, <3>2, <3>3 DEF Ended
    <3> QED
      BY <2>7, <3>4 DEF Truthful
  <2> QED
    BY <2>1, <2>6, <2>7
<1>3. CASE VerbStep(d)
  BY <1>1, <1>2, <1>3, TurnTells
<1>4. CASE StoreRejects(d) /\ faults' # 0
  BY <1>1, <1>4 DEF StoreRejects
<1> QED
  BY <1>3, <1>4

LEMMA StepTruthful == Inv /\ Truthful /\ [Next]_vars => Truthful'
<1> SUFFICES ASSUME Inv, Truthful, [Next]_vars PROVE Truthful'
  OBVIOUS
<1>0. TInv /\ run \in RunRecords /\ faults \in Nat
  BY DEF Inv, TInv
<1>1. ASSUME UNCHANGED <<stores, faults>>, SameCall(run, run'), run'.exit = run.exit,
             run.pc \in {"drain", "draining"}, run'.pc \in {"drain", "draining", "done"}
      PROVE  Truthful'
  <2>1. run'.verb \in Verbs => Ended(run, stored, live, faults)
    BY <1>1 DEF Truthful, SameCall
  <2>2. run'.verb \in Verbs => Ended(run', stored', live', faults')
    BY <1>1, <2>1, SameCallSaysTheSame DEF Ended, stores, SameCall
  <2> QED
    BY <1>1, <2>2 DEF Truthful
<1>2. ASSUME NEW verb \in Parsed, NEW domain \in Domains \cup {None, "unknown"},
             NEW n \in 0 .. MaxVersion, NEW v \in Values \cup {None}, NEW keyed \in BOOLEAN,
             Begin(verb, domain, n, v, keyed)
      PROVE  Truthful'
  <2>1. n \in Nat
    BY CliAssumption DEF MaxVersion
  <2>2. /\ run'.pc = (IF verb \in Verbs THEN "connect" ELSE "done")
        /\ run'.refused = FALSE /\ run'.verb = verb
    BY <1>2, <2>1, BeginShape
  <2> QED
    BY <2>2 DEF Truthful
<1>3. ASSUME Connect PROVE Truthful'
  <2>1. /\ run.pc = "connect" /\ ~ run.refused /\ Targets = Named(run)
    BY <1>3 DEF Connect, At, Truthful, Targets, OnAll, Named
  <2>2. CASE Targets = << >>
    <3>1. run' = Finally(run, 1)
      BY <1>3, <2>2 DEF Connect
    <3>2. SameCall(run, run') /\ run'.exit = 1 /\ run'.pc = "drain"
      BY <1>0, <3>1, FinallyTyped DEF SameCall
    <3>3. Named(run') = << >>
      BY <2>1, <2>2, <3>2, SameCallSaysTheSame
    <3>4. Ended(run', stored', live', faults')
      BY <3>2, <3>3 DEF Ended
    <3> QED
      BY <3>2, <3>4 DEF Truthful
  <2>3. CASE Targets # << >>
    <3>1. run' = [run EXCEPT !.pc = "verb", !.todo = Targets]
      BY <1>3, <2>3 DEF Connect
    <3>2. /\ run'.pc = "verb" /\ run'.todo = Targets /\ run'.refused = run.refused
          /\ SameCall(run, run')
      BY <1>0, <3>1 DEF RunRecords, SameCall
    <3>3. Named(run') = Targets
      BY <2>1, <3>2, SameCallSaysTheSame
    <3>4. Underway(run', stored', live')
      BY <2>1, <3>2, <3>3 DEF Underway
    <3> QED
      BY <3>2, <3>4 DEF Truthful
  <2> QED
    BY <2>2, <2>3
<1>4. ASSUME ConnectRejects PROVE Truthful'
  <2>1. run' = [run EXCEPT !.pc = "threw", !.exit = 1]
    BY <1>4 DEF ConnectRejects
  <2>2. run'.pc = "threw"
    BY <1>0, <2>1 DEF RunRecords
  <2> QED
    BY <2>2 DEF Truthful
<1>5. ASSUME StartDrain \/ EndDrain, UNCHANGED <<stores, faults>> PROVE Truthful'
  <2>1. CASE StartDrain
    <3>1. PICK W : run' = [run EXCEPT !.pc = "draining", !.waits = W]
      BY <2>1 DEF StartDrain
    <3>2. SameCall(run, run') /\ run'.exit = run.exit /\ run'.pc = "draining"
      BY <1>0, <3>1 DEF RunRecords, SameCall
    <3> QED
      BY <1>1, <1>5, <2>1, <3>2 DEF StartDrain, At
  <2>2. CASE EndDrain
    <3>1. run' = [run EXCEPT !.pc = "drain", !.todo = Tail(@), !.waits = {}]
      BY <2>2 DEF EndDrain
    <3>2. SameCall(run, run') /\ run'.exit = run.exit /\ run'.pc = "drain"
      BY <1>0, <3>1 DEF RunRecords, SameCall
    <3> QED
      BY <1>1, <1>5, <2>2, <3>2 DEF EndDrain, At
  <2> QED
    BY <1>5, <2>1, <2>2
<1>6. ASSUME Close, UNCHANGED <<stores, faults>> PROVE Truthful'
  <2>1. run.pc = "drain" /\ run' = [run EXCEPT !.pc = "done"]
    BY <1>6 DEF Close, At
  <2>2. SameCall(run, run') /\ run'.exit = run.exit /\ run'.pc = "done"
    BY <1>0, <2>1 DEF RunRecords, SameCall
  <2> QED
    BY <1>1, <1>6, <2>1, <2>2
<1>7. ASSUME Dies PROVE Truthful'
  <2>1. run' = [run EXCEPT !.pc = "dead", !.exit = 1]
    BY <1>7 DEF Dies
  <2>2. run'.pc = "dead"
    BY <1>0, <2>1 DEF RunRecords
  <2> QED
    BY <2>2 DEF Truthful
<1>8. ASSUME NEW w \in Writes, Settles(w) PROVE Truthful'
  BY <1>8 DEF Settles, stores, Truthful
<1>9. ASSUME NEW d \in Domains, StoreRejects(d) PROVE Truthful'
  <2>1. faults' = faults + 1
    BY <1>9 DEF StoreRejects
  <2>2. faults' # 0
    BY <1>0, <2>1
  <2> QED
    BY <1>0, <1>9, <2>2, TurnTruthful
<1>10. ASSUME NEW d \in Domains, VerbStep(d), faults' = faults PROVE Truthful'
  BY <1>0, <1>10, TurnTruthful
<1>11. ASSUME UNCHANGED vars PROVE Truthful'
  BY <1>11 DEF vars, stores, Truthful
<1> QED
  BY <1>2, <1>3, <1>4, <1>5, <1>6, <1>7, <1>8, <1>9, <1>10, <1>11 DEF Next, Runs, VerbStep

\* The exit code of a run that ended by itself can be trusted, whatever the domains
\* and their defaults, and whatever rejected: 0 only if the verb's effect is there on
\* every target, 1 without a rejection only for an unsound default or no target.
THEOREM ExitCodesAreTrue == Spec => []ExitTellsTruth
<1>1. Init => Truthful
  BY DEF Init, NoRun, Truthful, Verbs, KeyVerbs, AllVerbs
<1>2. Truthful => ExitTellsTruth
  <2> SUFFICES ASSUME Truthful, run.pc = "done", run.verb \in Verbs
               PROVE  ExitTellsTruth
    BY DEF ExitTellsTruth, At
  <2>1. Ended(run, stored, live, faults) /\ Targets = Named(run)
    BY DEF Truthful, Targets, OnAll, Named
  <2> QED
    BY <2>1 DEF ExitTellsTruth, Ended, Effect, Shows, SomeUnsound, Unsound
<1> QED
  BY <1>1, <1>2, StepTruthful, RunInvariant, PTL DEF Spec

=============================================================================
