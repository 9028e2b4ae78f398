---------------------------- MODULE CanaryProofs ----------------------------
(***************************************************************************)
(* Theorems about Canary for every set of keys, labels, values and         *)
(* callers, any number of controllers among them, and every bound.         *)
(***************************************************************************)
EXTENDS Canary, SequenceTheorems, TLAPS

-----------------------------------------------------------------------------
\* The inductive invariant.

Judging == {"gate", "readActive", "rollback", "alarm"}

\* What the record cl of caller c says is so, given what the labels of its key
\* have been seen to name, the histories and the alarms.  Nothing here can be
\* undone by a step of anybody else.
Facts(seen, hist, raised, c, cl) ==
  LET failed == cl.outcome = "failed"
      fromActive == cl.answer \in seen[Active] \/ (cl.fellBack /\ cl.answer = 0)
  IN
  /\ cl.pc # "done" => cl.outcome = "none"
  /\ cl.pc \in Judging \cup {"readCanary"} => c \in Controllers
  /\ cl.pc \in Judging \/ failed =>
       cl.canary \in seen[CanaryLabel] /\ cl.canary \in 1 .. Len(hist[cl.key])
  /\ cl.pc \in Judging \ {"gate"} \/ failed => hist[cl.key][cl.canary] \notin Sound
  /\ cl.pc \in {"rollback", "alarm"} \/ failed => cl.lkg \in seen[Active]
  /\ cl.pc = "rollback" => /\ cl.lkg \in 1 .. Len(hist[cl.key])
                           /\ hist[cl.key][cl.lkg] \in Readable[c]
  /\ cl.pc = "alarm" \/ failed => (cl.lkg # 0 => cl.lkg \in seen[CanaryLabel])
  /\ failed => <<cl.key, cl.canary>> \in raised
  /\ cl.pc = "weighted" => cl.split
  /\ cl.pc = "resolve" /\ cl.split => 0 \in seen[CanaryLabel]
  /\ cl.pc = "shadow" => fromActive
  /\ cl.outcome = "served" =>
       \/ cl.split /\ cl.answer \in seen[CanaryLabel] \ {0}
       \/ fromActive /\ (cl.split => 0 \in seen[CanaryLabel])
  /\ cl.outcome = "compared" => fromActive /\ cl.canary \in seen[ShadowLabel]

\* A call in flight has seen what the labels give it now, and a canary that was
\* set when it was read is still set.
Current(seen, hist, ptr, c, cl) ==
  /\ cl.pc # "done" => \A l \in Labels : Reads(c, hist[cl.key], ptr[cl.key][l]) \in seen[l]
  /\ cl.pc \in {"gate", "readActive", "rollback"} => ptr[cl.key][CanaryLabel] # 0

Stored == \A k \in Keys, l \in Labels : pointer[k][l] <= Len(history[k])

CallsFit == \A c \in Callers :
  /\ Facts(named[c], history, alarms, c, call[c])
  /\ Current(named[c], history, pointer, c, call[c])

CInv == TypeOK /\ Stored /\ CallsFit

-----------------------------------------------------------------------------
\* Histories.

\* A history is a sequence of values, no longer than the bound.
LEMMA HistoryIsSeq ==
  ASSUME NEW h \in Histories
  PROVE  h \in Seq(Values) /\ Len(h) \in 0 .. MaxVersion /\ DOMAIN h = 1 .. Len(h)
<1>1. PICK n \in 0 .. MaxVersion : h \in [1 .. n -> Values]
  BY DEF Histories
<1> QED BY <1>1, CanaryAssumption

\* A history that grows within the bound is one.
LEMMA AppendIsHistory ==
  ASSUME NEW h \in Histories, NEW v \in Values, Len(h) < MaxVersion
  PROVE  /\ Append(h, v) \in Histories
         /\ Len(Append(h, v)) = Len(h) + 1
         /\ \A n \in 1 .. Len(h) : Append(h, v)[n] = h[n]
<1>1. h \in Seq(Values) /\ Len(h) \in 0 .. MaxVersion
  BY HistoryIsSeq
<1>2. /\ Append(h, v) \in Seq(Values) /\ Len(Append(h, v)) = Len(h) + 1
      /\ \A n \in 1 .. Len(h) : Append(h, v)[n] = h[n]
  BY <1>1
<1>3. Append(h, v) \in [1 .. Len(h) + 1 -> Values]
  BY <1>2, LenProperties
<1>4. Len(h) + 1 \in 0 .. MaxVersion
  BY <1>1, CanaryAssumption
<1> QED BY <1>2, <1>3, <1>4 DEF Histories

\* hist2 has all that hist has.
Grows(hist, hist2) == \A k \in Keys :
  /\ Len(hist[k]) \in Nat /\ Len(hist2[k]) \in Nat
  /\ Len(hist[k]) <= Len(hist2[k])
  /\ \A n \in 1 .. Len(hist[k]) : hist2[k][n] = hist[k][n]

\* What a record says stays so while labels are seen, versions published and
\* alarms raised.
LEMMA FactsStay ==
  ASSUME NEW c, NEW cl \in Calls, NEW seen, NEW seen2, NEW hist, NEW hist2,
         NEW raised, NEW raised2,
         \A l \in Labels : seen[l] \subseteq seen2[l],
         Grows(hist, hist2), raised \subseteq raised2,
         Facts(seen, hist, raised, c, cl)
  PROVE  Facts(seen2, hist2, raised2, c, cl)
<1>1. /\ cl.key \in Keys
      /\ Active \in Labels /\ CanaryLabel \in Labels /\ ShadowLabel \in Labels
  BY CanaryAssumption DEF Calls
<1>2. ASSUME cl.canary \in 1 .. Len(hist[cl.key])
      PROVE  /\ cl.canary \in 1 .. Len(hist2[cl.key])
             /\ hist2[cl.key][cl.canary] = hist[cl.key][cl.canary]
  BY <1>1, <1>2 DEF Grows
<1>3. ASSUME cl.lkg \in 1 .. Len(hist[cl.key])
      PROVE  /\ cl.lkg \in 1 .. Len(hist2[cl.key])
             /\ hist2[cl.key][cl.lkg] = hist[cl.key][cl.lkg]
  BY <1>1, <1>3 DEF Grows
<1> QED BY <1>1, <1>2, <1>3 DEF Facts, Judging

-----------------------------------------------------------------------------
\* What moves keep the invariant.

\* The initial states.
LEMMA InitCInv == ASSUME Init PROVE CInv
<1>1. \A k \in Keys : Len(history[k]) \in 0 .. MaxVersion
  BY HistoryIsSeq DEF Init
<1>2. call \in [Callers -> Calls]
  <2>1. ASSUME NEW k \in Keys PROVE NoCall(k) \in Calls
    BY CanaryAssumption DEF NoCall, Calls, ProgramPoints
  <2> QED BY <2>1 DEF Init
<1>3. TypeOK
  <2>1. named \in [Callers -> [Labels -> SUBSET (0 .. MaxVersion)]]
    BY CanaryAssumption DEF Init
  <2> QED BY <1>2, <2>1, CanaryAssumption DEF Init, TypeOK
<1>4. Stored
  BY DEF Init, Stored
<1>5. ASSUME NEW c \in Callers PROVE call[c].pc = "done" /\ call[c].outcome = "none"
  BY DEF Init, NoCall
<1>6. CallsFit
  BY <1>5 DEF CallsFit, Facts, Current, Judging
<1> QED BY <1>3, <1>4, <1>6 DEF CInv

\* A call becomes another record that is true, and nothing shared is touched.
LEMMA CallKeeps ==
  ASSUME CInv, NEW c \in Callers, NEW cl \in Calls, call' = [call EXCEPT ![c] = cl],
         UNCHANGED <<history, pointer, named, alarms, moves>>, faults' \in 0 .. MaxFaults,
         Facts(named[c], history, alarms, c, cl), Current(named[c], history, pointer, c, cl)
  PROVE  CInv'
<1>1. TypeOK'
  BY DEF CInv, TypeOK
<1>2. Stored'
  BY DEF CInv, Stored
<1>3. ASSUME NEW d \in Callers
      PROVE  /\ Facts(named[d], history, alarms, d, call'[d])
             /\ Current(named[d], history, pointer, d, call'[d])
  BY DEF CInv, TypeOK, CallsFit
<1>4. CallsFit'
  BY <1>3 DEF CallsFit
<1> QED BY <1>1, <1>2, <1>4 DEF CInv

LEMMA StepKeeps ==
  ASSUME CInv, NEW c \in Callers, NEW cl \in Calls, Step(c, cl),
         Facts(named[c], history, alarms, c, cl), Current(named[c], history, pointer, c, cl)
  PROVE  CInv'
<1>1. faults' \in 0 .. MaxFaults
  BY DEF CInv, TypeOK, Step
<1> QED BY <1>1, CallKeeps DEF Step

\* A label moves, to a stored version; the calls themselves stay.
LEMMA PointSeen ==
  ASSUME CInv, NEW k \in Keys, NEW m \in Labels, NEW n, Point(k, m, n)
  PROVE  /\ n \in 1 .. Len(history[k]) /\ history' = history
         /\ pointer' \in [Keys -> [Labels -> 0 .. MaxVersion]]
         /\ pointer'[k][m] = n
         /\ \A j \in Keys, l \in Labels :
              pointer'[j][l] # pointer[j][l] => j = k /\ l = m
         /\ named' \in [Callers -> [Labels -> SUBSET (0 .. MaxVersion)]]
         /\ Stored'
         /\ \A d \in Callers :
              /\ \A l \in Labels : named[d][l] \subseteq named'[d][l]
              /\ Current(named'[d], history', pointer', d, call[d])
         /\ \A d \in Callers : call[d].key = k /\ ~At(d, "done") =>
              Reads(d, history[k], n) \in named'[d][m]
<1>1. n \in 1 .. Len(history[k]) /\ history' = history
      /\ pointer' = [pointer EXCEPT ![k][m] = n]
  BY DEF Point, Store!Point
<1>2. Len(history[k]) \in 0 .. MaxVersion
  BY HistoryIsSeq DEF CInv, TypeOK
<1>3. n \in 1 .. MaxVersion
  BY <1>1, <1>2, CanaryAssumption
<1>4. pointer' \in [Keys -> [Labels -> 0 .. MaxVersion]]
  BY <1>1, <1>3, CanaryAssumption DEF CInv, TypeOK
<1>5. pointer'[k][m] = n
      /\ \A j \in Keys, l \in Labels : pointer'[j][l] # pointer[j][l] => j = k /\ l = m
  BY <1>1 DEF CInv, TypeOK
<1>6. ASSUME NEW d \in Callers
      PROVE  named'[d] = IF call[d].key = k /\ ~At(d, "done")
                         THEN [named[d] EXCEPT ![m] = @ \cup {Reads(d, history[k], n)}]
                         ELSE named[d]
  BY DEF Point
<1>7. named' \in [Callers -> [Labels -> SUBSET (0 .. MaxVersion)]]
  <2>1. ASSUME NEW d \in Callers PROVE named'[d] \in [Labels -> SUBSET (0 .. MaxVersion)]
    <3>1. named[d] \in [Labels -> SUBSET (0 .. MaxVersion)]
      BY DEF CInv, TypeOK
    <3>2. Reads(d, history[k], n) \in 0 .. MaxVersion
      BY <1>3, CanaryAssumption DEF Reads
    <3>3. named[d][m] \cup {Reads(d, history[k], n)} \in SUBSET (0 .. MaxVersion)
      BY <3>1, <3>2
    <3> QED BY <1>6, <3>1, <3>3
  <2>2. named' = [d \in Callers |-> named'[d]]
    BY DEF Point
  <2> QED BY <2>1, <2>2
<1>8. Stored'
  BY <1>1, <1>5 DEF CInv, Stored
<1>9. ASSUME NEW d \in Callers
      PROVE  /\ \A l \in Labels : named[d][l] \subseteq named'[d][l]
             /\ call[d].key = k /\ ~At(d, "done") => Reads(d, history[k], n) \in named'[d][m]
  <2>1. named[d] \in [Labels -> SUBSET (0 .. MaxVersion)]
    BY DEF CInv, TypeOK
  <2> QED BY <1>6, <2>1
<1>10. ASSUME NEW d \in Callers PROVE Current(named'[d], history', pointer', d, call[d])
  <2>1. call[d].key \in Keys /\ Current(named[d], history, pointer, d, call[d])
    BY DEF CInv, TypeOK, CallsFit, Calls
  <2>2. ASSUME call[d].pc # "done", NEW l \in Labels
        PROVE  Reads(d, history'[call[d].key], pointer'[call[d].key][l]) \in named'[d][l]
    <3> DEFINE j == call[d].key
    <3>1. history' = history /\ Reads(d, history[j], pointer[j][l]) \in named[d][l]
      BY <1>1, <2>1, <2>2 DEF Current
    <3>2. CASE j = k /\ l = m
      BY <1>1, <1>5, <1>9, <2>2, <3>2 DEF At
    <3>3. CASE ~(j = k /\ l = m)
      BY <1>5, <1>9, <2>1, <3>1, <3>3
    <3> QED BY <3>2, <3>3
  <2>3. ASSUME call[d].pc \in {"gate", "readActive", "rollback"}
        PROVE  pointer'[call[d].key][CanaryLabel] # 0
    BY <1>3, <1>5, <2>1, <2>3, CanaryAssumption DEF Current
  <2> QED BY <2>2, <2>3 DEF Current
<1> QED BY <1>1, <1>4, <1>5, <1>7, <1>8, <1>9, <1>10

\* Nothing moved but labels and the calls: histories grow from themselves.
LEMMA SameGrows == ASSUME CInv PROVE Grows(history, history)
<1>1. \A k \in Keys : Len(history[k]) \in 0 .. MaxVersion
  BY HistoryIsSeq DEF CInv, TypeOK
<1>2. ASSUME NEW k \in Keys PROVE Len(history[k]) \in Nat /\ Len(history[k]) <= Len(history[k])
  BY <1>1, CanaryAssumption
<1> QED BY <1>2, Zenon DEF Grows
-----------------------------------------------------------------------------
\* Every action keeps the invariant.

LEMMA BeginKeeps ==
  ASSUME CInv, NEW c \in Callers, NEW k \in Keys, NEW split \in BOOLEAN,
         NEW pc \in {"readCanary", "weighted", "resolve", "shadowActive"},
         pc = "readCanary" => c \in Controllers,
         pc \in {"weighted", "resolve"} => (split <=> pc = "weighted"),
         Begin(c, k, pc, split)
  PROVE  CInv'
<1> DEFINE cl == [NoCall(k) EXCEPT !.pc = pc, !.split = split]
           fresh == [l \in Labels |-> {Reads(c, history[k], pointer[k][l])}]
<1>1. /\ cl.pc = pc /\ cl.key = k /\ cl.split = split /\ cl.outcome = "none"
  BY DEF NoCall
<1>2. cl \in Calls
  <2>1. NoCall(k) \in Calls
    BY CanaryAssumption DEF NoCall, Calls, ProgramPoints
  <2> QED BY <2>1 DEF Calls, ProgramPoints
<1>3. call' = [call EXCEPT ![c] = cl] /\ named' = [named EXCEPT ![c] = fresh]
      /\ UNCHANGED <<history, pointer, alarms, moves, faults>>
  BY DEF Begin
<1>4. fresh \in [Labels -> SUBSET (0 .. MaxVersion)]
  BY CanaryAssumption DEF CInv, TypeOK, Reads
<1>5. TypeOK'
  BY <1>2, <1>3, <1>4 DEF CInv, TypeOK
<1>6. Stored'
  BY <1>3 DEF CInv, Stored
<1>7. Facts(named'[c], history, alarms, c, call'[c]) /\ Current(named'[c], history, pointer, c, call'[c])
  <2>1. call'[c] = cl /\ named'[c] = fresh /\ history' = history /\ pointer' = pointer
    BY <1>3 DEF CInv, TypeOK
  <2>2. Facts(named'[c], history, alarms, c, cl)
    BY <1>1 DEF Facts, Judging
  <2>3. Current(named'[c], history, pointer, c, cl)
    BY <1>1, <2>1 DEF Current
  <2> QED BY <2>1, <2>2, <2>3
<1>8. ASSUME NEW d \in Callers, d # c
      PROVE  Facts(named'[d], history, alarms, d, call'[d]) /\ Current(named'[d], history, pointer, d, call'[d])
  BY <1>3, <1>8 DEF CInv, TypeOK, CallsFit
<1>9. CallsFit'
  BY <1>3, <1>7, <1>8 DEF CallsFit
<1> QED BY <1>5, <1>6, <1>9 DEF CInv

\* What the invariant says of one call.
LEMMA CallFits ==
  ASSUME CInv, NEW c \in Callers
  PROVE  /\ call[c] \in Calls /\ call[c].key \in Keys
         /\ Facts(named[c], history, alarms, c, call[c])
         /\ Current(named[c], history, pointer, c, call[c])
         /\ \A l \in Labels :
              /\ ActiveVersion(c, l) \in 0 .. MaxVersion
              /\ ActiveVersion(c, l) <= Len(history[call[c].key])
              /\ call[c].pc # "done" => ActiveVersion(c, l) \in named[c][l]
              /\ ActiveVersion(c, l) # 0 =>
                   /\ ActiveVersion(c, l) = pointer[call[c].key][l]
                   /\ history[call[c].key][ActiveVersion(c, l)] \in Readable[c]
<1>1. /\ call[c] \in Calls /\ call[c].key \in Keys
      /\ Facts(named[c], history, alarms, c, call[c])
      /\ Current(named[c], history, pointer, c, call[c])
  BY DEF CInv, TypeOK, CallsFit, Calls
<1>2. Len(history[call[c].key]) \in 0 .. MaxVersion
  BY <1>1, HistoryIsSeq DEF CInv, TypeOK
<1> QED BY <1>1, <1>2, CanaryAssumption DEF CInv, TypeOK, Stored, Current, ActiveVersion, Reads

LEMMA ReadCanaryKeeps == ASSUME CInv, NEW c \in Callers, ReadCanary(c) PROVE CInv'
<1> DEFINE n == ActiveVersion(c, CanaryLabel)
           k == call[c].key
<1>1. /\ call[c] \in Calls /\ k \in Keys /\ call[c].pc = "readCanary"
      /\ Facts(named[c], history, alarms, c, call[c])
      /\ Current(named[c], history, pointer, c, call[c])
      /\ n \in 0 .. MaxVersion /\ n <= Len(history[k]) /\ n \in named[c][CanaryLabel]
      /\ Len(history[k]) \in 0 .. MaxVersion
  BY CallFits, CanaryAssumption, HistoryIsSeq DEF ReadCanary, At, CInv, TypeOK
<1>2. CASE n = 0
  <2> DEFINE cl == Finish(call[c], "noCanary")
  <2>1. cl \in Calls /\ cl.pc = "done" /\ cl.outcome = "noCanary"
    BY <1>1 DEF Finish, Calls, ProgramPoints
  <2>2. Facts(named[c], history, alarms, c, cl) /\ Current(named[c], history, pointer, c, cl)
    BY <2>1 DEF Facts, Current, Judging
  <2>3. Step(c, cl)
    BY <1>2 DEF ReadCanary
  <2> QED BY <2>1, <2>2, <2>3, StepKeeps
<1>3. CASE n # 0
  <2> DEFINE cl == [call[c] EXCEPT !.pc = "gate", !.canary = n]
  <2>1. cl \in Calls /\ cl.pc = "gate" /\ cl.canary = n /\ cl.key = k /\ cl.outcome = call[c].outcome
    BY <1>1 DEF Calls, ProgramPoints
  <2>2. Facts(named[c], history, alarms, c, cl)
    BY <1>1, <1>3, <2>1, CanaryAssumption DEF Facts, Judging
  <2>3. Current(named[c], history, pointer, c, cl)
    BY <1>1, <1>3, <2>1 DEF Current, ActiveVersion, Reads
  <2>4. Step(c, cl)
    BY <1>3 DEF ReadCanary
  <2> QED BY <2>1, <2>2, <2>3, <2>4, StepKeeps
<1> QED BY <1>2, <1>3

LEMMA JudgeCanaryKeeps == ASSUME CInv, NEW c \in Callers, JudgeCanary(c) PROVE CInv'
<1> DEFINE k == call[c].key
<1>1. /\ call[c] \in Calls /\ k \in Keys /\ call[c].pc = "gate"
      /\ Facts(named[c], history, alarms, c, call[c])
      /\ Current(named[c], history, pointer, c, call[c])
  BY CallFits DEF JudgeCanary, At
<1>2. CASE history[k][call[c].canary] \in Sound
  <2> DEFINE cl == Finish(call[c], "passed")
  <2>1. cl \in Calls /\ cl.pc = "done" /\ cl.outcome = "passed"
    BY <1>1 DEF Finish, Calls, ProgramPoints
  <2>2. Facts(named[c], history, alarms, c, cl) /\ Current(named[c], history, pointer, c, cl)
    BY <2>1 DEF Facts, Current, Judging
  <2>3. Step(c, cl)
    BY <1>2 DEF JudgeCanary
  <2> QED BY <2>1, <2>2, <2>3, StepKeeps
<1>3. CASE history[k][call[c].canary] \notin Sound
  <2> DEFINE cl == [call[c] EXCEPT !.pc = "readActive"]
  <2>1. cl \in Calls /\ cl.pc = "readActive" /\ cl.canary = call[c].canary /\ cl.key = k
        /\ cl.outcome = call[c].outcome
    BY <1>1 DEF Calls, ProgramPoints
  <2>2. Facts(named[c], history, alarms, c, cl)
    BY <1>1, <1>3, <2>1 DEF Facts, Judging
  <2>3. Current(named[c], history, pointer, c, cl)
    BY <1>1, <2>1 DEF Current
  <2>4. Step(c, cl)
    BY <1>3 DEF JudgeCanary
  <2> QED BY <2>1, <2>2, <2>3, <2>4, StepKeeps
<1> QED BY <1>2, <1>3

LEMMA ReadActiveKeeps == ASSUME CInv, NEW c \in Callers, ReadActive(c) PROVE CInv'
<1> DEFINE k == call[c].key
<1>1. /\ call[c] \in Calls /\ k \in Keys /\ call[c].pc = "readActive"
      /\ Facts(named[c], history, alarms, c, call[c])
      /\ Current(named[c], history, pointer, c, call[c])
  BY CallFits DEF ReadActive, At
<1>2. \A l \in Labels : /\ ActiveVersion(c, l) \in 0 .. MaxVersion
                        /\ ActiveVersion(c, l) <= Len(history[k])
                        /\ ActiveVersion(c, l) \in named[c][l]
  BY <1>1, CallFits
<1>3. Len(history[k]) \in 0 .. MaxVersion
  BY <1>1, HistoryIsSeq DEF CInv, TypeOK
<1> DEFINE n == ActiveVersion(c, Active)
           cl == [call[c] EXCEPT !.pc = IF n = 0 THEN "alarm" ELSE "rollback",
                                 !.lkg = n]
<1>4. /\ n \in 0 .. Len(history[k]) /\ n \in 0 .. MaxVersion /\ n \in named[c][Active]
      /\ n # 0 => history[k][n] \in Readable[c]
  BY <1>2, <1>3, CallFits, CanaryAssumption
<1>5. /\ cl \in Calls /\ cl.pc = (IF n = 0 THEN "alarm" ELSE "rollback") /\ cl.lkg = n
      /\ cl.canary = call[c].canary /\ cl.key = k /\ cl.outcome = call[c].outcome
  BY <1>1, <1>4 DEF Calls, ProgramPoints
<1>6. Facts(named[c], history, alarms, c, cl)
  BY <1>1, <1>3, <1>4, <1>5 DEF Facts, Judging
<1>7. Current(named[c], history, pointer, c, cl)
  BY <1>1, <1>5 DEF Current
<1>8. Step(c, cl)
  BY DEF ReadActive
<1> QED BY <1>5, <1>6, <1>7, <1>8, StepKeeps

\* The promote of a rollback, also of one whose answer is lost.
LEMMA RollbackPoints ==
  ASSUME CInv, NEW c \in Callers, At(c, "rollback"),
         Point(call[c].key, CanaryLabel, call[c].lkg)
  PROVE  /\ call[c].canary \in 1 .. MaxVersion
         /\ call[c].lkg # 0
         /\ call[c].lkg \in named'[c][CanaryLabel]
         /\ Facts(named'[c], history', alarms, c, call[c])
         /\ \A d \in Callers : Facts(named'[d], history', alarms, d, call[d])
         /\ history' = history
<1>1. /\ call[c] \in Calls /\ call[c].key \in Keys /\ CanaryLabel \in Labels
      /\ Facts(named[c], history, alarms, c, call[c]) /\ call[c].pc = "rollback"
  BY CallFits, CanaryAssumption DEF At
<1>2. /\ history' = history
      /\ \A d \in Callers, l \in Labels : named[d][l] \subseteq named'[d][l]
      /\ call[c].lkg \in named'[c][CanaryLabel]
  <2> DEFINE k == call[c].key
             n == call[c].lkg
  <2>1. k \in Keys /\ Point(k, CanaryLabel, n)
    BY <1>1
  <2> HIDE DEF k, n
  <2>2. /\ history' = history
        /\ \A d \in Callers, l \in Labels : named[d][l] \subseteq named'[d][l]
        /\ \A d \in Callers : call[d].key = k /\ ~At(d, "done") =>
             Reads(d, history[k], n) \in named'[d][CanaryLabel]
    BY <1>1, <2>1, PointSeen
  <2>3. Reads(c, history[k], n) = n
    BY <1>1 DEF Facts, Judging, Reads, k, n
  <2> QED BY <1>1, <2>2, <2>3 DEF k, n, At
<1>3. ASSUME NEW d \in Callers PROVE Facts(named'[d], history', alarms, d, call[d])
  <2>1. call[d] \in Calls /\ Facts(named[d], history, alarms, d, call[d])
    BY CallFits
  <2> QED BY <1>2, <2>1, SameGrows, FactsStay
<1>4. Len(history[call[c].key]) \in 0 .. MaxVersion
  BY <1>1, HistoryIsSeq DEF CInv, TypeOK
<1>5. call[c].canary \in 1 .. MaxVersion /\ call[c].lkg # 0
  BY <1>1, <1>4, CanaryAssumption DEF Facts, Judging
<1> QED BY <1>2, <1>3, <1>5


\* A label moves, and with it one record becomes another that is true.
LEMMA PointKeeps ==
  ASSUME CInv, NEW k \in Keys, NEW m \in Labels, NEW n, Point(k, m, n),
         call' \in [Callers -> Calls], UNCHANGED alarms,
         moves' \in 0 .. MaxMoves, faults' \in 0 .. MaxFaults,
         \A d \in Callers : call'[d] # call[d] =>
           /\ Facts(named'[d], history', alarms, d, call'[d])
           /\ Current(named'[d], history', pointer', d, call'[d])
  PROVE  CInv'
<1>1. TypeOK' /\ Stored'
  <2>1. /\ history' = history /\ Stored'
        /\ pointer' \in [Keys -> [Labels -> 0 .. MaxVersion]]
        /\ named' \in [Callers -> [Labels -> SUBSET (0 .. MaxVersion)]]
    BY PointSeen
  <2> QED BY <2>1 DEF CInv, TypeOK
<1>2. ASSUME NEW d \in Callers
      PROVE  /\ Facts(named'[d], history', alarms, d, call'[d])
             /\ Current(named'[d], history', pointer', d, call'[d])
  <2>1. /\ history' = history
        /\ \A l \in Labels : named[d][l] \subseteq named'[d][l]
        /\ Current(named'[d], history', pointer', d, call[d])
    BY PointSeen
  <2>2. call[d] \in Calls /\ Facts(named[d], history, alarms, d, call[d])
    BY CallFits
  <2>3. Facts(named'[d], history', alarms, d, call[d])
    BY <2>1, <2>2, SameGrows, FactsStay
  <2> QED BY <2>1, <2>3
<1>3. CallsFit'
  BY <1>2 DEF CallsFit
<1> QED BY <1>1, <1>3 DEF CInv

LEMMA RollbackKeeps == ASSUME CInv, NEW c \in Callers, Rollback(c) PROVE CInv'
<1> DEFINE k == call[c].key
           cl == [call[c] EXCEPT !.pc = "alarm"]
<1>1. /\ At(c, "rollback") /\ Point(k, CanaryLabel, call[c].lkg)
      /\ call' = [call EXCEPT ![c] = cl] /\ UNCHANGED <<alarms, moves, faults>>
  BY DEF Rollback
<1>2. call[c] \in Calls /\ k \in Keys /\ CanaryLabel \in Labels /\ call[c].pc = "rollback"
  BY <1>1, CallFits, CanaryAssumption DEF At
<1>3. /\ call[c].lkg \in named'[c][CanaryLabel]
      /\ Facts(named'[c], history', alarms, c, call[c])
  BY <1>1, RollbackPoints
<1>4. Current(named'[c], history', pointer', c, call[c])
  BY <1>1, <1>2, PointSeen
<1>5. /\ cl \in Calls /\ cl.pc = "alarm" /\ cl.canary = call[c].canary
      /\ cl.lkg = call[c].lkg /\ cl.key = k /\ cl.outcome = call[c].outcome
  BY <1>2 DEF Calls, ProgramPoints
<1>6. Facts(named'[c], history', alarms, c, cl)
  BY <1>2, <1>3, <1>5 DEF Facts, Judging
<1>7. Current(named'[c], history', pointer', c, cl)
  BY <1>2, <1>4, <1>5 DEF Current
<1>8. /\ call' \in [Callers -> Calls]
      /\ \A d \in Callers : call'[d] # call[d] => d = c /\ call'[d] = cl
  BY <1>1, <1>5 DEF CInv, TypeOK
<1>9. moves' \in 0 .. MaxMoves /\ faults' \in 0 .. MaxFaults
  BY <1>1 DEF CInv, TypeOK
<1> HIDE DEF cl, k
<1> QED BY <1>1, <1>2, <1>6, <1>7, <1>8, <1>9, PointKeeps

LEMMA PromoteKeeps ==
  ASSUME CInv, NEW k \in Keys, NEW l \in Labels, NEW n \in 1 .. MaxVersion, Promote(k, l, n)
  PROVE  CInv'
<1>1. Point(k, l, n) /\ UNCHANGED <<call, alarms, faults>>
  BY DEF Promote
<1>2. /\ call' \in [Callers -> Calls] /\ faults' \in 0 .. MaxFaults
      /\ moves' \in 0 .. MaxMoves
  BY CanaryAssumption DEF CInv, TypeOK, Promote
<1> QED BY <1>1, <1>2, PointKeeps

LEMMA AlarmKeeps == ASSUME CInv, NEW c \in Callers, Alarm(c) PROVE CInv'
<1> DEFINE k == call[c].key
<1>1. /\ call[c] \in Calls /\ k \in Keys /\ call[c].pc = "alarm"
      /\ Facts(named[c], history, alarms, c, call[c])
      /\ Current(named[c], history, pointer, c, call[c])
  BY CallFits DEF Alarm, At
<1> DEFINE cl == Finish(call[c], "failed")
           raised == alarms \cup {<<k, call[c].canary>>}
<1>2. /\ alarms' = raised /\ call' = [call EXCEPT ![c] = cl]
      /\ UNCHANGED <<history, pointer, named, moves, faults>>
  BY DEF Alarm
<1>3. call[c].canary \in 1 .. MaxVersion
  <2>1. call[c].canary \in 0 .. MaxVersion /\ call[c].canary \in 1 .. Len(history[k])
    BY <1>1 DEF Calls, Facts, Judging
  <2>2. Len(history[k]) \in 0 .. MaxVersion
    BY <1>1, HistoryIsSeq DEF CInv, TypeOK
  <2> QED BY <2>1, <2>2, CanaryAssumption
<1>4. /\ cl \in Calls /\ cl.pc = "done" /\ cl.outcome = "failed" /\ cl.key = k
      /\ cl.canary = call[c].canary /\ cl.lkg = call[c].lkg
  BY <1>1 DEF Finish, Calls, ProgramPoints
<1>5. TypeOK' /\ Stored'
  BY <1>1, <1>2, <1>3, <1>4 DEF CInv, TypeOK, Stored
<1>6. Facts(named[c], history, raised, c, cl) /\ Current(named[c], history, pointer, c, cl)
  BY <1>1, <1>4 DEF Facts, Judging, Current
<1>7. ASSUME NEW d \in Callers
      PROVE  Facts(named[d], history, raised, d, call'[d]) /\ Current(named[d], history, pointer, d, call'[d])
  <2>1. CASE d = c
    BY <1>2, <1>6, <2>1 DEF CInv, TypeOK
  <2>2. CASE d # c
    <3>1. call'[d] = call[d]
      BY <1>2, <2>2 DEF CInv, TypeOK
    <3>2. /\ call[d] \in Calls /\ Facts(named[d], history, alarms, d, call[d])
          /\ Current(named[d], history, pointer, d, call[d])
      BY CallFits
    <3>3. Facts(named[d], history, raised, d, call[d])
      BY <3>2, SameGrows, FactsStay
    <3> QED BY <3>1, <3>2, <3>3
  <2> QED BY <2>1, <2>2
<1>8. CallsFit'
  BY <1>2, <1>7 DEF CallsFit
<1> QED BY <1>5, <1>8 DEF CInv

LEMMA WeightedCanaryKeeps == ASSUME CInv, NEW c \in Callers, WeightedCanary(c) PROVE CInv'
<1> DEFINE k == call[c].key
<1>1. /\ call[c] \in Calls /\ k \in Keys /\ call[c].pc = "weighted"
      /\ Facts(named[c], history, alarms, c, call[c])
      /\ Current(named[c], history, pointer, c, call[c])
  BY CallFits DEF WeightedCanary, At
<1> DEFINE n == ActiveVersion(c, CanaryLabel)
<1>2. n \in 0 .. MaxVersion /\ n \in named[c][CanaryLabel]
  BY <1>1, CallFits, CanaryAssumption
<1>3. CASE n = 0
  <2> DEFINE cl == [call[c] EXCEPT !.pc = "resolve"]
  <2>1. cl \in Calls /\ cl.pc = "resolve" /\ cl.key = k /\ cl.outcome = call[c].outcome
    BY <1>1 DEF Calls, ProgramPoints
  <2>2. Facts(named[c], history, alarms, c, cl) /\ Current(named[c], history, pointer, c, cl)
    BY <1>1, <1>2, <1>3, <2>1 DEF Facts, Judging, Current
  <2>3. Step(c, cl)
    BY <1>3 DEF WeightedCanary
  <2> QED BY <2>1, <2>2, <2>3, StepKeeps
<1>4. CASE n # 0
  <2> DEFINE cl == Finish([call[c] EXCEPT !.answer = n], "served")
  <2>1. /\ cl \in Calls /\ cl.pc = "done" /\ cl.outcome = "served" /\ cl.answer = n
        /\ cl.split = call[c].split
    BY <1>1, <1>2 DEF Finish, Calls, ProgramPoints
  <2>2. Facts(named[c], history, alarms, c, cl) /\ Current(named[c], history, pointer, c, cl)
    BY <1>1, <1>2, <1>4, <2>1 DEF Facts, Judging, Current
  <2>3. Step(c, cl)
    BY <1>4 DEF WeightedCanary
  <2> QED BY <2>1, <2>2, <2>3, StepKeeps
<1> QED BY <1>3, <1>4

\* The call that goes on as cl with the answer n, or with the default, is true.
AnswersTruly(c, cl, n, fb) ==
  LET next == [cl EXCEPT !.answer = n, !.fellBack = fb] IN
  /\ Facts(named[c], history, alarms, c, next)
  /\ Current(named[c], history, pointer, c, next)

\* A resolve keeps the invariant if the call goes on truly with every answer that
\* active has given it and with the default of a fall-back.
LEMMA ResolveKeeps ==
  ASSUME CInv, NEW c \in Callers, call[c].pc # "done", NEW cl \in Calls, Resolve(c, cl),
         \A n \in 0 .. MaxVersion, fb \in BOOLEAN :
           n \in named[c][Active] \/ (fb /\ n = 0) => AnswersTruly(c, cl, n, fb)
  PROVE  CInv'
<1>1. CASE Step(c, [cl EXCEPT !.answer = ActiveVersion(c, Active)])
  <2> DEFINE n == ActiveVersion(c, Active)
             fb == cl.fellBack
             next == [cl EXCEPT !.answer = n, !.fellBack = fb]
  <2>1. n \in 0 .. MaxVersion /\ n \in named[c][Active] /\ fb \in BOOLEAN
    BY CallFits, CanaryAssumption DEF Calls
  <2>2. next = [cl EXCEPT !.answer = n] /\ next \in Calls
    BY <2>1 DEF Calls
  <2>3. /\ Facts(named[c], history, alarms, c, next)
        /\ Current(named[c], history, pointer, c, next)
    BY <2>1 DEF AnswersTruly
  <2> QED BY <1>1, <2>2, <2>3, StepKeeps
<1>2. CASE /\ faults < MaxFaults /\ faults' = faults + 1
           /\ call' = [call EXCEPT ![c] = [cl EXCEPT !.answer = 0, !.fellBack = TRUE]]
           /\ UNCHANGED <<history, pointer, named, alarms, moves>>
  <2> DEFINE next == [cl EXCEPT !.answer = 0, !.fellBack = TRUE]
  <2>1. next \in Calls /\ 0 \in 0 .. MaxVersion
    <3>1. 0 \in 0 .. MaxVersion
      BY CanaryAssumption
    <3> QED BY <3>1 DEF Calls
  <2>2. /\ Facts(named[c], history, alarms, c, next)
        /\ Current(named[c], history, pointer, c, next)
    BY <2>1 DEF AnswersTruly
  <2>3. faults' \in 0 .. MaxFaults
    BY <1>2, CanaryAssumption DEF CInv, TypeOK
  <2> HIDE DEF next
  <2> QED BY <1>2, <2>1, <2>2, <2>3, CallKeeps DEF next
<1> QED BY <1>1, <1>2 DEF Resolve

LEMMA WeightedActiveKeeps == ASSUME CInv, NEW c \in Callers, WeightedActive(c) PROVE CInv'
<1> DEFINE cl == Finish(call[c], "served")
<1>1. /\ call[c] \in Calls /\ call[c].pc = "resolve"
      /\ Facts(named[c], history, alarms, c, call[c])
  BY CallFits DEF WeightedActive, At
<1>2. cl \in Calls
  BY <1>1 DEF Finish, Calls, ProgramPoints
<1>3. ASSUME NEW n \in 0 .. MaxVersion, NEW fb \in BOOLEAN,
             n \in named[c][Active] \/ (fb /\ n = 0)
      PROVE  AnswersTruly(c, cl, n, fb)
  <2> DEFINE next == [cl EXCEPT !.answer = n, !.fellBack = fb]
  <2>1. /\ next.pc = "done" /\ next.outcome = "served" /\ next.answer = n
        /\ next.fellBack = fb /\ next.split = call[c].split
    BY <1>1 DEF Finish, Calls
  <2> HIDE DEF next
  <2>2. Facts(named[c], history, alarms, c, next) /\ Current(named[c], history, pointer, c, next)
    BY <1>1, <1>3, <2>1 DEF Facts, Judging, Current
  <2> QED BY <2>2 DEF next, AnswersTruly
<1>4. Resolve(c, cl)
  BY DEF WeightedActive
<1> QED BY <1>1, <1>2, <1>3, <1>4, ResolveKeeps

LEMMA ShadowActiveKeeps == ASSUME CInv, NEW c \in Callers, ShadowActive(c) PROVE CInv'
<1> DEFINE cl == [call[c] EXCEPT !.pc = "shadow"]
<1>1. /\ call[c] \in Calls /\ call[c].pc = "shadowActive"
      /\ Facts(named[c], history, alarms, c, call[c])
      /\ Current(named[c], history, pointer, c, call[c])
  BY CallFits DEF ShadowActive, At
<1>2. cl \in Calls
  BY <1>1 DEF Calls, ProgramPoints
<1>3. ASSUME NEW n \in 0 .. MaxVersion, NEW fb \in BOOLEAN,
             n \in named[c][Active] \/ (fb /\ n = 0)
      PROVE  AnswersTruly(c, cl, n, fb)
  <2> DEFINE next == [cl EXCEPT !.answer = n, !.fellBack = fb]
  <2>1. /\ next.pc = "shadow" /\ next.outcome = call[c].outcome /\ next.answer = n
        /\ next.fellBack = fb /\ next.key = call[c].key
    BY <1>1 DEF Calls
  <2> HIDE DEF next
  <2>2. Facts(named[c], history, alarms, c, next) /\ Current(named[c], history, pointer, c, next)
    BY <1>1, <1>3, <2>1 DEF Facts, Judging, Current
  <2> QED BY <2>2 DEF next, AnswersTruly
<1>4. Resolve(c, cl)
  BY DEF ShadowActive
<1> QED BY <1>1, <1>2, <1>3, <1>4, ResolveKeeps

LEMMA ShadowShadowKeeps == ASSUME CInv, NEW c \in Callers, ShadowShadow(c) PROVE CInv'
<1> DEFINE k == call[c].key
<1>1. /\ call[c] \in Calls /\ k \in Keys /\ call[c].pc = "shadow"
      /\ Facts(named[c], history, alarms, c, call[c])
      /\ Current(named[c], history, pointer, c, call[c])
  BY CallFits DEF ShadowShadow, At
<1> DEFINE n == ActiveVersion(c, ShadowLabel)
<1>2. n \in 0 .. MaxVersion /\ n \in named[c][ShadowLabel]
  BY <1>1, CallFits, CanaryAssumption
<1> DEFINE cl == Finish([call[c] EXCEPT !.canary = n], "compared")
<1>3. /\ cl \in Calls /\ cl.pc = "done" /\ cl.outcome = "compared" /\ cl.canary = n
      /\ cl.answer = call[c].answer /\ cl.fellBack = call[c].fellBack
  BY <1>1, <1>2 DEF Finish, Calls, ProgramPoints
<1>4. Facts(named[c], history, alarms, c, cl) /\ Current(named[c], history, pointer, c, cl)
  BY <1>1, <1>2, <1>3 DEF Facts, Judging, Current
<1>5. Step(c, cl)
  BY DEF ShadowShadow
<1> QED BY <1>3, <1>4, <1>5, StepKeeps

LEMMA AwaitRejectsKeeps == ASSUME CInv, NEW c \in Callers, AwaitRejects(c) PROVE CInv'
<1> DEFINE k == call[c].key
           cl == Finish(NoCall(k), "rejected")
<1>1. /\ call[c] \in Calls /\ k \in Keys /\ CanaryLabel \in Labels
  BY CallFits, CanaryAssumption
<1>2. cl \in Calls /\ cl.pc = "done" /\ cl.outcome = "rejected"
  <2>1. NoCall(k) \in Calls
    BY <1>1, CanaryAssumption DEF NoCall, Calls, ProgramPoints
  <2> QED BY <2>1 DEF Finish, Calls, ProgramPoints
<1>3. /\ call' = [call EXCEPT ![c] = cl] /\ UNCHANGED <<alarms, moves>>
      /\ faults < MaxFaults /\ faults' = faults + 1
  BY DEF AwaitRejects
<1>4. /\ call' \in [Callers -> Calls]
      /\ \A d \in Callers : call'[d] # call[d] => d = c /\ call'[d] = cl
      /\ moves' \in 0 .. MaxMoves /\ faults' \in 0 .. MaxFaults
  BY <1>2, <1>3, CanaryAssumption DEF CInv, TypeOK
<1>5. ASSUME NEW seen, NEW hist, NEW ptr
      PROVE  Facts(seen, hist, alarms, c, cl) /\ Current(seen, hist, ptr, c, cl)
  BY <1>2 DEF Facts, Judging, Current
<1> HIDE DEF cl
<1>6. CASE UNCHANGED <<pointer, history, named>>
  <2>1. TypeOK' /\ Stored'
    BY <1>3, <1>4, <1>6 DEF CInv, TypeOK, Stored
  <2>2. ASSUME NEW d \in Callers
        PROVE  /\ Facts(named[d], history, alarms, d, call'[d])
               /\ Current(named[d], history, pointer, d, call'[d])
    BY <1>4, <1>5, CallFits
  <2>3. CallsFit'
    BY <1>3, <1>6, <2>2 DEF CallsFit
  <2> QED BY <2>1, <2>3 DEF CInv
<1>7. CASE Point(k, CanaryLabel, call[c].lkg)
  BY <1>1, <1>3, <1>4, <1>5, <1>7, PointKeeps
<1> QED BY <1>6, <1>7 DEF AwaitRejects

LEMMA AddVersionKeeps ==
  ASSUME CInv, NEW k \in Keys, NEW v \in Values, AddVersion(k, v)
  PROVE  CInv'
<1>1. /\ history' = [history EXCEPT ![k] = Append(@, v)] /\ Len(history[k]) < MaxVersion
      /\ UNCHANGED <<pointer, call, named, alarms, moves, faults>>
  BY DEF AddVersion, Store!Publish
<1>2. /\ history'[k] = Append(history[k], v) /\ history[k] \in Histories
      /\ \A j \in Keys : j # k => history'[j] = history[j]
  BY <1>1 DEF CInv, TypeOK
<1>3. /\ history'[k] \in Histories /\ Len(history'[k]) = Len(history[k]) + 1
      /\ \A n \in 1 .. Len(history[k]) : history'[k][n] = history[k][n]
  BY <1>1, <1>2, AppendIsHistory
<1>4. TypeOK'
  BY <1>1, <1>3 DEF CInv, TypeOK
<1>5. \A j \in Keys : Len(history[j]) \in Nat
  BY HistoryIsSeq, CanaryAssumption DEF CInv, TypeOK
<1>6. Grows(history, history')
  <2>1. ASSUME NEW j \in Keys
        PROVE  /\ Len(history[j]) \in Nat /\ Len(history'[j]) \in Nat
               /\ Len(history[j]) <= Len(history'[j])
               /\ \A n \in 1 .. Len(history[j]) : history'[j][n] = history[j][n]
    <3>1. CASE j = k
      BY <1>3, <1>5, <3>1
    <3>2. CASE j # k
      BY <1>2, <1>5, <3>2
    <3> QED BY <3>1, <3>2
  <2> QED BY <2>1, Zenon DEF Grows
<1>7. Stored'
  <2>1. ASSUME NEW j \in Keys, NEW l \in Labels PROVE pointer[j][l] <= Len(history'[j])
    <3>1. pointer[j][l] \in 0 .. MaxVersion /\ pointer[j][l] <= Len(history[j])
      BY DEF CInv, TypeOK, Stored
    <3>2. Len(history[j]) \in Nat /\ Len(history'[j]) \in Nat /\ Len(history[j]) <= Len(history'[j])
      BY <1>6 DEF Grows
    <3> QED BY <3>1, <3>2, CanaryAssumption
  <2> QED BY <1>1, <2>1 DEF Stored
<1>8. ASSUME NEW c \in Callers
      PROVE  /\ Facts(named[c], history', alarms, c, call[c])
             /\ Current(named[c], history', pointer, c, call[c])
  <2> DEFINE j == call[c].key
  <2>1. /\ j \in Keys /\ Current(named[c], history, pointer, c, call[c])
        /\ Facts(named[c], history', alarms, c, call[c])
    BY <1>6, CallFits, FactsStay
  <2>2. ASSUME NEW l \in Labels
        PROVE  Reads(c, history'[j], pointer[j][l]) = Reads(c, history[j], pointer[j][l])
    <3>1. pointer[j][l] \in 0 .. MaxVersion /\ pointer[j][l] <= Len(history[j])
      BY <2>1 DEF CInv, TypeOK, Stored
    <3>2. pointer[j][l] # 0 => history'[j][pointer[j][l]] = history[j][pointer[j][l]]
      BY <1>6, <2>1, <3>1, CanaryAssumption DEF Grows
    <3> QED BY <3>2 DEF Reads
  <2> QED BY <2>1, <2>2 DEF Current
<1>9. CallsFit'
  BY <1>1, <1>8 DEF CallsFit
<1> QED BY <1>4, <1>7, <1>9 DEF CInv

LEMMA NextKeeps == ASSUME CInv, [Next]_vars PROVE CInv'
<1>1. ASSUME NEW c \in Callers, NEW k \in Keys,
             BeginEvaluate(c, k) \/ BeginWeighted(c, k) \/ BeginShadow(c, k)
      PROVE  CInv'
  <2>1. CASE BeginEvaluate(c, k)
    BY <2>1, BeginKeeps DEF BeginEvaluate
  <2>2. CASE BeginWeighted(c, k)
    BY <2>2, BeginKeeps DEF BeginWeighted
  <2>3. CASE BeginShadow(c, k)
    BY <2>3, BeginKeeps DEF BeginShadow
  <2> QED BY <1>1, <2>1, <2>2, <2>3
<1>2. ASSUME NEW c \in Callers, Serve(c) PROVE CInv'
  BY <1>2, ReadCanaryKeeps, JudgeCanaryKeeps, ReadActiveKeeps, RollbackKeeps, AlarmKeeps,
     WeightedCanaryKeeps, WeightedActiveKeeps, ShadowActiveKeeps, ShadowShadowKeeps DEF Serve
<1>3. CASE UNCHANGED vars
  BY <1>3 DEF vars, CInv, TypeOK, Stored, CallsFit
<1> QED BY <1>1, <1>2, <1>3, AwaitRejectsKeeps, AddVersionKeeps, PromoteKeeps DEF Next

-----------------------------------------------------------------------------
\* Theorems.

\* The inductive invariant holds in every state, whatever operators, sweeps and
\* rejections there are.
THEOREM CanaryInvariant == Spec => []CInv
<1>1. Init => CInv
  BY InitCInv
<1>2. CInv /\ [Next]_vars => CInv'
  BY NextKeeps
<1> QED BY <1>1, <1>2, PTL DEF Spec

\* Every variable of the canary loop has its type.
THEOREM CanaryTypes == Spec => []TypeOK
<1>1. CInv => TypeOK
  BY DEF CInv
<1> QED BY <1>1, CanaryInvariant, PTL

\* resolveWeighted and resolveShadow answer with what their labels named while
\* they ran.
THEOREM ServedIsNamed == Spec => []ServedWasNamed
<1>1. CInv => ServedWasNamed
  BY CallFits DEF ServedWasNamed, Facts
<1> QED BY <1>1, CanaryInvariant, PTL

\* What evaluateCanary reports of a failing canary is so.
THEOREM ReportsAreTrue == Spec => []ReportIsTrue
<1>1. CInv => ReportIsTrue
  BY CallFits DEF ReportIsTrue, Facts
<1> QED BY <1>1, CanaryInvariant, PTL

\* A promote of a rollback only demotes a canary, to a version active has named.
LEMMA RollbackDemotes ==
  ASSUME CInv, NEW c \in Callers, At(c, "rollback"),
         Point(call[c].key, CanaryLabel, call[c].lkg),
         NEW k \in Keys, NEW l \in Labels, pointer'[k][l] # pointer[k][l]
  PROVE  /\ l = CanaryLabel /\ pointer[k][l] # 0
         /\ \E d \in Controllers :
              /\ call[d].key = k /\ call[d].canary # 0
              /\ history[k][call[d].canary] \notin Sound
              /\ pointer'[k][l] \in named[d][Active] \ {0}
<1> DEFINE j == call[c].key
           n == call[c].lkg
<1>1. /\ call[c] \in Calls /\ j \in Keys /\ CanaryLabel \in Labels
      /\ Facts(named[c], history, alarms, c, call[c])
      /\ Current(named[c], history, pointer, c, call[c])
      /\ call[c].pc = "rollback"
  BY CallFits, CanaryAssumption DEF At
<1>2. /\ c \in Controllers /\ history[j][call[c].canary] \notin Sound
      /\ n \in named[c][Active] /\ pointer[j][CanaryLabel] # 0
  BY <1>1 DEF Facts, Judging, Current
<1>3. call[c].canary # 0 /\ n # 0
  BY RollbackPoints, CanaryAssumption
<1>4. /\ pointer'[j][CanaryLabel] = n
      /\ pointer'[k][l] # pointer[k][l] => k = j /\ l = CanaryLabel
  <2>1. Point(j, CanaryLabel, n)
    OBVIOUS
  <2> HIDE DEF j, n
  <2> QED BY <1>1, <2>1, PointSeen
<1> QED BY <1>2, <1>3, <1>4

\* Without an operator, only the canary label moves, and only as a demotion.
THEOREM SweepsOnlyDemote == Spec => SweepOnlyDemotes
<1> DEFINE Demotes == moves' = moves =>
      \A k \in Keys, l \in Labels : pointer'[k][l] # pointer[k][l] =>
        /\ l = CanaryLabel /\ pointer[k][l] # 0
        /\ \E c \in Controllers :
             /\ call[c].key = k /\ call[c].canary # 0
             /\ history[k][call[c].canary] \notin Sound
             /\ pointer'[k][l] \in named[c][Active] \ {0}
<1>1. ASSUME CInv, [Next]_vars PROVE [Demotes]_vars
  <2>1. ASSUME NEW c \in Callers, Rollback(c) PROVE Demotes
    BY <1>1, <2>1, RollbackDemotes DEF Rollback
  <2>2. ASSUME NEW c \in Callers, AwaitRejects(c) PROVE Demotes
    BY <1>1, <2>2, RollbackDemotes DEF AwaitRejects
  <2>3. ASSUME NEW k \in Keys, NEW l \in Labels, NEW n \in 1 .. MaxVersion, Promote(k, l, n)
        PROVE  Demotes
    <3>1. moves \in 0 .. MaxMoves /\ moves' = moves + 1
      BY <1>1, <2>3 DEF Promote, CInv, TypeOK
    <3>2. moves' # moves
      BY <3>1, CanaryAssumption
    <3> QED BY <3>2
  <2>4. ASSUME UNCHANGED pointer PROVE Demotes
    BY <2>4
  <2>5. ASSUME NEW c \in Callers, Serve(c), ~Rollback(c) PROVE UNCHANGED pointer
    BY <2>5 DEF Serve, ReadCanary, JudgeCanary, ReadActive, Alarm, WeightedCanary,
       WeightedActive, ShadowActive, ShadowShadow, Step, Resolve
  <2>6. ASSUME NEW c \in Callers, NEW k \in Keys,
               BeginEvaluate(c, k) \/ BeginWeighted(c, k) \/ BeginShadow(c, k)
        PROVE  UNCHANGED pointer
    BY <2>6 DEF BeginEvaluate, BeginWeighted, BeginShadow, Begin
  <2>7. ASSUME NEW k \in Keys, NEW v \in Values, AddVersion(k, v) PROVE UNCHANGED pointer
    BY <2>7 DEF AddVersion, Store!Publish
  <2> HIDE DEF Demotes
  <2> QED BY <1>1, <2>1, <2>2, <2>3, <2>4, <2>5, <2>6, <2>7 DEF Next
<1>2. CInv /\ [Next]_vars => [Demotes]_vars
  BY <1>1
<1> QED BY <1>2, CanaryInvariant, PTL DEF Spec, SweepOnlyDemotes
=============================================================================
