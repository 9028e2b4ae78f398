------------------------------- MODULE Canary -------------------------------
(***************************************************************************)
(* The canary loop of canary.ts over a versioned store: controllers sweep  *)
(* with evaluateCanary, users resolve with resolveWeighted, a caller       *)
(* compares with resolveShadow, and operators promote meanwhile.  Every    *)
(* await is a step of its own.                                             *)
(*                                                                         *)
(* The store is VersionHistory, which VersionedStore implements: a version *)
(* once published stays, so getActiveVersion takes effect where it reads   *)
(* the label, and promote where it moves it.  What a read gives depends on *)
(* the reader: a value its build cannot load or decrypt reads as none.     *)
(***************************************************************************)
EXTENDS Naturals, Sequences

CONSTANTS
  Keys, Labels, Values,
  Active, CanaryLabel, ShadowLabel,  \* "active", CANARY_LABEL, SHADOW_LABEL
  Sound,       \* the values the running gate passes
  Callers,     \* calls of this module that may be in flight at once
  Readable,    \* per caller, the values its build can load and decrypt
  Controllers, \* the callers that sweep with evaluateCanary
  MaxVersion,  \* bound: versions of one key
  MaxMoves,    \* bound: promotes by operators
  MaxFaults    \* bound: rejections of the store or of the gate

ASSUME CanaryAssumption ==
  /\ Active \in Labels /\ CanaryLabel \in Labels /\ ShadowLabel \in Labels
  /\ Sound \subseteq Values /\ Controllers \subseteq Callers
  /\ Readable \in [Callers -> SUBSET Values]
  /\ MaxVersion \in Nat /\ MaxMoves \in Nat /\ MaxFaults \in Nat

VARIABLES
  history, pointer,  \* the store
  call,    \* per caller, its call in flight or last finished
  named,   \* per caller and label, the versions that label of its key has
           \* named while its call was in flight, as a read gives them to it
           \* (0: none, or one it cannot read); it only watches
  alarms,  \* the promote-refused events emitted: key and version
  moves, faults

vars == <<history, pointer, call, named, alarms, moves, faults>>

Store == INSTANCE VersionHistory

-----------------------------------------------------------------------------

ProgramPoints == {"readCanary", "gate", "readActive", "rollback", "alarm",
                  "weighted", "resolve", "shadowActive", "shadow", "done"}

\* canary: the version judged or served under the canary label; lkg: the last
\* known good version; answer: what a resolve returned, 0 the code's default;
\* fellBack: that resolve met a failing or unavailable backend.
Calls == [pc : ProgramPoints, key : Keys, canary : 0 .. MaxVersion,
          lkg : 0 .. MaxVersion, answer : 0 .. MaxVersion, split : BOOLEAN,
          fellBack : BOOLEAN,
          outcome : {"none", "noCanary", "passed", "failed", "served",
                     "compared", "rejected"}]

NoCall(k) == [pc |-> "done", key |-> k, canary |-> 0, lkg |-> 0, answer |-> 0,
              split |-> FALSE, fellBack |-> FALSE, outcome |-> "none"]

\* What a read of version n of the history h gives c: docToResolved is null for
\* a value its build cannot decrypt or load, as for no version at all.
Reads(c, h, n) == IF n # 0 /\ h[n] \in Readable[c] THEN n ELSE 0

Histories == UNION {[1 .. n -> Values] : n \in 0 .. MaxVersion}

\* A store in use for some time, with nothing parked under the shadow label yet.
Init ==
  /\ history \in [Keys -> Histories]
  /\ pointer \in [Keys -> [Labels -> 0 .. MaxVersion]]
  /\ \A k \in Keys :
       /\ \A l \in Labels : pointer[k][l] <= Len(history[k])
       /\ pointer[k][ShadowLabel] = 0
  /\ call \in [Callers -> {NoCall(k) : k \in Keys}]
  /\ named = [c \in Callers |-> [l \in Labels |-> {0}]]
  /\ alarms = {} /\ moves = 0 /\ faults = 0

At(c, pc) == call[c].pc = pc

\* getActiveVersion of the call's key, 0 for null.
ActiveVersion(c, l) == Reads(c, history[call[c].key], pointer[call[c].key][l])

Begin(c, k, pc, split) ==
  /\ At(c, "done")
  /\ call' = [call EXCEPT ![c] = [NoCall(k) EXCEPT !.pc = pc, !.split = split]]
  /\ named' = [named EXCEPT ![c] = [l \in Labels |->
                   {Reads(c, history[k], pointer[k][l])}]]
  /\ UNCHANGED <<history, pointer, alarms, moves, faults>>

\* A step of c that ends at pc, or with an outcome, and touches nothing shared.
Step(c, cl) ==
  /\ call' = [call EXCEPT ![c] = cl]
  /\ UNCHANGED <<history, pointer, named, alarms, moves, faults>>

Finish(cl, outcome) == [cl EXCEPT !.pc = "done", !.outcome = outcome]

\* A label moves: every call in flight on that key has now seen it.
Point(k, l, n) ==
  /\ Store!Point(k, l, n)
  /\ named' = [c \in Callers |-> IF call[c].key = k /\ ~At(c, "done")
       THEN [named[c] EXCEPT ![l] = @ \cup {Reads(c, history[k], n)}] ELSE named[c]]

-----------------------------------------------------------------------------
\* evaluateCanary.

BeginEvaluate(c, k) == c \in Controllers /\ Begin(c, k, "readCanary", FALSE)

ReadCanary(c) ==
  /\ At(c, "readCanary")
  /\ LET n == ActiveVersion(c, CanaryLabel) IN
     Step(c, IF n = 0 THEN Finish(call[c], "noCanary")
             ELSE [call[c] EXCEPT !.pc = "gate", !.canary = n])

\* The gate judges the value that was read, whatever the label names by now.
JudgeCanary(c) ==
  /\ At(c, "gate")
  /\ Step(c, IF history[call[c].key][call[c].canary] \in Sound
             THEN Finish(call[c], "passed")
             ELSE [call[c] EXCEPT !.pc = "readActive"])

\* As ReadActive, but only an older version counts as known to be good.
ReadActiveBelow(c) ==
  /\ At(c, "readActive")
  /\ LET n == ActiveVersion(c, Active) IN
     Step(c, [call[c] EXCEPT !.lkg = n, !.pc =
       IF n = 0 \/ n > call[c].canary THEN "alarm" ELSE "rollback"])

ReadActive(c) ==
  /\ At(c, "readActive")
  /\ LET n == ActiveVersion(c, Active) IN
     Step(c, [call[c] EXCEPT !.pc = IF n = 0 THEN "alarm" ELSE "rollback",
                             !.lkg = n])

\* As Rollback, but of promote's default label.
RollbackUnlabelled(c) ==
  /\ At(c, "rollback")
  /\ Point(call[c].key, Active, call[c].lkg)
  /\ call' = [call EXCEPT ![c].pc = "alarm"]
  /\ UNCHANGED <<alarms, moves, faults>>

\* promote(key, lkg, {label: CANARY_LABEL}), with no gate.
Rollback(c) ==
  /\ At(c, "rollback")
  /\ Point(call[c].key, CanaryLabel, call[c].lkg)
  /\ call' = [call EXCEPT ![c].pc = "alarm"]
  /\ UNCHANGED <<alarms, moves, faults>>

\* As Alarm, but of the version rolled back to.
AlarmOfTarget(c) ==
  /\ At(c, "alarm")
  /\ alarms' = alarms \cup {<<call[c].key, call[c].lkg>>}
  /\ call' = [call EXCEPT ![c] = Finish(@, "failed")]
  /\ UNCHANGED <<history, pointer, named, moves, faults>>

Alarm(c) ==
  /\ At(c, "alarm")
  /\ alarms' = alarms \cup {<<call[c].key, call[c].canary>>}
  /\ call' = [call EXCEPT ![c] = Finish(@, "failed")]
  /\ UNCHANGED <<history, pointer, named, moves, faults>>

-----------------------------------------------------------------------------
\* resolveWeighted and resolveShadow.

BeginWeighted(c, k) == \E split \in BOOLEAN :
  /\ Begin(c, k, IF split THEN "weighted" ELSE "resolve", split)

\* As WeightedCanary, but the canary that was read is not returned.
WeightedCanaryDropped(c) ==
  /\ At(c, "weighted")
  /\ Step(c, [call[c] EXCEPT !.pc = "resolve"])

WeightedCanary(c) ==
  /\ At(c, "weighted")
  /\ LET n == ActiveVersion(c, CanaryLabel) IN
     Step(c, IF n = 0 THEN [call[c] EXCEPT !.pc = "resolve"]
             ELSE Finish([call[c] EXCEPT !.answer = n], "served"))

\* store.resolve(key, active) of the call that goes on as cl: it never rejects,
\* but serves the code's default for no version, for one its build cannot read,
\* and for a backend that fails or is known to be away.
Resolve(c, cl) ==
  \/ Step(c, [cl EXCEPT !.answer = ActiveVersion(c, Active)])
  \/ /\ faults < MaxFaults /\ faults' = faults + 1
     /\ call' = [call EXCEPT ![c] = [cl EXCEPT !.answer = 0, !.fellBack = TRUE]]
     /\ UNCHANGED <<history, pointer, named, alarms, moves>>

WeightedActive(c) ==
  /\ At(c, "resolve")
  /\ Resolve(c, Finish(call[c], "served"))

BeginShadow(c, k) == Begin(c, k, "shadowActive", FALSE)

ShadowActive(c) ==
  /\ At(c, "shadowActive")
  /\ Resolve(c, [call[c] EXCEPT !.pc = "shadow"])

ShadowShadow(c) ==
  /\ At(c, "shadow")
  /\ Step(c, Finish([call[c] EXCEPT !.canary = ActiveVersion(c, ShadowLabel)],
                    "compared"))

-----------------------------------------------------------------------------
\* Faults and operators.

\* An awaited store call or gate rejects, and the call with it; the promote of
\* a rollback may have landed all the same.  store.resolve falls back instead.
AwaitRejects(c) ==
  /\ faults < MaxFaults
  /\ call[c].pc \notin {"done", "alarm", "resolve", "shadowActive"}
  /\ \/ UNCHANGED <<pointer, history, named>>
     \/ At(c, "rollback") /\ Point(call[c].key, CanaryLabel, call[c].lkg)
  /\ call' = [call EXCEPT ![c] = Finish(NoCall(@.key), "rejected")]
  /\ faults' = faults + 1
  /\ UNCHANGED <<alarms, moves>>

\* addVersion by anyone.
AddVersion(k, v) ==
  /\ Len(history[k]) < MaxVersion
  /\ Store!Publish(k, v)
  /\ UNCHANGED <<call, named, alarms, moves, faults>>

\* promote, promoteCanary and promoteShadow by an operator; the optional gate
\* only refuses some of them.
Promote(k, l, n) ==
  /\ moves < MaxMoves
  /\ Point(k, l, n)
  /\ moves' = moves + 1
  /\ UNCHANGED <<call, alarms, faults>>

Serve(c) ==
  \/ ReadCanary(c) \/ JudgeCanary(c) \/ ReadActive(c) \/ Rollback(c) \/ Alarm(c)
  \/ WeightedCanary(c) \/ WeightedActive(c) \/ ShadowActive(c) \/ ShadowShadow(c)

Next ==
  \/ \E c \in Callers :
       \/ \E k \in Keys : BeginEvaluate(c, k) \/ BeginWeighted(c, k) \/ BeginShadow(c, k)
       \/ Serve(c) \/ AwaitRejects(c)
  \/ \E k \in Keys :
       \/ \E v \in Values : AddVersion(k, v)
       \/ \E l \in Labels, n \in 1 .. MaxVersion : Promote(k, l, n)

\* Every await settles, and the controllers sweep every key again and again.
Fairness == \A c \in Callers :
  /\ WF_vars(Serve(c))
  /\ \A k \in Keys : SF_vars(BeginEvaluate(c, k))

Spec == Init /\ [][Next]_vars /\ Fairness

-----------------------------------------------------------------------------
\* Properties.

\* Every variable has its type; versions stay within the histories.
TypeOK ==
  /\ history \in [Keys -> Histories]
  /\ pointer \in [Keys -> [Labels -> 0 .. MaxVersion]]
  /\ call \in [Callers -> Calls]
  /\ named \in [Callers -> [Labels -> SUBSET (0 .. MaxVersion)]]
  /\ alarms \subseteq Keys \X (1 .. MaxVersion)
  /\ moves \in 0 .. MaxMoves /\ faults \in 0 .. MaxFaults

\* A weighted resolve serves what one of its two labels gave this caller while it
\* ran, or the code's default because the backend failed it: the canary fraction
\* gets active's version only if no readable canary was set at some point, the
\* rest never gets the canary, and a comparison pairs what both labels gave.
ServedWasNamed == \A c \in Callers :
  LET FromActive == \/ call[c].answer \in named[c][Active]
                    \/ call[c].fellBack /\ call[c].answer = 0
  IN /\ call[c].outcome = "served" =>
          \/ call[c].split /\ call[c].answer \in named[c][CanaryLabel] \ {0}
          \/ FromActive /\ (call[c].split => 0 \in named[c][CanaryLabel])
     /\ call[c].outcome = "compared" =>
          FromActive /\ call[c].canary \in named[c][ShadowLabel]

\* What evaluateCanary reports is so, whoever promoted meanwhile: the version it
\* calls failing was the canary, fails and was alarmed; a rollback it claims put
\* the canary on a version that was active and that it could read, and one it
\* denies had no active version, or none this build can read, to take.
ReportIsTrue == \A c \in Callers : call[c].outcome = "failed" =>
  /\ call[c].canary \in named[c][CanaryLabel]
  /\ history[call[c].key][call[c].canary] \notin Sound
  /\ <<call[c].key, call[c].canary>> \in alarms
  /\ call[c].lkg \in named[c][Active]
  /\ call[c].lkg # 0 => call[c].lkg \in named[c][CanaryLabel]

\* Without an operator only the canary label moves, never from unset, and only
\* to a version active has named since some controller began that failed one.
SweepOnlyDemotes == [][moves' = moves =>
  \A k \in Keys, l \in Labels : pointer'[k][l] # pointer[k][l] =>
    /\ l = CanaryLabel /\ pointer[k][l] # 0
    /\ \E c \in Controllers :
         /\ call[c].key = k /\ call[c].canary # 0
         /\ history[k][call[c].canary] \notin Sound
         /\ pointer'[k][l] \in named[c][Active] \ {0}]_vars

\* A failing canary does not stay beside a sound active version while some
\* controller's build can read both: some sweep takes it off, though another may
\* put an older, failing active version there.
BadCanaryIsDemoted == \A k \in Keys :
  LET Named(l) == history[k][pointer[k][l]]
      Exposed == /\ pointer[k][CanaryLabel] # 0 /\ Named(CanaryLabel) \notin Sound
                 /\ pointer[k][Active] # 0 /\ Named(Active) \in Sound
                 /\ \E c \in Controllers :
                      {Named(CanaryLabel), Named(Active)} \subseteq Readable[c]
  IN Exposed ~> ~Exposed
=============================================================================
