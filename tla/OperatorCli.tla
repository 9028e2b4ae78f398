---------------------------- MODULE OperatorCli ----------------------------
(***************************************************************************)
(* The operator CLI (cli/src/index.ts) over several domains: parse,        *)
(* connect, the verb on its targets one after the other, then drain every  *)
(* domain's sink and close, and return an exit code.  A domain is a        *)
(* descriptor and a store of one key; a verb of the store takes effect at  *)
(* once (VersionedStore cuts it at its awaits), its events go to EventSink.*)
(***************************************************************************)
EXTENDS EventSink, Sequences, SequencesExt

CONSTANTS
  Commands,    \* the registered domains, in order
  Values, None,
  Default,     \* per domain, the code default of its key, or None
  Sound,       \* the values the domain gates pass
  Gated,       \* the domains whose descriptor carries a gate for seed and sync
  Drained,     \* the domains whose descriptor carries a drain
  MaxRuns,     \* bound: runs of the CLI
  MaxFaults    \* bound: rejections of a store or of the connection

ASSUME CliAssumption ==
  /\ Commands \in Seq(Domains) /\ Commands # << >>
  /\ Range(Commands) = Domains /\ IsInjective(Commands)
  /\ Default \in [Domains -> Values \cup {None}] /\ None \notin Values
  /\ Sound \subseteq Values /\ Gated \subseteq Domains /\ Drained \subseteq Domains
  /\ MaxRuns \in Nat /\ MaxFaults \in Nat
  /\ MaxEvents \in Nat /\ MaxEvents >= MaxRuns

VARIABLES
  stored,  \* per domain, the values of its versions
  live,    \* per domain, the version its active label names, 0 for none
  reverted,\* per domain, the versions that a revert wrote (it only watches)
  lost,    \* writes still in flight when the connection closed (likewise)
  run,     \* the run in progress, or the last one
  runs, faults

stores == <<stored, live, reverted>>
vars == <<stores, sink, lost, run, runs, faults>>

\* A domain may hold a version when the first run begins; a run adds one at most.
MaxVersion == MaxRuns + 1

-----------------------------------------------------------------------------

KeyVerbs == {"add", "promote", "revert", "diff"}
AllVerbs == {"list", "seed", "sync", "health"}

\* What parseArgs and run's checks make of argv: a verb, or no run at all.
Verbs == KeyVerbs \cup AllVerbs
Parsed == Verbs \cup {"help", "usage"}

\* The version to promote and the value to add, None and 0 where it is missing or
\* malformed, and parsePayload or the verb throws; keyed: list, diff or revert
\* was given a key.
NoRun == [verb |-> "help", domain |-> None, version |-> 0, value |-> None, keyed |-> FALSE,
          pc |-> "done", todo |-> << >>, waits |-> {}, refused |-> FALSE,
          exit |-> 0]

Init ==
  /\ SinkInit
  /\ stored \in [Domains -> {<< >>} \cup {<<v>> : v \in Values}]
  /\ live \in [Domains -> {0, 1}]
  /\ \A d \in Domains : live[d] # 0 => stored[d] # << >> /\ stored[d][1] \in Sound
  /\ reverted = [d \in Domains |-> {}]
  /\ lost = {} /\ run = NoRun /\ runs = 0 /\ faults = 0

At(pc) == run.pc = pc

Over == run.pc \in {"done", "threw", "dead"}

Begin(verb, domain, n, v, keyed) ==
  /\ run.pc \in {"done", "threw"} /\ runs < MaxRuns
  /\ runs' = runs + 1
  /\ run' = [NoRun EXCEPT !.verb = verb, !.domain = domain, !.version = n, !.value = v,
       !.keyed = keyed,
       !.pc = IF verb \in Verbs THEN "connect" ELSE "done",
       !.exit = IF verb = "usage" THEN 2 ELSE 0]
  /\ UNCHANGED <<stores, sink, lost, faults>>

\* A verb that runs on every domain when none is named; list does without a key.
OnAll == run.verb \in AllVerbs /\ ~ run.keyed

\* The commands a verb runs on, in order; none where selectOne throws.
Targets ==
  IF run.domain \in Domains THEN <<run.domain>>
  ELSE IF run.domain = None /\ (OnAll \/ Len(Commands) = 1)
       THEN Commands ELSE << >>

\* The finally block: every registered domain is drained, whatever happened.
Finally(r, code) == [r EXCEPT !.pc = "drain", !.todo = Commands, !.exit = code]

Connect ==
  /\ At("connect")
  /\ run' = IF Targets = << >> THEN Finally(run, 1)
            ELSE [run EXCEPT !.pc = "verb", !.todo = Targets]
  /\ UNCHANGED <<stores, sink, lost, runs, faults>>

\* connect is awaited before the try: run itself rejects.
ConnectRejects ==
  /\ At("connect") /\ faults < MaxFaults
  /\ run' = [run EXCEPT !.pc = "threw", !.exit = 1]
  /\ faults' = faults + 1
  /\ UNCHANGED <<stores, sink, lost, runs>>

-----------------------------------------------------------------------------
\* The verbs, on the domain whose turn it is.

Turn(d) == At("verb") /\ run.todo # << >> /\ d = Head(run.todo)

\* As Returned, but the last domain decides.
ReturnedLast(refused) ==
  LET r == [run EXCEPT !.todo = Tail(@), !.refused = refused] IN
  run' = IF r.todo # << >> THEN r ELSE Finally(r, IF r.refused THEN 1 ELSE 0)

\* What the runner makes of a call that returned: the next target, and in the
\* end the exit code.
Returned(refused) ==
  LET r == [run EXCEPT !.todo = Tail(@), !.refused = @ \/ refused] IN
  run' = IF r.todo # << >> THEN r ELSE Finally(r, IF r.refused THEN 1 ELSE 0)

Threw == run' = Finally(run, 1)

\* addVersion, and addVersion then promote.
Store(d, v) == stored' = [stored EXCEPT ![d] = Append(@, v)]

MoveLive(d, n) == live' = [live EXCEPT ![d] = n]

Install(d) ==
  /\ Store(d, Default[d]) /\ MoveLive(d, Len(stored[d]) + 1)
  /\ Emit(d, {"promote-accepted"})

\* Reads of every domain, or of the versions of one key.
List(d) ==
  /\ Turn(d) /\ run.verb = "list"
  /\ Returned(FALSE)
  /\ UNCHANGED <<stores, sink>>

\* Exits with 0 whether or not the active version is the default.
Diff(d) ==
  /\ Turn(d) /\ run.verb = "diff"
  /\ IF run.keyed THEN Returned(FALSE) ELSE Threw
  /\ UNCHANGED <<stores, sink>>

Add(d) ==
  /\ Turn(d) /\ run.verb = "add"
  /\ IF run.value = None THEN Threw /\ UNCHANGED stored
     ELSE Store(d, run.value) /\ Returned(FALSE)
  /\ UNCHANGED <<live, reverted, sink>>

PromoteMissing(d) ==
  /\ Turn(d) /\ run.verb = "promote"
  /\ run.version \notin DOMAIN stored[d]
  /\ Threw
  /\ UNCHANGED <<stores, sink>>

GatePasses(d) == run.version \in DOMAIN stored[d] /\ stored[d][run.version] \in Sound

PromoteRefused(d) ==
  /\ Turn(d) /\ run.verb = "promote"
  /\ run.version \in DOMAIN stored[d] /\ ~ GatePasses(d)
  /\ Emit(d, {"gate-outcome", "promote-refused"})
  /\ Threw
  /\ UNCHANGED stores

Promote(d) ==
  /\ Turn(d) /\ run.verb = "promote"
  /\ GatePasses(d)
  /\ MoveLive(d, run.version)
  /\ Emit(d, {"gate-outcome", "promote-accepted"})
  /\ Returned(FALSE)
  /\ UNCHANGED <<stored, reverted>>

NoteRevert(d) == reverted' = [reverted EXCEPT ![d] = @ \cup {Len(stored[d]) + 1}]

\* The kill switch, which no gate may block.
Revert(d) ==
  /\ Turn(d) /\ run.verb = "revert"
  /\ IF ~ run.keyed \/ Default[d] = None THEN Threw /\ UNCHANGED <<stores, sink>>
     ELSE Install(d) /\ NoteRevert(d) /\ Returned(FALSE)

\* seedDefaults has nothing to do, or syncDefaults finds the default live.
UpToDate(d) ==
  \/ Default[d] = None
  \/ run.verb = "seed" /\ stored[d] # << >>
  \/ run.verb = "sync" /\ live[d] # 0 /\ stored[d][live[d]] = Default[d]

\* As Refuses, but sync is given no gate.
RefusesOnSeed(d) == run.verb = "seed" /\ d \in Gated /\ Default[d] \notin Sound

\* The gate of the descriptor, where it has one.
Refuses(d) == d \in Gated /\ Default[d] \notin Sound

SeedOrSync(d) ==
  /\ Turn(d) /\ run.verb \in {"seed", "sync"}
  /\ IF UpToDate(d) THEN Returned(FALSE) /\ UNCHANGED <<stores, sink>>
     ELSE IF Refuses(d) THEN Returned(TRUE) /\ UNCHANGED <<stores, sink>>
     ELSE Install(d) /\ Returned(FALSE) /\ UNCHANGED reverted

\* checkDefaults, with the domain's own gate.
Health(d) ==
  /\ Turn(d) /\ run.verb = "health"
  /\ Returned(Default[d] # None /\ Default[d] \notin Sound)
  /\ UNCHANGED <<stores, sink>>

\* An await of the verb rejects: before the store changed; with its answer lost,
\* so that the row is there or the label has moved; or after a passing gate's event.
StoreRejects(d) ==
  /\ Turn(d) /\ faults < MaxFaults
  /\ faults' = faults + 1
  /\ Threw
  /\ \/ UNCHANGED <<stores, sink>>
     \/ /\ run.verb = "add" /\ run.value # None
        /\ Store(d, run.value)
        /\ UNCHANGED <<live, reverted, sink>>
     \/ /\ run.verb = "promote" /\ GatePasses(d)
        /\ UNCHANGED live \/ MoveLive(d, run.version)
        /\ Emit(d, {"gate-outcome"})
        /\ UNCHANGED <<stored, reverted>>
     \/ /\ run.verb = "revert" /\ run.keyed /\ Default[d] # None
        /\ Store(d, Default[d])
        /\ UNCHANGED <<live, reverted>> \/ (MoveLive(d, Len(stored[d]) + 1) /\ NoteRevert(d))
        /\ UNCHANGED sink
     \/ /\ run.verb \in {"seed", "sync"} /\ ~ UpToDate(d) /\ ~ Refuses(d)
        /\ Store(d, Default[d])
        /\ UNCHANGED live \/ MoveLive(d, Len(stored[d]) + 1)
        /\ UNCHANGED <<reverted, sink>>

-----------------------------------------------------------------------------
\* The finally block.

\* As StartDrain, but the drain is not awaited.
DrainUnawaited ==
  /\ At("drain") /\ run.todo # << >>
  /\ run' = [run EXCEPT !.pc = "draining", !.waits = {}]

\* drain() takes the writes in flight when it is called.
StartDrain ==
  /\ At("drain") /\ run.todo # << >>
  /\ run' = [run EXCEPT !.pc = "draining",
       !.waits = IF Head(run.todo) \in Drained THEN Pending(Head(run.todo)) ELSE {}]

\* As EndDrain, but a write that failed is waited for all the same.
EndDrainLanded ==
  /\ At("draining")
  /\ run.waits \subseteq written
  /\ run' = [run EXCEPT !.pc = "drain", !.todo = Tail(@), !.waits = {}]

\* It resolves when they have all settled, and rejects as soon as one rejects,
\* which is caught.
EndDrain ==
  /\ At("draining")
  /\ run.waits \cap inflight = {} \/ run.waits \cap rejected # {}
  /\ run' = [run EXCEPT !.pc = "drain", !.todo = Tail(@), !.waits = {}]

\* close, whose own failure is caught too.
Close ==
  /\ At("drain") /\ run.todo = << >>
  /\ run' = [run EXCEPT !.pc = "done"]
  /\ lost' = lost \cup inflight

\* An onError that throws leaves a rejection nobody handles, which ends the
\* process unless the host has said otherwise.
Dies ==
  /\ rejected # {} /\ ~Over
  /\ run' = [run EXCEPT !.pc = "dead", !.exit = 1]
  /\ lost' = lost \cup inflight

Runs ==
  \/ Connect
  \/ \E d \in Domains :
       /\ \/ List(d) \/ Diff(d) \/ Add(d) \/ Promote(d) \/ PromoteMissing(d) \/ PromoteRefused(d)
          \/ Revert(d) \/ SeedOrSync(d) \/ Health(d)
       /\ UNCHANGED <<lost, runs, faults>>
  \/ (StartDrain \/ EndDrain) /\ UNCHANGED <<stores, sink, lost, runs, faults>>
  \/ Close /\ UNCHANGED <<stores, sink, runs, faults>>

Settles(w) == Settle(w) /\ UNCHANGED <<stores, lost, run, runs, faults>>

Next ==
  \/ \E verb \in Parsed, domain \in Domains \cup {None, "unknown"} :
       \E n \in 0 .. MaxVersion, v \in Values \cup {None}, keyed \in BOOLEAN :
         /\ verb # "promote" => n = 0
         /\ verb # "add" => v = None
         /\ verb \notin {"list", "diff", "revert"} => ~ keyed
         /\ Begin(verb, domain, n, v, keyed)
  \/ Runs
  \/ ConnectRejects
  \/ \E d \in Domains : StoreRejects(d) /\ UNCHANGED <<lost, runs>>
  \/ Dies /\ UNCHANGED <<stores, sink, runs, faults>>
  \/ \E w \in Writes : Settles(w)

\* Every await of the runner settles, and so does every write of a sink.
Spec == Init /\ [][Next]_vars /\ WF_vars(Runs) /\ \A w \in Writes : WF_vars(Settles(w))

-----------------------------------------------------------------------------
\* Properties.

\* Every variable has its type.
TypeOK ==
  /\ SinkTypeOK /\ lost \subseteq Writes
  /\ stored \in [Domains -> UNION {[1 .. n -> Values] : n \in 0 .. MaxVersion}]
  /\ \A d \in Domains : live[d] \in 0 .. Len(stored[d]) /\ reverted[d] \subseteq DOMAIN stored[d]
  /\ run.verb \in Parsed /\ run.exit \in 0 .. 2 /\ run.waits \subseteq Writes
  /\ run.pc \in {"connect", "verb", "drain", "draining", "done", "threw", "dead"}
  /\ runs \in 0 .. MaxRuns /\ faults \in 0 .. MaxFaults

\* No event of a domain with a drain is lost to the close, whichever domain the
\* verb was for, whatever failed before: unless an onError has itself thrown.
AuditSurvives == throws \/ \A w \in lost : w.domain \notin Drained

\* The exit code can be trusted. 0: the verb did what it says on every domain it
\* was for, and none was refused. 1, where nothing has rejected: a default of one
\* of those domains is unsound, or the arguments select nothing.
ExitTellsTruth == At("done") /\ run.verb \in Verbs =>
  LET Live(d) == live[d] # 0 /\ stored[d][live[d]] = Default[d] IN
  /\ run.exit = 0 => \A d \in Range(Targets) :
       /\ run.verb = "add" => Last(stored[d]) = run.value
       /\ run.verb = "promote" => live[d] = run.version /\ stored[d][run.version] \in Sound
       /\ run.verb = "revert" => Live(d)
       /\ run.verb = "seed" => Default[d] = None \/ stored[d] # << >>
       /\ run.verb = "sync" => Default[d] = None \/ Live(d)
       /\ run.verb = "health" => Default[d] \in Sound \cup {None}
  /\ run.exit = 1 /\ faults = 0 /\ run.verb \in AllVerbs =>
       \/ Targets = << >>
       \/ \E d \in Range(Targets) : Default[d] \notin Sound \cup {None}

\* Whatever verbs follow each other, what is live passed the domain's gate, or a
\* revert put it there, or it is the default of a domain whose descriptor has no
\* gate for seed and sync.
OnlyGatedLive == \A d \in Domains : live[d] # 0 =>
  \/ stored[d][live[d]] \in Sound \/ live[d] \in reverted[d]
  \/ d \notin Gated /\ stored[d][live[d]] = Default[d]

\* Every run ends, though stores reject, writes fail and drains wait or reject on
\* the way.
RunReturns == ~Over ~> Over

\* Claimed of the descriptor's gate by cli/src/index.ts, "Facade-backed descriptors
\* can leave this off (their own seedDefaults already gates)": with or without it,
\* what is live passed the gate or a revert put it there.
SeedsAreGated == \A d \in Domains : live[d] # 0 =>
  stored[d][live[d]] \in Sound \/ live[d] \in reverted[d]
=============================================================================
