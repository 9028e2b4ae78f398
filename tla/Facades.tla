------------------------------- MODULE Facades -------------------------------
(***************************************************************************)
(* A facade at work over a store: authors add versions of one key, callers *)
(* promote them through the facade's gate, through a ladder of their own,  *)
(* or through the core with no gate at all, seed, sync and revert to the   *)
(* code default, and users render what is live.  No operation of a facade  *)
(* relates two keys, so one is enough.                                     *)
(*                                                                         *)
(* The store is VersionHistory, which VersionedStore implements: what a    *)
(* promote loads to judge is what it installs, whoever writes meanwhile.   *)
(***************************************************************************)
EXTENDS PromptStore, ScaffoldStore, EvalGate

CONSTANTS
  Key,
  Prompts, Specs,   \* the payloads of either facade
  Inputs,           \* the vars users render with
  Callers,
  Silent,           \* whether a host's tier 1 refuses with an empty list of failures
  MaxVersion,       \* bound: versions of the key
  MaxCalls,         \* bound: calls ever begun
  None              \* no default

ASSUME FacadesAssumption ==
  /\ Silent \in BOOLEAN /\ MaxVersion \in Nat /\ MaxCalls \in Nat
  /\ None \notin Prompts \cup Specs
  /\ Inputs \subseteq Bindings
  /\ \A prompt \in Prompts : prompt.text \in Texts
  /\ \A spec \in Specs : spec.command \in Texts /\ spec.mode \in {"command", "handroll"}

VARIABLES
  facade,   \* whose store this is
  default,  \* the code default of the key
  history, pointer,  \* the store
  judged,   \* history: the versions that went live through a gate
  call,     \* per caller, its call in flight or last finished
  begun

store == <<history, pointer, judged>>
vars == <<facade, default, store, call, begun>>

Store == INSTANCE VersionHistory
  WITH Keys <- {Key}, Labels <- {"active"}, Values <- Prompts \cup Specs

Versions == history[Key]
Live == pointer[Key]["active"]

\* The payloads, the hash, the gate and the render of the facade.
Payloads == IF facade = "prompt" THEN Prompts ELSE Specs
hash(v) == IF facade = "prompt" THEN promptHash(v) ELSE scaffoldHash(v)
Sound(v) == IF facade = "prompt" THEN promptGate(v) ELSE evalScaffoldSpec(Key, v)
Render(v, given) ==
  IF facade = "prompt" THEN renderPinned(v.text, given) ELSE renderCommand(v, given)

Calls == [op : {"none", "promote", "seed", "sync", "revert", "render"},
          pc : {"gate", "ladder", "add", "upsert", "done"},
          gated : BOOLEAN, n : 0 .. MaxVersion, run : Runs, scores : [DOMAIN JudgeCases -> Scores \cup {"none"}],
          given : Inputs \cup {<< >>}, threw : {"no", "schema", "unbound", "command"},
          outcome : {"pending", "promoted", "unchanged", "refused", "rejected",
                     "rendered", "handroll"}]

NoCall == [op |-> "none", pc |-> "done", gated |-> FALSE, n |-> 0, run |-> StartRun(FALSE),
           scores |-> [i \in DOMAIN JudgeCases |-> "none"], given |-> << >>,
           threw |-> "no", outcome |-> "pending"]

Finish(cl, outcome) == [cl EXCEPT !.pc = "done", !.outcome = outcome]

Init ==
  /\ facade \in {"prompt", "scaffold"}
  /\ default \in Payloads \cup {None}
  /\ history = [k \in {Key} |-> << >>]
  /\ pointer = [k \in {Key} |-> [l \in {"active"} |-> 0]]
  /\ judged = {} /\ call = [c \in Callers |-> NoCall] /\ begun = 0

-----------------------------------------------------------------------------
\* addPromptVersion, addScaffoldVersion: not gated.
Add(v) ==
  /\ Len(Versions) < MaxVersion /\ Store!Publish(Key, v)
  /\ UNCHANGED <<facade, default, judged, call, begun>>

Begin(c, cl) ==
  /\ call[c].pc = "done" /\ begun < MaxCalls
  /\ begun' = begun + 1 /\ call' = [call EXCEPT ![c] = cl]
  /\ UNCHANGED <<facade, default, store>>

\* The facade's promote judges with its own gate, the core's with buildGate's or
\* with none: then the row is all it reads before it moves the label.
BeginPromote(c) == \E n \in DOMAIN Versions, pc \in {"gate", "ladder", "upsert"}, judge \in BOOLEAN :
  /\ judge => pc = "ladder"
  /\ Begin(c, [NoCall EXCEPT !.op = "promote", !.pc = pc, !.gated = pc # "upsert",
                 !.n = n, !.run = StartRun(judge)])

\* A call that installs the default: the facade gates it, the core only when asked to.
Installing(op, gated) ==
  [NoCall EXCEPT !.op = op, !.pc = IF gated THEN "gate" ELSE "add", !.gated = gated]

\* seedDefaults: only a key that has no version.
BeginSeed(c) == \E gated \in BOOLEAN :
  /\ default # None
  /\ LET cl == Installing("seed", gated) IN
     Begin(c, IF Versions # << >> THEN Finish(cl, "unchanged") ELSE cl)

\* syncDefaults: a key whose live version has not the default's hash.  The prompt
\* facade has none of its own, a host gives the core's the same gate.
BeginSync(c) == \E gated \in BOOLEAN :
  /\ default # None
  /\ LET cl == Installing("sync", gated) IN
     Begin(c, IF Live # 0 /\ hash(Versions[Live]) = hash(default)
              THEN Finish(cl, "unchanged") ELSE cl)

\* revertToCodeDefault: no gate stands before the kill switch.
BeginRevert(c) ==
  LET cl == Installing("revert", FALSE) IN
  Begin(c, IF default = None THEN Finish(cl, "rejected") ELSE cl)

\* What resolve hands out: the version live, or the default when none is or when
\* the backend fails.
Resolve(stored) ==
  LET n == IF stored THEN Live ELSE 0 IN
  [n |-> n, value |-> IF n # 0 THEN Versions[n] ELSE default]

BeginRender(c, pin, given, absent) ==
  LET cl == [NoCall EXCEPT !.op = "render", !.n = pin.n, !.given = given] IN
  Begin(c, IF pin.value = None THEN Finish(cl, absent)
           ELSE Finish([cl EXCEPT !.threw = Render(pin.value, given).threw], "rendered"))

\* renderPrompt: a key with nothing to resolve rejects.
RenderPrompt(c) == \E given \in Inputs, stored \in BOOLEAN :
  facade = "prompt" /\ BeginRender(c, Resolve(stored), given, "rejected")

\* resolveFor or resolveScaffold, then renderCommand: a null means to hand-roll.
RenderScaffold(c) == \E given \in Inputs, stored \in BOOLEAN :
  facade = "scaffold" /\ BeginRender(c, Resolve(stored), given, "handroll")

\* keyFor declines the input, or no router was configured and resolveFor rejects.
Unrouted(c) == \E outcome \in {"handroll", "rejected"} :
  /\ facade = "scaffold"
  /\ Begin(c, Finish([NoCall EXCEPT !.op = "render"], outcome))

-----------------------------------------------------------------------------
\* A step of c's call that touches no store.
Step(c, pc, cl) ==
  /\ call[c].pc = pc
  /\ call' = [call EXCEPT ![c] = cl]
  /\ UNCHANGED <<facade, default, store, begun>>

\* What a call judges: the version to promote, or the default to install.
Candidate(c) == IF call[c].op = "promote" THEN Versions[call[c].n] ELSE default

Judge(c) ==
  Step(c, "gate", IF ~ Sound(Candidate(c)) THEN Finish(call[c], "refused")
                  ELSE [call[c] EXCEPT !.pc = IF call[c].op = "promote"
                                              THEN "upsert" ELSE "add"])

\* Tier 1, here the facade's own gate, as one more gate of the ladder.  What
\* composeGates keeps of a gate that did not pass is its list of failures.
Deterministic(c) ==
  /\ call[c].run.at = "deterministic"
  /\ Step(c, "ladder",
          [call[c] EXCEPT !.run = Record(@, ~ Sound(Candidate(c)) /\ ~ Silent)])

Golden(c) == LET run == call[c].run IN
  /\ run.at = "golden"
  /\ LET case == GoldenCases[run.case] IN
     Step(c, "ladder", [call[c] EXCEPT
       !.run = Record(@, GoldenFails(case, Render(Candidate(c), case.input)))])

\* A render that throws never reaches the judge; null is no failure; a judge that
\* rejects takes the promote with it.
Score(c) == LET run == call[c].run IN
  /\ run.at = "judge"
  /\ IF Render(Candidate(c), JudgeCases[run.case].input).threw # "no"
     THEN Step(c, "ladder", [call[c] EXCEPT !.run = Record(@, TRUE)])
     ELSE \E s \in Scores :
       LET cl == [call[c] EXCEPT !.scores[run.case] = s] IN
       Step(c, "ladder", IF s = "throws" THEN Finish(cl, "rejected")
                         ELSE [cl EXCEPT !.run = Record(@, s = "low")])

Verdict(c) ==
  /\ call[c].run.at = "verdict"
  /\ Step(c, "ladder", IF Passed(call[c].run) THEN [call[c] EXCEPT !.pc = "upsert"]
                       ELSE Finish(call[c], "refused"))

AddDefault(c) ==
  /\ call[c].pc = "add" /\ Len(Versions) < MaxVersion
  /\ Store!Publish(Key, default)
  /\ call' = [call EXCEPT ![c].pc = "upsert", ![c].n = Len(Versions) + 1]
  /\ UNCHANGED <<facade, default, judged, begun>>

Upsert(c) ==
  /\ call[c].pc = "upsert"
  /\ Store!Point(Key, "active", call[c].n)
  /\ judged' = IF call[c].gated THEN judged \cup {call[c].n} ELSE judged
  /\ call' = [call EXCEPT ![c] = Finish(@, "promoted")]
  /\ UNCHANGED <<facade, default, begun>>

Next ==
  \/ \E v \in Payloads : Add(v)
  \/ \E c \in Callers :
       \/ BeginPromote(c) \/ BeginSeed(c) \/ BeginSync(c)
       \/ BeginRevert(c) \/ RenderPrompt(c) \/ RenderScaffold(c) \/ Unrouted(c)
       \/ Judge(c) \/ Deterministic(c) \/ Golden(c) \/ Score(c) \/ Verdict(c)
       \/ AddDefault(c) \/ Upsert(c)

Spec == Init /\ [][Next]_vars
-----------------------------------------------------------------------------
\* The types of the variables.
TypeOK ==
  /\ facade \in {"prompt", "scaffold"} /\ default \in Payloads \cup {None}
  /\ Versions \in Seq(Payloads) /\ Len(Versions) <= MaxVersion
  /\ Live \in 0 .. Len(Versions) /\ judged \subseteq DOMAIN Versions
  /\ call \in [Callers -> Calls] /\ begun \in 0 .. MaxCalls

\* c has rendered a version that some gate let live.
RendersJudged(c) == call[c].outcome = "rendered" /\ call[c].n \in judged

\* A prompt that a gate let live fails a user only for what the user left out: vars
\* the schema refuses, or a field that it leaves optional and the text uses.  The
\* text's braces must all be of holes, and no two holes may touch.
GatedPromptRenders == \A c \in Callers :
  LET cl == call[c]
      text == Versions[cl.n].text
      missing == placeholdersIn(text, 2) \ Names(cl.given)
  IN facade = "prompt" /\ RendersJudged(c) /\ cl.threw = "unbound" =>
       /\ missing \subseteq Schema.optional
       /\ IsClear(text, 2) => missing # {}

\* A scaffold that a gate let live runs an allowed executable, of a pinned version
\* when it reaches the network; to render it takes the allowed vars, with values
\* that have no braces when its own are all of holes apart, or it has no command.
GatedCommandRuns == \A c \in Callers : LET cl == call[c]  spec == Versions[cl.n] IN
  facade = "scaffold" /\ RendersJudged(c) =>
    /\ cl.threw = "command" => spec.mode = "handroll"
    /\ cl.threw = "unbound" =>
         \/ ~ AllowedVars \subseteq Names(cl.given)
         \/ ~ Braceless(cl.given) \/ ~ IsClear(spec.command, 1)
    /\ cl.threw = "no" =>
         /\ executableOf(spec.command) \in AllowedExecutables \cup {<< >>}
         /\ RequirePinned /\ spec.network => ~ Floating(spec.command)

\* Whoever renders a text whose braces are all of holes apart gets that text with its
\* own holes filled, as if all at once: filling var after var searches no value for
\* holes, whatever braces a prompt's value has; a command's value has to have none.
RendersAreLiteral == \A c \in Callers :
  LET cl == call[c]
      pin == IF cl.n # 0 THEN Versions[cl.n] ELSE default
      text == IF facade = "prompt" THEN pin.text ELSE pin.command
      width == IF facade = "prompt" THEN 2 ELSE 1
      given == IF facade = "prompt" THEN NeutralVars(cl.given) ELSE cl.given
  IN /\ cl.outcome = "rendered" /\ cl.threw = "no" /\ IsClear(text, width)
     /\ facade = "scaffold" => Braceless(cl.given)
     => Render(pin, cl.given).out = FilledAtOnce(text, given, width)

\* A ladder's verdict is that of every case: what it installs failed none, what it
\* refuses failed some, it reports all that failed, and a judge that gave no score
\* is not one of them.
VerdictIsWhole == \A c \in Callers :
  LET cl == call[c]
      found == IF Sound(Candidate(c)) THEN {} ELSE {<<"deterministic", 0>>}
      golden == {<<"golden", i>> : i \in {i \in DOMAIN GoldenCases :
                   GoldenFails(GoldenCases[i], Render(Candidate(c), GoldenCases[i].input))}}
      unrendered == {<<"judge", i>> : i \in {i \in DOMAIN JudgeCases : cl.run.judge /\
                       Render(Candidate(c), JudgeCases[i].input).threw # "no"}}
      low == {<<"judge", i>> : i \in {i \in DOMAIN JudgeCases : cl.scores[i] = "low"}}
  IN cl.op = "promote" /\ cl.run.at = "verdict" =>
       /\ cl.run.failures = found \cup golden \cup unrendered \cup low
       /\ cl.pc = "done" => (cl.outcome = "promoted" <=> cl.run.failures = {})

\* evalGate.ts:244 of buildGate: "run in order 1 -> 2 -> 3, all must pass".  What a
\* ladder promotes, its first tier has passed.
AllMustPass == \A c \in Callers :
  call[c].outcome = "promoted" /\ call[c].run.at = "verdict" => Sound(Candidate(c))
=============================================================================
