------------------------------ MODULE EvalGate ------------------------------
(***************************************************************************)
(* The ladder of evalGate.ts: a deterministic tier, golden outputs, and a  *)
(* judge, run one case after the other behind an await each.  A run is     *)
(* where it stands and the failures it has collected.                      *)
(***************************************************************************)
EXTENDS Rendering

CONSTANTS
  GoldenCases,  \* tier 2: a sequence of [input, assert]
  JudgeCases    \* tier 3: a sequence of [input], each with its rubric

ASSUME CasesAssumption ==
  /\ GoldenCases \in Seq(ToSet(GoldenCases))
  /\ JudgeCases \in Seq(ToSet(JudgeCases))

\* An assertion of an output.  A regular expression, or is-json, is the set of
\* parts it looks for, empty when it is invalid.
runAssertion(a, output) ==
  CASE a.type = "equals" -> output = a.value
    [] a.type = "contains" -> a.value \in ToSet(output)
    [] a.type = "not-contains" -> a.value \notin ToSet(output)
    [] a.type = "regex" -> a.value \cap ToSet(output) # {}
    [] a.type = "is-json" -> a.value \cap ToSet(output) # {}
    [] a.type = "min-length" -> Len(output) >= a.value

\* A render that throws is a failure of its case, as an assertion is.
GoldenFails(case, result) ==
  result.threw # "no" \/ \E a \in case.assert : ~ runAssertion(a, result.out)

\* score >= threshold, score < threshold, null, and no answer at all.
Scores == {"enough", "low", "null", "throws"}

Positions == {"deterministic", "golden", "judge", "verdict"}
Cases(at) == IF at = "golden" THEN Len(GoldenCases)
             ELSE IF at = "judge" THEN Len(JudgeCases) ELSE 0

Runs == {r \in [at : Positions, case : Nat, judge : BOOLEAN,
                failures : SUBSET (Positions \X Nat)] : r.case <= Cases(r.at)}

\* judge: whether a provider is configured.
StartRun(judge) == [at |-> "deterministic", case |-> 0, judge |-> judge, failures |-> {}]

\* Where a run goes on: the tiers in order, those with no case left out.
Goto(run, at, case) == [run EXCEPT !.at = at, !.case = case]

Tier3(run) == IF run.judge /\ Cases("judge") > 0 THEN Goto(run, "judge", 1)
              ELSE Goto(run, "verdict", 0)

Tier2(run) == IF Cases("golden") > 0 THEN Goto(run, "golden", 1) ELSE Tier3(run)

Onward(run) ==
  CASE run.case < Cases(run.at) -> Goto(run, run.at, run.case + 1)
    [] run.at = "deterministic" -> Tier2(run)
    [] run.at = "golden" /\ run.case = Cases("golden") -> Tier3(run)
    [] run.at = "judge" /\ run.case = Cases("judge") -> Goto(run, "verdict", 0)

Failing(run) == [run EXCEPT !.failures = @ \cup {<<run.at, run.case>>}]

\* Mutant of Record: the tier stops at its first failure.
RecordFirst(run, failed) ==
  IF failed THEN Goto(Failing(run), "verdict", 0) ELSE Onward(run)

\* Every case runs, even after one has failed.
Record(run, failed) == Onward(IF failed THEN Failing(run) ELSE run)

Passed(run) == run.failures = {}
=============================================================================
