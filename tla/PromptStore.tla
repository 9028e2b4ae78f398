----------------------------- MODULE PromptStore -----------------------------
(***************************************************************************)
(* What packages/prompt-store adds to the core: the strict render of a     *)
(* pinned text, and the gate that renders a candidate before it goes live. *)
(* A prompt is its text and its config, a schema the fields it requires    *)
(* and those it leaves optional.                                           *)
(***************************************************************************)
EXTENDS Rendering

CONSTANTS
  Schema,   \* [required, optional] of the key's variables, as sets of names
  Goldens   \* the golden inputs of the key, a sequence of vars

\* Mutant of Neutral: the value goes in as it is.
Same(value) == value

\* A blank parts two braces of a value, the first two of every three; a brace that
\* stands alone stays as it is.
Neutral(value) ==
  replaceAll(replaceAll(value, <<Open, Open>>, <<Open, Blank, Open>>),
             <<Close, Close>>, <<Close, Blank, Close>>)

NeutralVars(vars) ==
  [i \in DOMAIN vars |-> <<vars[i][1], Neutral(vars[i][2])>>]

Shape == Schema.required \cup Schema.optional
unknownPlaceholders(text) == placeholdersIn(text, 2) \ Shape

\* The schema judges vars; what is filled in are the vars as they came.
renderPinned(text, vars) ==
  LET out == FillAll(text, NeutralVars(vars), 2) IN
  IF ~ Schema.required \subseteq Names(vars) THEN Threw("schema")
  ELSE IF placeholdersIn(out, 2) # {} THEN Threw("unbound")
  ELSE Rendered(out)

\* evalPromptVersion: the golden inputs a text fails to render over.
evalPromptVersion(text) ==
  {i \in DOMAIN Goldens : renderPinned(text, Goldens[i]).threw # "no"}

\* Mutant of promptGate: the goldens alone.
promptGateOfGoldens(prompt) == evalPromptVersion(prompt.text) = {}

\* What the store compares two prompts by: the config is stored and not hashed.
promptHash(prompt) == prompt.text

promptGate(prompt) ==
  unknownPlaceholders(prompt.text) = {} /\ evalPromptVersion(prompt.text) = {}
=============================================================================
