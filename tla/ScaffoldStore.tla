---------------------------- MODULE ScaffoldStore ----------------------------
(***************************************************************************)
(* What packages/scaffold-store adds to the core: the deterministic gate   *)
(* over a spec, the strict render of its command, and routing.  A spec is  *)
(* [name, mode, command, network, hooks]: its own key, its command (empty  *)
(* when it has none) and its install, build and test commands.             *)
(***************************************************************************)
EXTENDS Rendering

CONSTANTS
  AllowedExecutables,  \* as texts
  AllowedVars,         \* as names
  FloatingTags,        \* tokens like @latest
  RequirePinned

\* The first token of a command line, up to a blank; none if all is blank.
executableOf(command) ==
  LET blanks(i) == {j \in i .. Len(command) : command[j] = Blank}
      ink == {i \in DOMAIN command : command[i] # Blank}
  IN IF ink = {} THEN << >>
     ELSE SubSeq(command, Min(ink), Min(blanks(Min(ink)) \cup {Len(command) + 1}) - 1)

Commands(spec) == ({spec.command} \cup spec.hooks) \ {<< >>}

\* @latest, unless the tag goes on as a word.
Floating(command) == \E i \in DOMAIN command :
  command[i] \in FloatingTags /\ (i < Len(command) => command[i + 1] \notin Words)

\* Mutant of Pinned: a networked command may float.
PinnedNever(spec) == TRUE

Pinned(spec) ==
  (RequirePinned /\ spec.mode = "command" /\ spec.network) => ~ Floating(spec.command)

\* What the schema has not refused: the key, the mode, the holes, what it runs; a
\* command of blanks has no executable to refuse.
evalScaffoldSpec(key, spec) ==
  /\ spec.name = key
  /\ (spec.mode = "command" <=> spec.command # << >>)
  /\ \A c \in Commands(spec) : placeholdersIn(c, 1) \subseteq AllowedVars
  /\ executableOf(spec.command) \in AllowedExecutables \cup {<< >>}
  /\ Pinned(spec)

\* A value goes in as it is, and is searched for holes with the rest.
renderTemplate(command, vars) ==
  LET out == FillAll(command, vars, 1) IN
  IF placeholdersIn(out, 1) # {} THEN Threw("unbound") ELSE Rendered(out)

renderCommand(spec, vars) ==
  IF spec.command = << >> THEN Threw("command") ELSE renderTemplate(spec.command, vars)

\* hash covers the whole spec, whatever the order of its fields.
scaffoldHash(spec) == spec
=============================================================================
