----------------------------- MODULE MCFacades ------------------------------
EXTENDS Facades, TLC
CONSTANTS c1, c2
CallersSymmetry == Permutations(Callers)

MCWords == {"hello", "name", "title", "sender", "dir", "out", "npm", "curl", "tsc",
            "9.1.0", "ada", "dr", "bob", "web"}
MCOthers == {Blank, "@latest"}
At(name, text) == << <<name>>, text >>
Prompt(name) == Spelled(<<name>>, 2)
Arg(name) == Spelled(<<name>>, 1)

MCSchema == [required |-> {<<"name">>}, optional |-> {<<"title">>}]
MCGoldens == << <<At("name", <<"ada">>), At("title", <<"dr">>), At("sender", <<"bob">>)>> >>
MCPrompts ==
  {[text |-> Prompt("name") \o <<Blank>> \o Prompt("title"), config |-> "warm"]} \cup
  {[text |-> t, config |-> "cold"] : t \in
    {Prompt("name") \o <<Blank>> \o Prompt("title"),
     <<"hello", Blank>> \o Prompt("sender"),
     <<Open>> \o Prompt("name") \o <<Close>>}}

Command(version, hole) == <<"npm", Blank, version, Blank>> \o hole
Spec1 == [name |-> "k", mode |-> "command", command |-> Command("9.1.0", Arg("dir")),
          network |-> TRUE, hooks |-> {<<"tsc">>}]
MCSpecs ==
  {Spec1,
   [Spec1 EXCEPT !.command = Command("@latest", Arg("dir"))],
   [Spec1 EXCEPT !.command = Command("9.1.0", Prompt("dir"))],
   [Spec1 EXCEPT !.command = <<"curl", Blank>> \o Arg("dir"),
                 !.hooks = {<<"tsc", Blank>> \o Arg("out")}],
   [Spec1 EXCEPT !.mode = "handroll", !.command = << >>]}

\* Nothing; no title; a value that makes a hole of its neighbours' braces; one that
\* reads as a hole.
MCInputs ==
  {<< >>, <<At("name", <<"ada">>), At("dir", <<"web">>)>>,
   <<At("name", Arg("title")), At("title", <<"dr">>), At("dir", Arg("out"))>>,
   <<At("name", Prompt("title")), At("title", <<"dr">>)>>}

MCGoldenCases ==
  << [input |-> <<At("name", <<"ada">>), At("dir", <<"web">>)>>,
      assert |-> {[type |-> "min-length", value |-> 2],
                  [type |-> "regex", value |-> {"ada", "npm"}]}],
     [input |-> <<At("name", <<"bob">>), At("title", <<"dr">>), At("dir", <<"web">>)>>,
      assert |-> {[type |-> "not-contains", value |-> "dr"]}] >>
MCJudgeCases == << [input |-> <<At("name", <<"ada">>), At("dir", <<"web">>)>>] >>
MCAllowedExecutables == {<<"npm">>}
MCAllowedVars == {<<"dir">>}
=============================================================================
