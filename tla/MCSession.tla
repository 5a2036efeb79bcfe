----------------------------- MODULE MCSession -----------------------------
(***************************************************************************)
(* Model checking of Session on sets of test files.                        *)
(***************************************************************************)
EXTENDS Session

String(s) == <<"string", s>>
Array(s) == <<"array", s>>
Hash(f) == <<"hash", f>>

Nodes(S, max) == UNION {[1..n -> S] : n \in 0..max}

\* Every function from a subset of the domain of f to what f has for it.
Parts(f) == {[key \in keys |-> f[key]] : keys \in SUBSET DOMAIN f}

With(f, g) == [key \in DOMAIN f \cup DOMAIN g |-> IF key \in DOMAIN f THEN f[key] ELSE g[key]]

Cp == String("cp")
Hole == String("_")
Regex(r) == Hash([regex |-> String(r)])
Integer(n) == <<"integer", n>>

\* Steps, accepted and refused ones.
GoodSteps == {Cp, Hole, Hash([command |-> Cp, exitcode |-> Integer(1)])}
OddSteps ==
    {Hash([command |-> Cp, stdout |-> String("out")]), Regex("ls"),
     Hash([command |-> Cp, exitcode |-> Integer(IntegerLimit)]),
     Hash([command |-> Cp, exitcode |-> Integer(-IntegerLimit - 1)]),
     Hash([command |-> Hole]), Hash([command |-> Cp, regex |-> Cp]), Hash([stdout |-> Cp]),
     Hash([command |-> Cp, stdin |-> Cp]), String("digits"), Regex("("), Integer(1)}

Tests(S, max) == {Hash([steps |-> Array(steps)]) : steps \in Nodes(S, max)}

Env(key, value) == Hash([node \in {key} |-> value])

Optionals ==
    [arguments |-> String("args"), env |-> Env(String("N"), String("x")), cwd |-> String("/"),
     stdout |-> String("out"), stderr |-> String("err"), exitcode |-> Integer(1),
     mockedFiles |-> Array(<<String("/file")>>)]

\* A test with a hole and any optional fields.
RichTests == {Hash(With([steps |-> Array(<<Cp, Hole>>)], part)) : part \in Parts(Optionals)}

\* Environments and arguments, some of which are refused or written as something else.
Envs ==
    {Env(String("N"), String("1")), Env(String("true"), String("x")),
     Env(String("N"), Integer(1)), Env(Integer(1), String("x")), Env(String("true"), Integer(1)),
     Hash([node \in {String("N"), String("M")} |-> node]), Hash(<<>>), Cp}

EnvTests ==
    {Hash([steps |-> Array(<<Hole>>), env |-> env]) : env \in Envs} \cup
    {Hash([steps |-> Array(<<Hole>>), arguments |-> String(text)]) : text \in {"", "a ''", "digits"}}

BadTests ==
    {Hash([steps |-> Array(<<Hole>>), cwd |-> String("relative")]),
     Hash([steps |-> Array(<<>>), color |-> Cp]), Hash([steps |-> Cp]),
     Hash([steps |-> Array(<<>>), mockedFiles |-> Cp]),
     Hash([steps |-> Array(<<>>), mockedFiles |-> Array(<<Integer(1)>>)]),
     Hash([arguments |-> Cp]), Cp}

Wrappings == Parts([interpreter |-> String("sh"), unmockedCommands |-> Array(<<String("sed"), String("1")>>)])
Wrapped(array, part) == Hash(With([tests |-> Array(array)], part))

NoFiles == {Missing, Garbage, <<>>, <<Hash([tests |-> Array(<<>>)]), Cp>>, <<Cp>>, <<Hash([color |-> Cp])>>}

Documents(D) == {<<doc>> : doc \in D}

\* Several tests with simple steps.
ManyTests ==
    Documents({Array(nodes) : nodes \in Nodes(Tests(GoodSteps, 1), 2)})
        \cup Documents({Array(nodes) : nodes \in [1..3 -> Tests({Cp, Hole}, 1)]})

\* One test, with all kinds of fields.
OneTest ==
    NoFiles
        \cup Documents(Tests(GoodSteps \cup OddSteps, 2) \cup RichTests \cup EnvTests \cup BadTests)
        \cup Documents({Wrapped(<<test>>, part) : test \in Tests(GoodSteps, 1), part \in Wrappings})
        \cup Documents({Wrapped(<<>>, [color |-> Cp]), Wrapped(<<>>, [unmockedCommands |-> Cp]),
                        Wrapped(<<>>, [unmockedCommands |-> Array(<<Integer(1)>>)])})

\* A regex that is not a command.
RegexAndHole == Documents({Array(<<Hash([steps |-> Array(<<Regex("digits"), Hole>>)])>>)})

\* All of these.
AnyFile == ManyTests \cup OneTest \cup RegexAndHole

\* What is written for a command whose executable has a space or a backslash, which
\* is not quoted, and for empty arguments, which are lost.
Formatted == [text \in {"quoted", "cp ''"} |-> IF text = "quoted" THEN "unquoted" ELSE "cp"]
FormattedArguments == [text \in {"a ''"} |-> "a"]

PlainSteps ==
    {<<>>, <<NewStep(ExactMatch("ls"))>>, <<[NewStep(ExactMatch("ls")) EXCEPT !.exitcode = 1]>>}

\* Commands that are read as something else among them, such as a program called _.
RecordedSteps ==
    PlainSteps \cup {<<NewStep(ExactMatch(text))>> : text \in {HoleText} \cup DOMAIN Formatted}
        \cup {<<[NewStep(ExactMatch(HoleText)) EXCEPT !.exitcode = 1]>>}
=============================================================================
