------------------------------ MODULE TestSpec ------------------------------
(***************************************************************************)
(* Test files: what src/src/test_spec/mod.rs reads from the YAML of one,   *)
(* and what it writes for a recorded one.                                  *)
(*                                                                         *)
(* A YAML node is <<"string", s>>, <<"integer", n>>, <<"array", sequence>> *)
(* or <<"hash", function of the keys>>; the keys of an env are nodes too.  *)
(* A command, or a list of arguments, is named by a text that is read as   *)
(* it, with the name of the executable that is written (canonicalize).     *)
(* What these texts look like is the subject of the module CommandLine;    *)
(* here it matters which of them are refused and which are written as      *)
(* another text.                                                           *)
(***************************************************************************)
EXTENDS Integers, Sequences

CONSTANTS
    HoleText,       \* the text of a hole, _
    NoText,         \* the empty text
    NotWords,       \* texts that are no words, such as a \d of a regex
    NotRegexes,     \* texts that AnchoredRegex::new refuses
    NotStrings,     \* texts that YAML has for other values, such as 1, true and null
    AlteredCommands,    \* what commands are written as that are read as others: an
                        \* executable is not quoted, empty arguments are lost
    AlteredArguments,   \* what arguments are: empty ones are lost
    NoValue,        \* the value of an optional field that is not given
    Relative,       \* paths that are not absolute
    IntegerLimit,   \* 2^31, scaled down
    Error           \* the outcome of parsing a document that is refused

ASSUME TestSpecAssumption ==
    /\ IntegerLimit \in Nat \ {0}
    /\ NoText \notin NotWords
    /\ HoleText \notin NotWords \cup {NoText}
    /\ Error # NoText /\ Error # NoValue
    /\ Error \notin Int \cup BOOLEAN /\ NoValue \notin Int
    /\ \A text \in DOMAIN AlteredCommands : AlteredCommands[text] # Error
    /\ NoText \notin DOMAIN AlteredArguments
    /\ \A text \in DOMAIN AlteredArguments : AlteredArguments[text] \notin NotWords \cup {Error}

\* Command::new needs a first word.
NotCommands == NotWords \cup {NoText}

\* The range of an i32.
I32 == -IntegerLimit .. IntegerLimit - 1

StepKeys == {"command", "regex", "stdout", "exitcode"}
TestKeys == {"steps", "mockedFiles", "arguments", "env", "exitcode", "stdout", "stderr", "cwd"}
TestsKeys == {"tests", "interpreter", "unmockedCommands"}

-----------------------------------------------------------------------------
(***************************************************************************)
(* YAML, as far as steps and exit codes are looked for: an array has a     *)
(* sequence, and an integer is one.                                        *)
(***************************************************************************)
IsArray(s) == s \in Seq({s[i] : i \in DOMAIN s})

HasExitcode(object) ==
    "exitcode" \in DOMAIN object /\ object["exitcode"][1] = "integer" => object["exitcode"][2] \in Int

IsStepNode(yaml) == yaml[1] = "hash" => HasExitcode(yaml[2])

IsTestNode(yaml) ==
    yaml[1] = "hash" =>
        /\ HasExitcode(yaml[2])
        /\ "steps" \in DOMAIN yaml[2] /\ yaml[2]["steps"][1] = "array" =>
            LET array == yaml[2]["steps"][2]
            IN  IsArray(array) /\ \A i \in DOMAIN array : IsStepNode(array[i])

IsTestsNode(yaml) ==
    yaml[1] = "array" => IsArray(yaml[2]) /\ \A i \in DOMAIN yaml[2] : IsTestNode(yaml[2][i])

IsDocument(yaml) ==
    /\ IsTestNode(yaml)
    /\ IsTestsNode(yaml)
    /\ yaml[1] = "hash" /\ "tests" \in DOMAIN yaml[2] => IsTestsNode(yaml[2]["tests"])

IsYaml(documents) == IsArray(documents) /\ \A i \in DOMAIN documents : IsDocument(documents[i])

-----------------------------------------------------------------------------
(***************************************************************************)
(* The accessors of yaml.rs.                                               *)
(***************************************************************************)
ExpectString(yaml) == IF yaml[1] = "string" THEN yaml[2] ELSE Error
ExpectArray(yaml) == IF yaml[1] = "array" THEN yaml[2] ELSE Error

\* `result as i32` keeps the lower bits.
ToI32(n) == ((n + IntegerLimit) % (2 * IntegerLimit)) - IntegerLimit

\* Broken: integers above the range wrap around as well.
AnyInteger(yaml) == IF yaml[1] = "integer" THEN ToI32(yaml[2]) ELSE Error

ExpectInteger(yaml) ==
    IF yaml[1] = "integer" /\ yaml[2] < IntegerLimit THEN ToI32(yaml[2]) ELSE Error

\* if let Ok(field) = object.expect_field(key), where value is made of that field
Optional(object, key, value, default) == IF key \in DOMAIN object THEN value ELSE default

\* The ? after every part: one error refuses the whole.
AllOrError(parts) == IF \E i \in DOMAIN parts : parts[i] = Error THEN Error ELSE parts

\* An array of strings.
ExpectStrings(yaml) ==
    IF ExpectArray(yaml) = Error THEN Error
    ELSE AllOrError([i \in DOMAIN yaml[2] |-> ExpectString(yaml[2][i])])

\* An object with strings only, keys and values.
ExpectEnv(yaml) ==
    LET object == yaml[2]
        ValueOf(text) == ExpectString(object[CHOOSE key \in DOMAIN object : ExpectString(key) = text])
    IN  IF yaml[1] # "hash" THEN Error
        ELSE IF \E key \in DOMAIN object : Error \in {ExpectString(key), ExpectString(object[key])} THEN Error
        ELSE [text \in {ExpectString(key) : key \in DOMAIN object} |-> ValueOf(text)]

ParseArguments(text) == IF text \in NotWords THEN Error ELSE text

-----------------------------------------------------------------------------
ExactMatch(command) == [kind |-> "exact", text |-> command]
RegexMatch(regex) == [kind |-> "regex", text |-> regex]

NewStep(matcher) == [matcher |-> matcher, stdout |-> NoText, exitcode |-> 0]

\* A step for a command, as a Recorder makes it.
IsCommand(step) ==
    /\ step = [NewStep(ExactMatch(step.matcher.text)) EXCEPT !.exitcode = step.exitcode]
    /\ step.matcher.text \notin NotCommands \cup {Error}
    /\ step.exitcode \in I32

CommandNew(text) == IF text \in NotCommands \cup {Error} THEN Error ELSE ExactMatch(text)
RegexNew(text) == IF text \in NotRegexes \cup {Error} THEN Error ELSE RegexMatch(text)

StepFromText(text) == AllOrError(NewStep(CommandNew(text)))

MatcherOf(object) ==
    IF ("command" \in DOMAIN object) = ("regex" \in DOMAIN object) THEN Error
    ELSE IF "command" \in DOMAIN object THEN CommandNew(ExpectString(object["command"]))
    ELSE RegexNew(ExpectString(object["regex"]))

StepFromObject(object) ==
    IF ~(DOMAIN object \subseteq StepKeys) THEN Error
    ELSE AllOrError(
        [matcher  |-> MatcherOf(object),
         stdout   |-> Optional(object, "stdout", ExpectString(object["stdout"]), NoText),
         exitcode |-> Optional(object, "exitcode", ExpectInteger(object["exitcode"]), 0)])

ParseStep(yaml) ==
    IF yaml[1] = "string" THEN StepFromText(yaml[2])
    ELSE IF yaml[1] = "hash" THEN StepFromObject(yaml[2])
    ELSE Error

IsHole(yaml) == yaml = <<"string", HoleText>>

EndsWithHole(array) == array # <<>> /\ IsHole(array[Len(array)])

\* The steps of a test, without the hole they may end with.
StepsOf(array) ==
    AllOrError([i \in 1..(IF EndsWithHole(array) THEN Len(array) - 1 ELSE Len(array)) |->
        IF IsHole(array[i]) THEN Error ELSE ParseStep(array[i])])

ExpectCwd(yaml) == IF ExpectString(yaml) \in Relative THEN Error ELSE ExpectString(yaml)

NewTest(steps) ==
    [steps |-> steps, ends_with_hole |-> FALSE, arguments |-> NoText, env |-> <<>>,
     cwd |-> NoValue, stdout |-> NoValue, stderr |-> NoValue, exitcode |-> NoValue,
     mocked_files |-> <<>>]

TestFromArray(array) ==
    [NewTest(StepsOf(array)) EXCEPT !.ends_with_hole = EndsWithHole(array)]

TestFromObject(object) ==
    IF ~(DOMAIN object \subseteq TestKeys) \/ "steps" \notin DOMAIN object THEN Error
    ELSE IF ExpectArray(object["steps"]) = Error THEN Error
    ELSE AllOrError([TestFromArray(ExpectArray(object["steps"])) EXCEPT
        !.arguments = Optional(object, "arguments", ParseArguments(ExpectString(object["arguments"])), @),
        !.env = Optional(object, "env", ExpectEnv(object["env"]), @),
        !.cwd = Optional(object, "cwd", ExpectCwd(object["cwd"]), @),
        !.stdout = Optional(object, "stdout", ExpectString(object["stdout"]), @),
        !.stderr = Optional(object, "stderr", ExpectString(object["stderr"]), @),
        !.exitcode = Optional(object, "exitcode", ExpectInteger(object["exitcode"]), @),
        !.mocked_files = Optional(object, "mockedFiles", ExpectStrings(object["mockedFiles"]), @)])

ParseTest(yaml) == IF yaml[1] = "hash" THEN TestFromObject(yaml[2]) ELSE Error

TestsFromArray(array) ==
    IF array = Error THEN Error ELSE AllOrError([i \in DOMAIN array |-> ParseTest(array[i])])

NewTests(tests) == [tests |-> tests, unmocked_commands |-> <<>>, interpreter |-> NoValue]

TestsFromObject(object) ==
    IF ~(DOMAIN object \subseteq TestsKeys) THEN <<Error>>
    ELSE [NewTests(TestsFromArray(ExpectArray(object["tests"]))) EXCEPT
        !.unmocked_commands =
            Optional(object, "unmockedCommands", ExpectStrings(object["unmockedCommands"]), @),
        !.interpreter = Optional(object, "interpreter", ExpectString(object["interpreter"]), @)]

\* Tests::parse; <<Error>> has an error in it.
Parse(yaml) ==
    AllOrError(
        IF yaml[1] = "array" THEN NewTests(TestsFromArray(yaml[2]))
        ELSE IF yaml[1] # "hash" THEN <<Error>>
        ELSE IF "tests" \in DOMAIN yaml[2] THEN TestsFromObject(yaml[2])
        ELSE IF "steps" \in DOMAIN yaml[2] THEN NewTests(TestsFromArray(<<yaml>>))
        ELSE <<Error>>)

-----------------------------------------------------------------------------
(***************************************************************************)
(* What is known of steps and tests that were read or recorded.            *)
(***************************************************************************)
IsStep(step) ==
    /\ step = [matcher |-> [kind |-> step.matcher.kind, text |-> step.matcher.text],
               stdout |-> step.stdout, exitcode |-> step.exitcode]
    /\ step.matcher.text # Error
    /\ step.matcher.kind = "exact" => step.matcher.text \notin NotCommands
    /\ step.exitcode \in I32

AreTexts(texts) ==
    texts = [i \in DOMAIN texts |-> texts[i]] /\ \A i \in DOMAIN texts : texts[i] # Error

TestFields ==
    {"steps", "ends_with_hole", "arguments", "env", "cwd", "stdout", "stderr", "exitcode",
     "mocked_files"}

IsTest(test) ==
    /\ test = [field \in TestFields |-> test[field]]
    /\ IsArray(test.steps) /\ \A i \in DOMAIN test.steps : IsStep(test.steps[i])
    /\ test.ends_with_hole \in BOOLEAN
    /\ test.arguments \notin NotWords \cup {Error}
    /\ test.env # Error /\ AreTexts(test.env) /\ Error \notin DOMAIN test.env
    /\ test.exitcode \in I32 \cup {NoValue}

-----------------------------------------------------------------------------
(***************************************************************************)
(* What is written.                                                        *)
(***************************************************************************)
FormatCommand(text) == IF text \in DOMAIN AlteredCommands THEN AlteredCommands[text] ELSE text
FormatArguments(text) == IF text \in DOMAIN AlteredArguments THEN AlteredArguments[text] ELSE text

FormatMatcher(matcher) == IF matcher.kind = "exact" THEN FormatCommand(matcher.text) ELSE matcher.text

\* Broken: without the exit code of the step.
SerializeCommand(step) == <<"string", FormatMatcher(step.matcher)>>

SerializeStep(step) ==
    LET command == <<"string", FormatMatcher(step.matcher)>>
    IN  IF step.exitcode = 0 THEN command
        ELSE <<"hash", [command |-> command, exitcode |-> <<"integer", step.exitcode>>]>>

\* Yaml::from_str, the node of a text that is not quoted.
FromText(text) == IF text \in NotStrings THEN <<"other", text>> ELSE <<"string", text>>

SerializeEnv(env) ==
    <<"hash", [key \in {FromText(text) : text \in DOMAIN env} |-> FromText(env[key[2]])]>>

SerializedKeys(test) ==
    {"steps"} \cup (IF test.arguments = NoText THEN {} ELSE {"arguments"})
              \cup (IF test.env = <<>> THEN {} ELSE {"env"})
              \cup (IF test.exitcode = NoValue THEN {} ELSE {"exitcode"})

SerializeTest(test) ==
    LET node == [steps     |-> <<"array", [i \in DOMAIN test.steps |-> SerializeStep(test.steps[i])]>>,
                 arguments |-> <<"string", FormatArguments(test.arguments)>>,
                 env       |-> SerializeEnv(test.env),
                 exitcode  |-> <<"integer", test.exitcode>>]
    IN  <<"hash", [key \in SerializedKeys(test) |-> node[key]]>>

SerializeStrings(texts) == <<"array", [i \in DOMAIN texts |-> <<"string", texts[i]>>]>>

Serialize(tests) ==
    LET node == [tests |-> <<"array", [i \in DOMAIN tests.tests |-> SerializeTest(tests.tests[i])]>>,
                 unmockedCommands |-> SerializeStrings(tests.unmocked_commands)]
        keys == {"tests"} \cup (IF tests.unmocked_commands = <<>> THEN {} ELSE {"unmockedCommands"})
    IN  <<"hash", [key \in keys |-> node[key]]>>
=============================================================================
