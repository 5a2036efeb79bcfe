--------------------------- MODULE SessionProofs ---------------------------
(***************************************************************************)
(* Proofs about Session and TestSpec, for any test files, recordings and   *)
(* numbers of sessions: what is read from YAML, that what is written can   *)
(* be read back, and what a session does with both.                        *)
(***************************************************************************)
EXTENDS Session, SequenceTheorems, FiniteSetTheorems, TLAPS

(***************************************************************************)
(* What is read.                                                           *)
(***************************************************************************)
\* Any integer is cut to an i32.
LEMMA IntegerIsNarrowed == ASSUME NEW n \in Int PROVE ToI32(n) \in I32
BY TestSpecAssumption DEF ToI32, I32

LEMMA I32IsNarrowed == ASSUME NEW n \in I32 PROVE ToI32(n) = n
BY TestSpecAssumption DEF ToI32, I32

LEMMA ErrorIsNotI32 == Error \notin I32 /\ NoValue \notin I32 /\ 0 \in I32
BY TestSpecAssumption DEF I32

LEMMA NoErrorLeft == ASSUME NEW parts, AllOrError(parts) # Error
                     PROVE  AllOrError(parts) = parts /\ \A i \in DOMAIN parts : parts[i] # Error
BY DEF AllOrError

LEMMA ExitcodeIsRead ==
    ASSUME NEW object, HasExitcode(object), "exitcode" \in DOMAIN object,
           ExpectInteger(object["exitcode"]) # Error
    PROVE  ExpectInteger(object["exitcode"]) \in I32
BY IntegerIsNarrowed DEF HasExitcode, ExpectInteger

\* Whatever is read as a step is one.
LEMMA StepIsRead == ASSUME NEW yaml, IsStepNode(yaml), ParseStep(yaml) # Error
                    PROVE  IsStep(ParseStep(yaml))
<1>1. CASE yaml[1] = "string"
  BY <1>1, ErrorIsNotI32
  DEF ParseStep, StepFromText, AllOrError, NewStep, CommandNew, ExactMatch, IsStep
<1>2. CASE yaml[1] = "hash"
  <2> DEFINE object == yaml[2]
             step == [matcher  |-> MatcherOf(object),
                      stdout   |-> Optional(object, "stdout", ExpectString(object["stdout"]), NoText),
                      exitcode |-> Optional(object, "exitcode", ExpectInteger(object["exitcode"]), 0)]
  <2>1. ParseStep(yaml) = AllOrError(step)
    BY <1>2 DEF ParseStep, StepFromObject
  <2>2. ParseStep(yaml) = step /\ step.matcher # Error /\ step.exitcode # Error
    BY <2>1, NoErrorLeft
  <2>3. step.matcher = [kind |-> step.matcher.kind, text |-> step.matcher.text]
        /\ step.matcher.text # Error
        /\ (step.matcher.kind = "exact" => step.matcher.text \notin NotCommands)
    BY <2>2 DEF MatcherOf, CommandNew, RegexNew, ExactMatch, RegexMatch
  <2>4. step.exitcode \in I32
    <3>1. CASE "exitcode" \in DOMAIN object
      BY <1>2, <2>2, <3>1, ExitcodeIsRead DEF IsStepNode, Optional
    <3>2. CASE "exitcode" \notin DOMAIN object
      BY <3>2, ErrorIsNotI32 DEF Optional
    <3> QED BY <3>1, <3>2
  <2> QED BY <2>2, <2>3, <2>4 DEF IsStep
<1>3. CASE yaml[1] \notin {"string", "hash"}
  BY <1>3 DEF ParseStep
<1> QED BY <1>1, <1>2, <1>3

LEMMA FunctionIsArray ==
    ASSUME NEW n \in Nat, NEW f, f = [i \in 1..n |-> f[i]]
    PROVE  IsArray(f) /\ DOMAIN f = 1..n /\ Len(f) = n
<1> DEFINE S == {f[i] : i \in DOMAIN f}
<1>1. f \in [1..n -> S] /\ DOMAIN f = 1..n
  OBVIOUS
<1> HIDE DEF S
<1>2. f \in Seq(S) /\ Len(f) = n
  BY <1>1
<1> QED BY <1>1, <1>2 DEF IsArray, S

LEMMA ArrayIsFunction ==
    ASSUME NEW s, IsArray(s)
    PROVE  /\ Len(s) \in Nat
           /\ DOMAIN s = 1..Len(s)
           /\ s = [i \in 1..Len(s) |-> s[i]]
<1> DEFINE S == {s[i] : i \in DOMAIN s}
<1>1. s \in Seq(S)
  BY DEF IsArray
<1> HIDE DEF S
<1> QED BY <1>1

LEMMA StepsAreRead ==
    ASSUME NEW array, IsArray(array), \A i \in DOMAIN array : IsStepNode(array[i]),
           StepsOf(array) # Error
    PROVE  /\ IsArray(StepsOf(array))
           /\ \A i \in DOMAIN StepsOf(array) :
                /\ IsStep(StepsOf(array)[i])
                /\ i \in DOMAIN array
                /\ StepsOf(array)[i] = ParseStep(array[i]) /\ ParseStep(array[i]) # Error
<1> DEFINE n == IF EndsWithHole(array) THEN Len(array) - 1 ELSE Len(array)
           parts == [i \in 1..n |-> IF IsHole(array[i]) THEN Error ELSE ParseStep(array[i])]
<1>1. StepsOf(array) = parts /\ \A i \in DOMAIN parts : parts[i] # Error
  BY NoErrorLeft DEF StepsOf
<1>2. Len(array) \in Nat /\ DOMAIN array = 1..Len(array)
  BY ArrayIsFunction
<1>3. n \in Nat /\ n <= Len(array)
  <2>1. CASE EndsWithHole(array)
    <3>1. array # <<>>
      BY <2>1 DEF EndsWithHole
    <3>2. Len(array) # 0
      BY <1>2, <3>1, ArrayIsFunction
    <3> QED BY <1>2, <2>1, <3>2
  <2>2. CASE ~EndsWithHole(array)
    BY <1>2, <2>2
  <2> QED BY <2>1, <2>2
<1>4. ASSUME NEW i \in 1..n
      PROVE  /\ IsStep(parts[i])
             /\ i \in DOMAIN array
             /\ parts[i] = ParseStep(array[i]) /\ ParseStep(array[i]) # Error
  <2>1. ~IsHole(array[i]) /\ parts[i] = ParseStep(array[i]) /\ parts[i] # Error
    BY <1>1
  <2>2. IsStepNode(array[i])
    BY <1>2, <1>3
  <2> QED BY <1>2, <1>3, <2>1, <2>2, StepIsRead
<1>5. parts = [i \in 1..n |-> parts[i]] /\ DOMAIN parts = 1..n
  OBVIOUS
<1> HIDE DEF parts, n
<1>6. IsArray(parts)
  BY <1>3, <1>5, FunctionIsArray
<1> QED BY <1>1, <1>4, <1>5, <1>6

LEMMA NewTestFields ==
    ASSUME NEW steps, NEW new, new = NewTest(steps)
    PROVE  /\ new = [field \in TestFields |-> new[field]]
           /\ new.steps = steps /\ new.arguments = NoText
           /\ new.env = <<>> /\ new.cwd = NoValue /\ new.stdout = NoValue
           /\ new.stderr = NoValue /\ new.exitcode = NoValue /\ new.mocked_files = <<>>
BY DEF NewTest, TestFields

LEMMA TestFromArrayFields ==
    ASSUME NEW array, NEW test, test = TestFromArray(array)
    PROVE  /\ test = [field \in TestFields |-> test[field]]
           /\ test.steps = StepsOf(array) /\ test.ends_with_hole = EndsWithHole(array)
           /\ test.ends_with_hole \in BOOLEAN
           /\ test.arguments = NoText
           /\ test.env = <<>> /\ test.cwd = NoValue /\ test.stdout = NoValue
           /\ test.stderr = NoValue /\ test.exitcode = NoValue /\ test.mocked_files = <<>>
<1> DEFINE new == NewTest(StepsOf(array))
           hole == EndsWithHole(array)
<1>1. hole \in BOOLEAN
  BY DEF EndsWithHole, IsHole
<1>2. test = [new EXCEPT !.ends_with_hole = hole]
  BY DEF TestFromArray
<1> HIDE DEF new, hole
<1>3. new = [field \in TestFields |-> new[field]] /\ new.steps = StepsOf(array)
      /\ new.arguments = NoText
      /\ new.env = <<>> /\ new.cwd = NoValue /\ new.stdout = NoValue
      /\ new.stderr = NoValue /\ new.exitcode = NoValue /\ new.mocked_files = <<>>
  BY NewTestFields DEF new
<1>4. test = [field \in TestFields |-> test[field]]
  BY <1>2, <1>3, Zenon
<1>5. test.ends_with_hole = hole
  BY <1>2, <1>3 DEF TestFields
<1>6. /\ test.steps = new.steps /\ test.arguments = new.arguments
      /\ test.env = new.env /\ test.cwd = new.cwd /\ test.stdout = new.stdout
      /\ test.stderr = new.stderr /\ test.exitcode = new.exitcode
      /\ test.mocked_files = new.mocked_files
  BY <1>2, <1>3 DEF TestFields
<1>7. test.ends_with_hole = EndsWithHole(array)
  BY <1>5 DEF hole
<1> QED BY <1>1, <1>3, <1>4, <1>5, <1>6, <1>7

\* An environment that is read has texts for texts.
LEMMA EnvIsRead == ASSUME NEW yaml, ExpectEnv(yaml) # Error
                   PROVE  AreTexts(ExpectEnv(yaml)) /\ Error \notin DOMAIN ExpectEnv(yaml)
<1> DEFINE object == yaml[2]
           texts == {ExpectString(key) : key \in DOMAIN object}
           ValueOf(text) == ExpectString(object[CHOOSE key \in DOMAIN object : ExpectString(key) = text])
           env == [text \in texts |-> ValueOf(text)]
<1>1. /\ ExpectEnv(yaml) = env
      /\ \A key \in DOMAIN object : ExpectString(key) # Error /\ ExpectString(object[key]) # Error
  BY DEF ExpectEnv
<1>2. \A text \in texts : ValueOf(text) # Error
  BY <1>1
<1>3. Error \notin texts
  BY <1>1
<1> HIDE DEF texts, ValueOf
<1>4. AreTexts(env) /\ DOMAIN env = texts
  BY <1>2 DEF AreTexts
<1> QED BY <1>1, <1>3, <1>4

LEMMA NoTexts == AreTexts(<<>>) /\ DOMAIN <<>> = {}
BY DEF AreTexts

LEMMA EmptyIsFunction == <<>> = [key \in DOMAIN <<>> |-> <<>>[key]] /\ DOMAIN <<>> = {}
OBVIOUS

LEMMA TestIsRead == ASSUME NEW yaml, IsTestNode(yaml), ParseTest(yaml) # Error
                    PROVE  /\ IsTest(ParseTest(yaml))
                           /\ IsArray(yaml[2]["steps"][2])
                           /\ ParseTest(yaml).steps = StepsOf(yaml[2]["steps"][2])
                           /\ StepsOf(yaml[2]["steps"][2]) # Error
                           /\ ParseTest(yaml).ends_with_hole = EndsWithHole(yaml[2]["steps"][2])
                           /\ "env" \in DOMAIN yaml[2] => ExpectEnv(yaml[2]["env"]) # Error
<1> DEFINE object == yaml[2]
           array == ExpectArray(object["steps"])
           base == TestFromArray(array)
           arguments == Optional(object, "arguments", ParseArguments(ExpectString(object["arguments"])),
                                base.arguments)
           env == Optional(object, "env", ExpectEnv(object["env"]), base.env)
           exitcode == Optional(object, "exitcode", ExpectInteger(object["exitcode"]), base.exitcode)
           cwd == Optional(object, "cwd", ExpectCwd(object["cwd"]), base.cwd)
           out == Optional(object, "stdout", ExpectString(object["stdout"]), base.stdout)
           err == Optional(object, "stderr", ExpectString(object["stderr"]), base.stderr)
           files == Optional(object, "mockedFiles", ExpectStrings(object["mockedFiles"]), base.mocked_files)
           test == [base EXCEPT !.arguments = arguments, !.env = env, !.cwd = cwd, !.stdout = out,
                                !.stderr = err, !.exitcode = exitcode, !.mocked_files = files]
<1>1. yaml[1] = "hash" /\ "steps" \in DOMAIN object /\ array # Error
  BY DEF ParseTest, TestFromObject
<1>2. ParseTest(yaml) = test /\ \A i \in DOMAIN test : test[i] # Error
  <2>1. ParseTest(yaml) = TestFromObject(object) /\ TestFromObject(object) # Error
    BY <1>1 DEF ParseTest
  <2>2. TestFromObject(object) = AllOrError(test)
    <3> HIDE DEF object
    <3> QED BY <2>1 DEF TestFromObject
  <2> HIDE DEF test
  <2> QED BY <2>1, <2>2, NoErrorLeft
<1>4. /\ base = [field \in TestFields |-> base[field]]
      /\ base.steps = StepsOf(array) /\ base.ends_with_hole \in BOOLEAN
      /\ base.ends_with_hole = EndsWithHole(array)
      /\ base.exitcode = NoValue /\ base.env = <<>> /\ base.arguments = NoText
  <2>1. base = TestFromArray(array)
    OBVIOUS
  <2> HIDE DEF base, array
  <2> QED BY <2>1, TestFromArrayFields
<1> HIDE DEF base
<1>5. /\ test = [field \in TestFields |-> test[field]]
      /\ test.steps = StepsOf(array) /\ test.ends_with_hole \in BOOLEAN
      /\ test.ends_with_hole = EndsWithHole(array)
      /\ test.arguments = arguments /\ test.env = env /\ test.exitcode = exitcode
  <2> HIDE DEF arguments, env, cwd, out, err, exitcode, files
  <2>1. test = [base EXCEPT !.arguments = arguments, !.env = env, !.cwd = cwd, !.stdout = out,
                            !.stderr = err, !.exitcode = exitcode, !.mocked_files = files]
    OBVIOUS
  <2> HIDE DEF test
  <2>2. test = [field \in TestFields |-> test[field]]
    BY <1>4, <2>1, Zenon
  <2>3. /\ test.steps = base.steps /\ test.ends_with_hole = base.ends_with_hole
        /\ test.arguments = arguments /\ test.env = env /\ test.exitcode = exitcode
    BY <1>4, <2>1 DEF TestFields
  <2> QED BY <1>4, <2>2, <2>3
<1> HIDE DEF test
<1>6. test.steps # Error /\ test.arguments # Error /\ test.env # Error /\ test.exitcode # Error
  <2>1. DOMAIN test = TestFields
    BY <1>5
  <2> QED BY <1>2, <2>1 DEF TestFields
<1>7. IsArray(test.steps) /\ \A i \in DOMAIN test.steps : IsStep(test.steps[i])
  BY <1>1, <1>5, <1>6, StepsAreRead DEF IsTestNode, ExpectArray
<1>9. array = object["steps"][2] /\ IsArray(array)
  BY <1>1 DEF IsTestNode, ExpectArray
<1>8. test.exitcode \in I32 \cup {NoValue}
  BY <1>1, <1>4, <1>5, <1>6, ExitcodeIsRead DEF IsTestNode, Optional
<1>10. AreTexts(test.env) /\ Error \notin DOMAIN test.env
      /\ ("env" \in DOMAIN object => ExpectEnv(object["env"]) # Error)
  <2>1. CASE "env" \in DOMAIN object
    <3>1. test.env = ExpectEnv(object["env"])
      BY <1>5, <2>1 DEF Optional
    <3> QED BY <1>6, <3>1, EnvIsRead
  <2>2. CASE "env" \notin DOMAIN object
    <3>1. test.env = <<>>
      BY <1>4, <1>5, <2>2 DEF Optional
    <3> QED BY <2>2, <3>1, NoTexts
  <2> QED BY <2>1, <2>2
<1>11. test.arguments \notin NotWords
  <2>1. test.arguments \in {ParseArguments(ExpectString(object["arguments"])), NoText}
    BY <1>4, <1>5 DEF Optional
  <2>2. test.arguments # Error /\ NoText \notin NotWords
    BY <1>6, TestSpecAssumption
  <2> QED BY <2>1, <2>2 DEF ParseArguments
<1>12. IsTest(test)
  BY <1>5, <1>6, <1>7, <1>8, <1>10, <1>11 DEF IsTest
<1> QED BY <1>2, <1>5, <1>6, <1>9, <1>10, <1>12

LEMMA TestsAreRead ==
    ASSUME NEW array, IsArray(array), \A i \in DOMAIN array : IsTestNode(array[i]),
           TestsFromArray(array) # Error
    PROVE  /\ TestsFromArray(array) = [i \in DOMAIN array |-> ParseTest(array[i])]
           /\ IsArray(TestsFromArray(array))
           /\ \A i \in DOMAIN array : ParseTest(array[i]) # Error /\ IsTest(ParseTest(array[i]))
<1> DEFINE parts == [i \in DOMAIN array |-> ParseTest(array[i])]
<1>1. TestsFromArray(array) = parts /\ \A i \in DOMAIN parts : parts[i] # Error
  BY NoErrorLeft DEF TestsFromArray
<1>2. Len(array) \in Nat /\ DOMAIN array = 1..Len(array)
  BY ArrayIsFunction
<1>3. parts = [i \in 1..Len(array) |-> parts[i]]
  BY <1>2
<1>4. IsArray(parts)
  <2> HIDE DEF parts
  <2> QED BY <1>2, <1>3, FunctionIsArray
<1> QED BY <1>1, <1>4, TestIsRead

LEMMA TextsAreRead == ASSUME NEW yaml, ExpectStrings(yaml) # Error PROVE AreTexts(ExpectStrings(yaml))
<1> DEFINE parts == [i \in DOMAIN yaml[2] |-> ExpectString(yaml[2][i])]
<1>1. ExpectStrings(yaml) = AllOrError(parts)
  BY DEF ExpectStrings
<1>2. ExpectStrings(yaml) = parts /\ \A i \in DOMAIN parts : parts[i] # Error
  <2> HIDE DEF parts
  <2> QED BY <1>1, NoErrorLeft
<1>3. parts = [i \in DOMAIN parts |-> parts[i]]
  OBVIOUS
<1> HIDE DEF parts
<1> QED BY <1>2, <1>3 DEF AreTexts

\* Tests that were read, without an error anywhere.
AreTests(loaded) ==
    /\ loaded # Error
    /\ loaded = [tests |-> loaded.tests, unmocked_commands |-> loaded.unmocked_commands,
                 interpreter |-> loaded.interpreter]
    /\ loaded.tests # Error /\ IsArray(loaded.tests)
    /\ \A i \in DOMAIN loaded.tests : loaded.tests[i] # Error /\ IsTest(loaded.tests[i])
    /\ loaded.unmocked_commands # Error
    /\ AreTexts(loaded.unmocked_commands)

LEMMA RefusedDocument == AllOrError(<<Error>>) = Error
BY DEF AllOrError

LEMMA OneTestIsArray == ASSUME NEW yaml PROVE IsArray(<<yaml>>) /\ DOMAIN <<yaml>> = {1} /\ <<yaml>>[1] = yaml
BY DEF IsArray

LEMMA DocumentIsRead == ASSUME NEW yaml, IsDocument(yaml), Parse(yaml) # Error
                        PROVE  AreTests(Parse(yaml))
<1>1. ASSUME NEW array, IsArray(array), \A i \in DOMAIN array : IsTestNode(array[i]),
             NEW unmocked, unmocked # Error => AreTexts(unmocked), NEW interpreter, NEW loaded,
             loaded = [tests |-> TestsFromArray(array), unmocked_commands |-> unmocked,
                       interpreter |-> interpreter],
             Parse(yaml) = AllOrError(loaded)
      PROVE  AreTests(Parse(yaml))
  <2>1. Parse(yaml) = loaded /\ \A i \in DOMAIN loaded : loaded[i] # Error
    BY <1>1, NoErrorLeft
  <2>2. loaded.tests # Error /\ loaded.unmocked_commands # Error
    BY <1>1, <2>1
  <2>3. TestsFromArray(array) # Error
    BY <1>1, <2>2
  <2>4. /\ TestsFromArray(array) = [i \in DOMAIN array |-> ParseTest(array[i])]
        /\ IsArray(TestsFromArray(array))
        /\ \A i \in DOMAIN array : ParseTest(array[i]) # Error /\ IsTest(ParseTest(array[i]))
    BY <1>1, <2>3, TestsAreRead
  <2>5. loaded = [tests |-> loaded.tests, unmocked_commands |-> loaded.unmocked_commands,
                  interpreter |-> loaded.interpreter] /\ loaded.tests = TestsFromArray(array)
        /\ AreTexts(loaded.unmocked_commands)
    BY <1>1, <2>2
  <2> QED BY <2>1, <2>2, <2>4, <2>5 DEF AreTests
<1>2. CASE yaml[1] = "array"
  <2>1. Parse(yaml) = AllOrError(NewTests(TestsFromArray(yaml[2])))
    BY <1>2 DEF Parse
  <2>2. IsArray(yaml[2]) /\ \A i \in DOMAIN yaml[2] : IsTestNode(yaml[2][i])
    BY <1>2 DEF IsDocument, IsTestsNode
  <2> QED BY <1>1, <2>1, <2>2, NoTexts DEF NewTests
<1>3. CASE yaml[1] = "hash" /\ "tests" \in DOMAIN yaml[2]
  <2> DEFINE object == yaml[2]
             array == ExpectArray(object["tests"])
             unmocked ==
                Optional(object, "unmockedCommands", ExpectStrings(object["unmockedCommands"]), <<>>)
             interpreter == Optional(object, "interpreter", ExpectString(object["interpreter"]), NoValue)
  <2>1. Parse(yaml) = AllOrError(TestsFromObject(object))
    BY <1>3 DEF Parse
  <2>2. TestsFromObject(object) = [tests |-> TestsFromArray(array), unmocked_commands |-> unmocked,
                                   interpreter |-> interpreter]
    <3>1. DOMAIN object \subseteq TestsKeys
      BY <2>1, RefusedDocument DEF TestsFromObject
    <3> HIDE DEF object
    <3> QED BY <3>1 DEF TestsFromObject, NewTests
  <2>3. array # Error
    <3>1. CASE array = Error
      <4>1. TestsFromArray(array) = Error
        BY <3>1 DEF TestsFromArray
      <4>2. AllOrError([tests |-> TestsFromArray(array), unmocked_commands |-> unmocked,
                        interpreter |-> interpreter]) = Error
        BY <4>1 DEF AllOrError
      <4> QED BY <2>1, <2>2, <4>2
    <3> QED BY <3>1
  <2>4. IsArray(array) /\ \A i \in DOMAIN array : IsTestNode(array[i])
    BY <1>3, <2>3 DEF IsDocument, IsTestsNode, ExpectArray
  <2>5. unmocked # Error => AreTexts(unmocked)
    BY TextsAreRead, NoTexts DEF Optional
  <2> HIDE DEF array, unmocked, interpreter
  <2> QED BY <1>1, <2>1, <2>2, <2>4, <2>5
<1>4. CASE yaml[1] = "hash" /\ "tests" \notin DOMAIN yaml[2] /\ "steps" \in DOMAIN yaml[2]
  <2>1. Parse(yaml) = AllOrError(NewTests(TestsFromArray(<<yaml>>)))
    BY <1>4 DEF Parse
  <2>2. IsArray(<<yaml>>) /\ \A i \in DOMAIN <<yaml>> : IsTestNode(<<yaml>>[i])
    BY OneTestIsArray DEF IsDocument
  <2> QED BY <1>1, <2>1, <2>2, NoTexts DEF NewTests
<1>5. CASE yaml[1] # "array" /\ ~(yaml[1] = "hash" /\ DOMAIN yaml[2] \cap {"tests", "steps"} # {})
  <2>1. Parse(yaml) = AllOrError(<<Error>>)
    BY <1>5 DEF Parse
  <2> QED BY <2>1, RefusedDocument
<1> QED BY <1>2, <1>3, <1>4, <1>5

LEMMA FileIsRead ==
    ASSUME NEW contents, contents \in {Missing, Garbage} \/ IsYaml(contents), Load(contents) # Error
    PROVE  AreTests(Load(contents))
<1>1. contents \notin {Missing, Garbage} /\ Len(contents) = 1 /\ Load(contents) = Parse(contents[1])
  BY DEF Load
<1>2. IsDocument(contents[1])
  BY <1>1, ArrayIsFunction DEF IsYaml
<1> QED BY <1>1, <1>2, DocumentIsRead

(***************************************************************************)
(* What is written can be read.                                            *)
(***************************************************************************)
\* The symbols of the model are no functions, hence no YAML and no tests.
NoFunction(symbol) == \A S, f : [x \in S |-> f[x]] # symbol
SymbolsAreApart == NoFunction(Error) /\ NoFunction(Missing) /\ NoFunction(Garbage)

\* The fields of a step or a test that are written, as they are written.
WrittenStep(step) ==
    [matcher |-> ExactMatch(FormatMatcher(step.matcher)), stdout |-> NoText, exitcode |-> step.exitcode]
WrittenTest(test) ==
    [steps |-> [i \in DOMAIN test.steps |-> WrittenStep(test.steps[i])], ends_with_hole |-> FALSE,
     arguments |-> FormatArguments(test.arguments), env |-> test.env, cwd |-> NoValue,
     stdout |-> NoValue, stderr |-> NoValue, exitcode |-> test.exitcode, mocked_files |-> <<>>]

LEMMA I32IsRead == ASSUME NEW n \in I32 PROVE ExpectInteger(<<"integer", n>>) = n
BY I32IsNarrowed, TestSpecAssumption DEF I32, ExpectInteger

LEMMA FormattedIsText == ASSUME NEW step, IsStep(step) PROVE FormatMatcher(step.matcher) # Error
BY TestSpecAssumption DEF IsStep, FormatMatcher, FormatCommand

LEMMA StepIsReadBack ==
    ASSUME NEW step, IsStep(step), ReadableStep(step), SymbolsAreApart
    PROVE  /\ ~IsHole(SerializeStep(step))
           /\ ParseStep(SerializeStep(step)) = WrittenStep(step)
           /\ WrittenStep(step) # Error
<1> DEFINE text == FormatMatcher(step.matcher)
           written == [matcher |-> ExactMatch(text), stdout |-> NoText, exitcode |-> step.exitcode]
<1>1. WrittenStep(step) = written
  BY DEF WrittenStep
<1>2. CommandNew(text) = ExactMatch(text)
  BY FormattedIsText DEF CommandNew, ReadableStep
<1>3. ExactMatch(text) # Error
  <2>1. ExactMatch(text) = [x \in {"kind", "text"} |-> ExactMatch(text)[x]]
    BY DEF ExactMatch
  <2> QED BY <2>1 DEF SymbolsAreApart, NoFunction
<1>4. written # Error
  <2>1. written = [x \in {"matcher", "stdout", "exitcode"} |-> written[x]]
    OBVIOUS
  <2> HIDE DEF written
  <2> QED BY <2>1 DEF SymbolsAreApart, NoFunction
<1>5. step.exitcode \in I32 /\ step.exitcode # Error /\ NoText # Error
  BY ErrorIsNotI32, TestSpecAssumption DEF IsStep
<1>9. ~(text = HoleText /\ step.exitcode = 0)
  BY DEF ReadableStep
<1> HIDE DEF text
<1>6. AllOrError(written) = written
  BY <1>3, <1>5 DEF AllOrError
<1>7. CASE step.exitcode = 0
  <2>1. SerializeStep(step) = <<"string", text>>
    BY <1>7 DEF SerializeStep, text
  <2>2. ParseStep(SerializeStep(step)) = AllOrError(NewStep(ExactMatch(text)))
    BY <1>2, <2>1 DEF ParseStep, StepFromText
  <2>3. NewStep(ExactMatch(text)) = written
    BY <1>7 DEF NewStep
  <2> QED BY <1>1, <1>4, <1>6, <2>1, <2>2, <2>3, <1>7, <1>9 DEF IsHole
<1>8. CASE step.exitcode # 0
  <2> DEFINE object == [command |-> <<"string", text>>, exitcode |-> <<"integer", step.exitcode>>]
  <2>1. SerializeStep(step) = <<"hash", object>>
    BY <1>8 DEF SerializeStep, text
  <2>2. ParseStep(<<"hash", object>>) = StepFromObject(object)
    BY DEF ParseStep
  <2>3. MatcherOf(object) = ExactMatch(text)
    BY <1>2 DEF MatcherOf, ExpectString
  <2>4. ExpectInteger(object["exitcode"]) = step.exitcode
    BY <1>5, I32IsRead
  <2>5. StepFromObject(object) = AllOrError(written)
    BY <2>3, <2>4 DEF StepFromObject, Optional, StepKeys
  <2>6. ~IsHole(SerializeStep(step))
    BY <2>1 DEF IsHole
  <2> QED BY <1>1, <1>4, <1>6, <2>1, <2>2, <2>5, <2>6
<1> QED BY <1>7, <1>8

LEMMA StepsAreReadBack ==
    ASSUME NEW steps, IsArray(steps), SymbolsAreApart,
           \A i \in DOMAIN steps : IsStep(steps[i]) /\ ReadableStep(steps[i]),
           NEW array, array = [i \in DOMAIN steps |-> SerializeStep(steps[i])]
    PROVE  /\ ~EndsWithHole(array)
           /\ StepsOf(array) = [i \in DOMAIN steps |-> WrittenStep(steps[i])]
           /\ StepsOf(array) # Error
<1> DEFINE parts == [i \in 1..Len(array) |-> IF IsHole(array[i]) THEN Error ELSE ParseStep(array[i])]
           written == [i \in DOMAIN steps |-> WrittenStep(steps[i])]
<1>1. Len(steps) \in Nat /\ DOMAIN steps = 1..Len(steps)
  BY ArrayIsFunction
<1>2. DOMAIN array = DOMAIN steps /\ Len(array) = Len(steps)
  <2>1. array = [i \in 1..Len(steps) |-> array[i]]
    BY <1>1
  <2> QED BY <1>1, <2>1, FunctionIsArray
<1>3. ASSUME NEW i \in DOMAIN steps
      PROVE  ~IsHole(array[i]) /\ ParseStep(array[i]) = WrittenStep(steps[i]) /\ WrittenStep(steps[i]) # Error
  BY StepIsReadBack
<1>4. ~EndsWithHole(array)
  <2>1. array # <<>> => Len(array) \in DOMAIN steps
    <3>1. CASE Len(steps) = 0
      <4>1. DOMAIN array = {}
        BY <1>1, <1>2, <3>1
      <4> QED BY <4>1
    <3> QED BY <1>1, <1>2, <3>1
  <2> QED BY <1>3, <2>1 DEF EndsWithHole
<1>5. StepsOf(array) = AllOrError(parts)
  BY <1>4 DEF StepsOf
<1>6. parts = written
  BY <1>1, <1>2, <1>3
<1>7. AllOrError(written) = written
  BY <1>3 DEF AllOrError
<1>8. written # Error
  <2>1. written = [i \in DOMAIN steps |-> written[i]]
    OBVIOUS
  <2> HIDE DEF written
  <2> QED BY <2>1 DEF SymbolsAreApart, NoFunction
<1> QED BY <1>4, <1>5, <1>6, <1>7, <1>8

LEMMA EmptyIsNoError == ASSUME SymbolsAreApart PROVE <<>> # Error
<1>1. \A f : f = [key \in DOMAIN f |-> f[key]] => f # Error
  BY DEF SymbolsAreApart, NoFunction
<1> QED BY <1>1, EmptyIsFunction, Zenon

LEMMA ArgumentsAreAccepted ==
    ASSUME NEW text, text \notin NotWords \cup {Error}
    PROVE  FormatArguments(text) \notin NotWords \cup {Error}
BY TestSpecAssumption DEF FormatArguments

LEMMA EnvIsReadBack ==
    ASSUME NEW env, AreTexts(env), Error \notin DOMAIN env, ReadableEnv(env)
    PROVE  ExpectEnv(SerializeEnv(env)) = env
<1> DEFINE nodes == {FromText(text) : text \in DOMAIN env}
           object == [key \in nodes |-> FromText(env[key[2]])]
           texts == {ExpectString(key) : key \in DOMAIN object}
           ValueOf(text) == ExpectString(object[CHOOSE key \in DOMAIN object : ExpectString(key) = text])
<1>1. \A text \in DOMAIN env :
        FromText(text) = <<"string", text>> /\ FromText(env[text]) = <<"string", env[text]>>
  BY DEF ReadableEnv, FromText
<1>2. SerializeEnv(env) = <<"hash", object>>
  BY DEF SerializeEnv
<1>3. nodes = {<<"string", text>> : text \in DOMAIN env}
  BY <1>1
<1> HIDE DEF nodes
<1>4. /\ DOMAIN object = nodes
      /\ \A text \in DOMAIN env : object[<<"string", text>>] = <<"string", env[text]>>
  BY <1>1, <1>3
<1> HIDE DEF object
<1>5. \A key \in DOMAIN object : ExpectString(key) # Error /\ ExpectString(object[key]) # Error
  BY <1>3, <1>4 DEF ExpectString, AreTexts
<1>6. texts = DOMAIN env
  <2>1. \A text \in DOMAIN env : <<"string", text>> \in nodes /\ ExpectString(<<"string", text>>) = text
    BY <1>3 DEF ExpectString
  <2>2. \A key \in nodes : ExpectString(key) \in DOMAIN env
    BY <1>3 DEF ExpectString
  <2> QED BY <1>4, <2>1, <2>2
<1>7. \A text \in DOMAIN env : ValueOf(text) = env[text]
  <2> SUFFICES ASSUME NEW text \in DOMAIN env PROVE ValueOf(text) = env[text]
    OBVIOUS
  <2> DEFINE node == CHOOSE key \in DOMAIN object : ExpectString(key) = text
  <2>1. node \in DOMAIN object /\ ExpectString(node) = text
    BY <1>6
  <2> HIDE DEF node
  <2>2. node = <<"string", text>>
    BY <1>3, <1>4, <2>1 DEF ExpectString
  <2>3. ExpectString(object[node]) = env[text]
    BY <1>4, <2>2 DEF ExpectString
  <2> QED BY <2>3 DEF node
<1>8. ExpectEnv(<<"hash", object>>) = [text \in texts |-> ValueOf(text)]
  BY <1>5 DEF ExpectEnv
<1> HIDE DEF texts, ValueOf
<1>9. env = [text \in DOMAIN env |-> env[text]]
  BY DEF AreTexts
<1>10. [text \in DOMAIN env |-> ValueOf(text)] = [text \in DOMAIN env |-> env[text]]
  BY <1>7
<1> QED BY <1>2, <1>6, <1>8, <1>9, <1>10

LEMMA OnlyReadableEnvIsRead ==
    ASSUME NEW env, ExpectEnv(SerializeEnv(env)) # Error PROVE ReadableEnv(env)
<1> DEFINE nodes == {FromText(text) : text \in DOMAIN env}
           object == [key \in nodes |-> FromText(env[key[2]])]
<1>1. SerializeEnv(env) = <<"hash", object>>
  BY DEF SerializeEnv
<1>2. \A text : FromText(text)[2] = text
  BY DEF FromText
<1>3. /\ DOMAIN object = nodes
      /\ \A text \in DOMAIN env : object[FromText(text)] = FromText(env[text])
  BY <1>2
<1>4. \A text \in DOMAIN env : FromText(text) \in nodes
  OBVIOUS
<1> HIDE DEF nodes, object
<1>5. \A key \in DOMAIN object : ExpectString(key) # Error /\ ExpectString(object[key]) # Error
  BY <1>1 DEF ExpectEnv
<1>6. \A text \in DOMAIN env :
        ExpectString(FromText(text)) # Error /\ ExpectString(FromText(env[text])) # Error
  BY <1>3, <1>4, <1>5
<1> QED BY <1>6 DEF ReadableEnv, ExpectString, FromText

LEMMA TestIsReadBack ==
    ASSUME NEW test, IsTest(test), Readable(test), SymbolsAreApart
    PROVE  ParseTest(SerializeTest(test)) = WrittenTest(test) /\ WrittenTest(test) # Error
<1> DEFINE array == [i \in DOMAIN test.steps |-> SerializeStep(test.steps[i])]
           node == [steps |-> <<"array", array>>, arguments |-> <<"string", FormatArguments(test.arguments)>>,
                    env |-> SerializeEnv(test.env), exitcode |-> <<"integer", test.exitcode>>]
           object == [key \in SerializedKeys(test) |-> node[key]]
           base == TestFromArray(array)
           arguments == Optional(object, "arguments", ParseArguments(ExpectString(object["arguments"])),
                                base.arguments)
           env == Optional(object, "env", ExpectEnv(object["env"]), base.env)
           cwd == Optional(object, "cwd", ExpectCwd(object["cwd"]), base.cwd)
           out == Optional(object, "stdout", ExpectString(object["stdout"]), base.stdout)
           err == Optional(object, "stderr", ExpectString(object["stderr"]), base.stderr)
           exitcode == Optional(object, "exitcode", ExpectInteger(object["exitcode"]), base.exitcode)
           files == Optional(object, "mockedFiles", ExpectStrings(object["mockedFiles"]), base.mocked_files)
           read == [base EXCEPT !.arguments = arguments, !.env = env, !.cwd = cwd, !.stdout = out,
                                !.stderr = err, !.exitcode = exitcode, !.mocked_files = files]
           written == WrittenTest(test)
<1>1. SerializeTest(test) = <<"hash", object>>
  BY DEF SerializeTest
<1>2. /\ ~EndsWithHole(array)
      /\ StepsOf(array) = written.steps /\ StepsOf(array) # Error
  <2>1. IsArray(test.steps) /\ \A i \in DOMAIN test.steps :
          IsStep(test.steps[i]) /\ ReadableStep(test.steps[i])
    BY DEF IsTest, Readable
  <2>2. /\ ~EndsWithHole(array) /\ StepsOf(array) # Error
        /\ StepsOf(array) = [i \in DOMAIN test.steps |-> WrittenStep(test.steps[i])]
    BY <2>1, StepsAreReadBack
  <2> QED BY <2>2 DEF WrittenTest
<1>3. /\ base = [field \in TestFields |-> base[field]]
      /\ base.steps = StepsOf(array) /\ base.ends_with_hole = FALSE
      /\ base.arguments = NoText
      /\ base.env = <<>> /\ base.cwd = NoValue /\ base.stdout = NoValue
      /\ base.stderr = NoValue /\ base.exitcode = NoValue /\ base.mocked_files = <<>>
  <2>1. base = TestFromArray(array)
    OBVIOUS
  <2> HIDE DEF base, array
  <2> QED BY <1>2, <2>1, TestFromArrayFields
<1>4. array # Error
  <2>1. array = [i \in DOMAIN test.steps |-> array[i]]
    OBVIOUS
  <2> HIDE DEF array
  <2> QED BY <2>1 DEF SymbolsAreApart, NoFunction
<1> HIDE DEF base
<1>5. /\ DOMAIN object = SerializedKeys(test)
      /\ \A key \in DOMAIN object : object[key] = node[key]
  OBVIOUS
<1>6. /\ DOMAIN object \subseteq {"steps", "arguments", "env", "exitcode"} /\ "steps" \in DOMAIN object
      /\ "arguments" \in DOMAIN object <=> test.arguments # NoText
      /\ "env" \in DOMAIN object <=> test.env # <<>>
      /\ "exitcode" \in DOMAIN object <=> test.exitcode # NoValue
  BY <1>5 DEF SerializedKeys
<1>7. /\ object["steps"] = <<"array", array>>
      /\ test.arguments # NoText => object["arguments"] = <<"string", FormatArguments(test.arguments)>>
      /\ test.env # <<>> => object["env"] = SerializeEnv(test.env)
      /\ test.exitcode # NoValue => object["exitcode"] = <<"integer", test.exitcode>>
  BY <1>5, <1>6
<1> HIDE DEF object, array
<1>8. /\ arguments = FormatArguments(test.arguments) /\ env = test.env /\ exitcode = test.exitcode
      /\ cwd = NoValue /\ out = NoValue /\ err = NoValue /\ files = <<>>
  <2>1. arguments = FormatArguments(test.arguments)
    <3>1. CASE test.arguments = NoText
      BY <1>3, <1>6, <3>1, TestSpecAssumption DEF Optional, FormatArguments
    <3>2. CASE test.arguments # NoText
      <4>1. ExpectString(object["arguments"]) = FormatArguments(test.arguments)
        BY <1>7, <3>2 DEF ExpectString
      <4>2. ParseArguments(FormatArguments(test.arguments)) = FormatArguments(test.arguments)
        BY ArgumentsAreAccepted DEF IsTest, ParseArguments
      <4> QED BY <1>6, <3>2, <4>1, <4>2 DEF Optional
    <3> QED BY <3>1, <3>2
  <2>2. env = test.env
    <3>1. ExpectEnv(SerializeEnv(test.env)) = test.env
      BY EnvIsReadBack DEF IsTest, Readable
    <3> QED BY <1>3, <1>6, <1>7, <3>1 DEF Optional
  <2>3. exitcode = test.exitcode
    BY <1>3, <1>6, <1>7, I32IsRead DEF Optional, IsTest
  <2>4. cwd = NoValue /\ out = NoValue /\ err = NoValue /\ files = <<>>
    BY <1>3, <1>6 DEF Optional
  <2> QED BY <2>1, <2>2, <2>3, <2>4
<1>9. ParseTest(SerializeTest(test)) = AllOrError(read)
  <2>1. ParseTest(SerializeTest(test)) = TestFromObject(object)
    BY <1>1 DEF ParseTest
  <2>2. DOMAIN object \subseteq TestKeys /\ "steps" \in DOMAIN object
    BY <1>6 DEF TestKeys
  <2>3. ExpectArray(object["steps"]) = array
    BY <1>7 DEF ExpectArray
  <2>4. TestFromObject(object) = AllOrError(read)
    <3>1. TestFromArray(ExpectArray(object["steps"])) = base
      BY <2>3 DEF base
    <3> QED BY <1>4, <2>2, <2>3, <3>1 DEF TestFromObject
  <2> QED BY <2>1, <2>4
<1>10. read = written
  <2>1. read = [base EXCEPT !.arguments = arguments, !.env = env, !.cwd = cwd, !.stdout = out,
                            !.stderr = err, !.exitcode = exitcode, !.mocked_files = files]
    OBVIOUS
  <2> HIDE DEF read, arguments, env, cwd, out, err, exitcode, files
  <2>2. read = [field \in TestFields |-> read[field]]
    BY <1>3, <2>1, Zenon
  <2>3. /\ read.steps = base.steps /\ read.ends_with_hole = base.ends_with_hole
        /\ read.arguments = arguments /\ read.env = env /\ read.cwd = cwd
        /\ read.stdout = out /\ read.stderr = err /\ read.exitcode = exitcode
        /\ read.mocked_files = files
    BY <1>3, <2>1 DEF TestFields
  <2>4. written = [field \in TestFields |-> written[field]]
    BY DEF WrittenTest, TestFields
  <2>5. \A field \in TestFields : read[field] = written[field]
    <3>1. read.ends_with_hole = written.ends_with_hole
      BY <1>3, <2>3 DEF WrittenTest
    <3>2. read.steps = written.steps
      BY <1>2, <1>3, <2>3
    <3>3. /\ read.arguments = written.arguments /\ read.env = written.env
          /\ read.exitcode = written.exitcode /\ read.cwd = written.cwd
          /\ read.stdout = written.stdout /\ read.stderr = written.stderr
          /\ read.mocked_files = written.mocked_files
      BY <1>8, <2>3 DEF WrittenTest
    <3> HIDE DEF written
    <3> QED BY <3>1, <3>2, <3>3 DEF TestFields
  <2> HIDE DEF written
  <2> QED BY <2>2, <2>4, <2>5, Zenon
<1>11. written # Error
  <2>1. written = [field \in TestFields |-> written[field]]
    BY DEF WrittenTest, TestFields
  <2> HIDE DEF written
  <2> QED BY <2>1 DEF SymbolsAreApart, NoFunction
<1>12. AllOrError(written) = written
  <2>1. \A i \in DOMAIN written : written[i] # Error
    <3>1. written.steps # Error
      BY <1>2
    <3>2. /\ FormatArguments(test.arguments) # Error /\ test.env # Error
          /\ test.exitcode # Error /\ <<>> # Error
      BY ErrorIsNotI32, TestSpecAssumption, ArgumentsAreAccepted, EmptyIsNoError DEF IsTest
    <3>3. written.ends_with_hole # Error
      BY TestSpecAssumption DEF WrittenTest
    <3>4. /\ written.arguments # Error /\ written.env # Error /\ written.exitcode # Error
          /\ written.cwd # Error /\ written.stdout # Error /\ written.stderr # Error
          /\ written.mocked_files # Error
      BY <3>2, TestSpecAssumption DEF WrittenTest
    <3>5. DOMAIN written = TestFields
      BY DEF WrittenTest, TestFields
    <3> HIDE DEF written
    <3> QED BY <3>1, <3>3, <3>4, <3>5 DEF TestFields
  <2> HIDE DEF written
  <2> QED BY <2>1 DEF AllOrError
<1> QED BY <1>9, <1>10, <1>11, <1>12

LEMMA SerializedArray ==
    ASSUME NEW s, IsArray(s), NEW image, image = [i \in DOMAIN s |-> image[i]]
    PROVE  IsArray(image)
<1>1. Len(s) \in Nat /\ DOMAIN s = 1..Len(s)
  BY ArrayIsFunction
<1> QED BY <1>1, FunctionIsArray

LEMMA StepIsWritten == ASSUME NEW step, IsStep(step) PROVE IsStepNode(SerializeStep(step))
<1>1. step.exitcode \in Int
  BY TestSpecAssumption DEF IsStep, I32
<1> QED BY <1>1 DEF IsStepNode, SerializeStep, HasExitcode

LEMMA TestIsWritten == ASSUME NEW test, IsTest(test) PROVE IsTestNode(SerializeTest(test))
<1> DEFINE array == [i \in DOMAIN test.steps |-> SerializeStep(test.steps[i])]
           node == [steps |-> <<"array", array>>, arguments |-> <<"string", FormatArguments(test.arguments)>>,
                    env |-> SerializeEnv(test.env), exitcode |-> <<"integer", test.exitcode>>]
           object == [key \in SerializedKeys(test) |-> node[key]]
<1>1. SerializeTest(test) = <<"hash", object>>
  BY DEF SerializeTest
<1>2. IsArray(array) /\ \A i \in DOMAIN array : IsStepNode(array[i])
  <2>1. IsArray(test.steps) /\ \A i \in DOMAIN test.steps : IsStep(test.steps[i])
    BY DEF IsTest
  <2>2. \A i \in DOMAIN array : IsStepNode(array[i])
    BY <2>1, StepIsWritten
  <2>3. array = [i \in DOMAIN test.steps |-> array[i]]
    OBVIOUS
  <2> HIDE DEF array
  <2> QED BY <2>1, <2>2, <2>3, SerializedArray
<1> HIDE DEF array
<1>3. "steps" \in DOMAIN object /\ object["steps"] = <<"array", array>>
  BY DEF SerializedKeys
<1>4. HasExitcode(object)
  <2>1. CASE test.exitcode = NoValue
    BY <2>1 DEF SerializedKeys, HasExitcode
  <2>2. CASE test.exitcode # NoValue
    <3>1. test.exitcode \in Int
      BY <2>2, TestSpecAssumption DEF IsTest, I32
    <3>2. object["exitcode"] = <<"integer", test.exitcode>>
      BY <2>2 DEF SerializedKeys
    <3> HIDE DEF object
    <3> QED BY <3>1, <3>2 DEF HasExitcode
  <2> QED BY <2>1, <2>2
<1> HIDE DEF object
<1> QED BY <1>1, <1>2, <1>3, <1>4 DEF IsTestNode

\* The tests that a session writes.
AreWritable(written) ==
    /\ IsArray(written.tests) /\ \A i \in DOMAIN written.tests : IsTest(written.tests[i])
    /\ written.unmocked_commands # Error /\ AreTexts(written.unmocked_commands)

LEMMA TestsAreWritten ==
    ASSUME NEW written, AreWritable(written)
    PROVE  IsYaml(<<Serialize(written)>>)
<1> DEFINE array == [i \in DOMAIN written.tests |-> SerializeTest(written.tests[i])]
           node == [tests |-> <<"array", array>>,
                    unmockedCommands |-> SerializeStrings(written.unmocked_commands)]
           keys == {"tests"} \cup
                    (IF written.unmocked_commands = <<>> THEN {} ELSE {"unmockedCommands"})
           object == [key \in keys |-> node[key]]
           document == Serialize(written)
<1>1. document = <<"hash", object>>
  BY DEF Serialize
<1>2. IsArray(array) /\ \A i \in DOMAIN array : IsTestNode(array[i])
  <2>1. IsArray(written.tests) /\ \A i \in DOMAIN written.tests : IsTest(written.tests[i])
    BY DEF AreWritable
  <2>2. \A i \in DOMAIN array : IsTestNode(array[i])
    BY <2>1, TestIsWritten
  <2>3. array = [i \in DOMAIN written.tests |-> array[i]]
    OBVIOUS
  <2> HIDE DEF array
  <2> QED BY <2>1, <2>2, <2>3, SerializedArray
<1> HIDE DEF array
<1>3. /\ object["tests"] = <<"array", array>>
      /\ "exitcode" \notin DOMAIN object /\ "steps" \notin DOMAIN object
  OBVIOUS
<1> HIDE DEF object, document
<1>4. IsDocument(document)
  <2>1. document[1] = "hash" /\ document[2] = object
    BY <1>1
  <2>2. IsTestNode(document)
    BY <1>3, <2>1 DEF IsTestNode, HasExitcode
  <2>3. IsTestsNode(document) /\ IsTestsNode(object["tests"])
    BY <1>2, <1>3, <2>1 DEF IsTestsNode
  <2> QED BY <2>1, <2>2, <2>3 DEF IsDocument
<1> QED BY <1>4, OneTestIsArray DEF IsYaml, document

(***************************************************************************)
(* The round trip: what is loaded from a file that was written is what was *)
(* written, with the fields that are written.                              *)
(***************************************************************************)
LEMMA TextsAreReadBack ==
    ASSUME NEW texts, texts # Error, AreTexts(texts), SymbolsAreApart
    PROVE  ExpectStrings(SerializeStrings(texts)) = texts
<1> DEFINE nodes == [i \in DOMAIN texts |-> <<"string", texts[i]>>]
           parts == [i \in DOMAIN nodes |-> ExpectString(nodes[i])]
<1>1. nodes # Error
  <2>1. nodes = [i \in DOMAIN texts |-> nodes[i]]
    OBVIOUS
  <2> HIDE DEF nodes
  <2> QED BY <2>1 DEF SymbolsAreApart, NoFunction
<1>2. parts = texts
  <2>1. \A i \in DOMAIN texts : ExpectString(<<"string", texts[i]>>) = texts[i]
    BY DEF ExpectString
  <2>2. parts = [i \in DOMAIN texts |-> texts[i]]
    BY <2>1
  <2> HIDE DEF parts
  <2> QED BY <2>2 DEF AreTexts
<1>3. AllOrError(parts) = parts
  <2> HIDE DEF parts
  <2> QED BY <1>2 DEF AllOrError, AreTexts
<1>4. ExpectStrings(<<"array", nodes>>) = AllOrError(parts)
  <2> HIDE DEF nodes
  <2> QED BY <1>1 DEF ExpectStrings, ExpectArray
<1> QED BY <1>2, <1>3, <1>4 DEF SerializeStrings

LEMMA TestsAreReadBack ==
    ASSUME NEW written, AreWritable(written),
           \A i \in DOMAIN written.tests : Readable(written.tests[i]),
           SymbolsAreApart
    PROVE  /\ Load(<<Serialize(written)>>) # Error
           /\ Load(<<Serialize(written)>>) =
                [tests |-> [i \in DOMAIN written.tests |-> WrittenTest(written.tests[i])],
                 unmocked_commands |-> written.unmocked_commands,
                 interpreter |-> NoValue]
<1> DEFINE array == [i \in DOMAIN written.tests |-> SerializeTest(written.tests[i])]
           back == [i \in DOMAIN written.tests |-> WrittenTest(written.tests[i])]
           node == [tests |-> <<"array", array>>,
                    unmockedCommands |-> SerializeStrings(written.unmocked_commands)]
           keys == {"tests"} \cup
                    (IF written.unmocked_commands = <<>> THEN {} ELSE {"unmockedCommands"})
           object == [key \in keys |-> node[key]]
           read == [tests |-> back, unmocked_commands |-> written.unmocked_commands,
                    interpreter |-> NoValue]
           document == Serialize(written)
<1>1. document = <<"hash", object>>
  BY DEF Serialize
<1>2. Load(<<document>>) = Parse(document)
  <2> HIDE DEF document
  <2>1. <<document>> = [x \in {1} |-> <<document>>[x]]
    OBVIOUS
  <2>2. <<document>> \notin {Missing, Garbage}
    BY <2>1 DEF SymbolsAreApart, NoFunction
  <2> QED BY <2>2 DEF Load
<1>3. TestsFromArray(array) = back /\ back # Error
  <2>1. \A i \in DOMAIN written.tests :
            ParseTest(array[i]) = WrittenTest(written.tests[i]) /\ WrittenTest(written.tests[i]) # Error
    BY TestIsReadBack DEF AreWritable
  <2>2. array # Error
    <3>1. array = [i \in DOMAIN written.tests |-> array[i]]
      OBVIOUS
    <3> HIDE DEF array
    <3> QED BY <3>1 DEF SymbolsAreApart, NoFunction
  <2>3. back # Error
    <3>1. back = [i \in DOMAIN written.tests |-> back[i]]
      OBVIOUS
    <3> HIDE DEF back
    <3> QED BY <3>1 DEF SymbolsAreApart, NoFunction
  <2>4. [i \in DOMAIN array |-> ParseTest(array[i])] = back
    BY <2>1
  <2>5. AllOrError(back) = back
    BY <2>1 DEF AllOrError
  <2>6. TestsFromArray(array) = AllOrError(back)
    <3> HIDE DEF array, back
    <3> QED BY <2>2, <2>4 DEF TestsFromArray
  <2> QED BY <2>3, <2>5, <2>6
<1> HIDE DEF array, back
<1>4. /\ DOMAIN object \subseteq {"tests", "unmockedCommands"}
      /\ "tests" \in DOMAIN object /\ object["tests"] = <<"array", array>>
      /\ ("unmockedCommands" \in DOMAIN object) <=> (written.unmocked_commands # <<>>)
      /\ "unmockedCommands" \in DOMAIN object =>
            object["unmockedCommands"] = SerializeStrings(written.unmocked_commands)
  OBVIOUS
<1> HIDE DEF object
<1>5. TestsFromObject(object) = read
  <2>1. Optional(object, "unmockedCommands", ExpectStrings(object["unmockedCommands"]), <<>>)
            = written.unmocked_commands
    BY <1>4, TextsAreReadBack DEF Optional, AreWritable
  <2>2. ExpectArray(object["tests"]) = array
    BY <1>4 DEF ExpectArray
  <2>3. DOMAIN object \subseteq TestsKeys /\ "interpreter" \notin DOMAIN object
    BY <1>4 DEF TestsKeys
  <2>4. NewTests(TestsFromArray(array)) =
            [tests |-> back, unmocked_commands |-> <<>>, interpreter |-> NoValue]
    BY <1>3 DEF NewTests
  <2> DEFINE new == NewTests(TestsFromArray(array))
             unmocked == Optional(object, "unmockedCommands", ExpectStrings(object["unmockedCommands"]),
                                  new.unmocked_commands)
             interpreter == Optional(object, "interpreter", ExpectString(object["interpreter"]),
                                     new.interpreter)
  <2>5. TestsFromObject(object) =
            [new EXCEPT !.unmocked_commands = unmocked, !.interpreter = interpreter]
    BY <2>2, <2>3 DEF TestsFromObject
  <2>6. unmocked = written.unmocked_commands /\ interpreter = NoValue
    BY <2>1, <2>3, <2>4 DEF Optional
  <2> HIDE DEF new, unmocked, interpreter
  <2>7. new = [tests |-> back, unmocked_commands |-> <<>>, interpreter |-> NoValue]
    BY <2>4 DEF new
  <2> QED BY <2>5, <2>6, <2>7
<1>6. Parse(document) = AllOrError(read)
  BY <1>1, <1>4, <1>5 DEF Parse
<1>7. AllOrError(read) = read
  BY <1>3, TestSpecAssumption DEF AreWritable, AllOrError
<1>8. read # Error
  <2>1. read = [x \in {"tests", "unmocked_commands", "interpreter"} |-> read[x]]
    OBVIOUS
  <2> HIDE DEF read
  <2> QED BY <2>1 DEF SymbolsAreApart, NoFunction
<1> QED BY <1>2, <1>6, <1>7, <1>8 DEF back

(***************************************************************************)
(* The invariant.                                                          *)
(***************************************************************************)
LEMMA CommandIsStep == ASSUME NEW step, IsCommand(step) PROVE IsStep(step)
<1>1. step = [matcher |-> ExactMatch(step.matcher.text), stdout |-> NoText, exitcode |-> step.exitcode]
  BY DEF IsCommand, NewStep
<1>2. step.matcher = ExactMatch(step.matcher.text) /\ step.stdout = NoText
  BY <1>1
<1>3. step.matcher = [kind |-> step.matcher.kind, text |-> step.matcher.text]
  BY <1>2 DEF ExactMatch
<1>4. step = [matcher |-> step.matcher, stdout |-> step.stdout, exitcode |-> step.exitcode]
  BY <1>1
<1> QED BY <1>3, <1>4 DEF IsCommand, IsStep

LEMMA Concatenated ==
    ASSUME NEW s, NEW t, IsArray(s), IsArray(t)
    PROVE  /\ IsArray(s \o t)
           /\ \A i \in DOMAIN (s \o t) : (\E j \in DOMAIN s : (s \o t)[i] = s[j])
                                      \/ (\E j \in DOMAIN t : (s \o t)[i] = t[j])
<1> DEFINE S == {s[i] : i \in DOMAIN s}
           T == {t[i] : i \in DOMAIN t}
           u == s \o t
<1>1. s \in Seq(S) /\ t \in Seq(T)
  BY DEF IsArray
<1>2. s \in Seq(S \cup T) /\ t \in Seq(S \cup T)
  <2>1. S \subseteq S \cup T /\ T \subseteq S \cup T
    OBVIOUS
  <2> HIDE DEF S, T
  <2> QED BY <1>1, <2>1
<1>3. u \in Seq(S \cup T)
  <2> HIDE DEF S, T
  <2> QED BY <1>2
<1>4. Len(u) \in Nat /\ u \in [1..Len(u) -> S \cup T]
  <2> HIDE DEF S, T, u
  <2> QED BY <1>3
<1>5. u = [i \in 1..Len(u) |-> u[i]]
  <2> HIDE DEF S, T, u
  <2> QED BY <1>4
<1>6. IsArray(u)
  <2> HIDE DEF u
  <2> QED BY <1>4, <1>5, FunctionIsArray
<1> QED BY <1>4, <1>6

LEMMA FilledIsTest ==
    ASSUME NEW test, IsTest(test), NEW steps \in Recordings, NEW code \in Exitcodes
    PROVE  IsTest(Filled(test, steps, code)) /\ ~Filled(test, steps, code).ends_with_hole
<1> DEFINE all == test.steps \o steps
           exitcode == IF code = 0 THEN test.exitcode ELSE code
           filled == Filled(test, steps, code)
<1>1. filled = [test EXCEPT !.steps = all, !.ends_with_hole = FALSE, !.exitcode = exitcode]
  BY DEF Filled
<1>2. IsArray(all) /\ \A i \in DOMAIN all : IsStep(all[i])
  <2>1. IsArray(steps) /\ \A i \in DOMAIN steps : IsStep(steps[i])
    BY SessionAssumption, CommandIsStep
  <2>2. IsArray(test.steps) /\ \A i \in DOMAIN test.steps : IsStep(test.steps[i])
    BY DEF IsTest
  <2> DEFINE old == test.steps
  <2> HIDE DEF old
  <2>3. old = test.steps /\ all = old \o steps
    BY DEF old
  <2> HIDE DEF all
  <2>4. IsArray(all) /\ \A i \in DOMAIN all : (\E j \in DOMAIN old : all[i] = old[j])
                                           \/ (\E j \in DOMAIN steps : all[i] = steps[j])
    BY <2>1, <2>2, <2>3, Concatenated
  <2> QED BY <2>1, <2>2, <2>3, <2>4
<1>3. exitcode \in I32 \cup {NoValue}
  BY SessionAssumption DEF IsTest
<1>4. test = [field \in TestFields |-> test[field]]
  BY DEF IsTest
<1> HIDE DEF filled, all, exitcode
<1>5. filled = [field \in TestFields |-> filled[field]]
  BY <1>1, <1>4, Zenon
<1>6. /\ filled.steps = all /\ filled.ends_with_hole = FALSE /\ filled.exitcode = exitcode
      /\ filled.arguments = test.arguments /\ filled.env = test.env
  BY <1>1, <1>4 DEF TestFields
<1>7. IsTest(filled)
  BY <1>2, <1>3, <1>5, <1>6 DEF IsTest
<1> QED BY <1>6, <1>7 DEF filled

LEMMA AppendToArray ==
    ASSUME NEW s, IsArray(s), NEW e, NEW t, t = Append(s, e)
    PROVE  /\ IsArray(t) /\ Len(t) = Len(s) + 1 /\ Len(s) \in Nat
           /\ DOMAIN s = 1..Len(s) /\ DOMAIN t = 1..(Len(s) + 1)
           /\ \A i \in DOMAIN s : t[i] = s[i]
           /\ t[Len(s) + 1] = e
<1> DEFINE S == {s[i] : i \in DOMAIN s} \cup {e}
<1>1. s \in Seq({s[i] : i \in DOMAIN s})
  BY DEF IsArray
<1>2. s \in Seq(S) /\ e \in S
  BY <1>1
<1> HIDE DEF S
<1>3. t \in Seq(S) /\ Len(t) = Len(s) + 1 /\ t[Len(s) + 1] = e
      /\ (\A i \in 1..Len(s) : t[i] = s[i]) /\ DOMAIN s = 1..Len(s) /\ Len(s) \in Nat
  BY <1>2, AppendProperties
<1>4. Len(t) \in Nat /\ t \in [1..Len(t) -> S]
  BY <1>3, LenProperties
<1>5. t = [i \in 1..Len(t) |-> t[i]] /\ DOMAIN t = 1..Len(t)
  BY <1>4
<1>6. IsArray(t)
  BY <1>4, <1>5, FunctionIsArray
<1> QED BY <1>3, <1>5, <1>6

LEMMA RunTestKeeps ==
    ASSUME ResultsFit, RunTest
    PROVE  ResultsFit'
<1> DEFINE test == tests.tests[Current]
<1>1. tests' = tests /\ Current \in DOMAIN tests.tests
  BY DEF RunTest, AllRun
<1>2. IsTest(test)
  BY <1>1 DEF ResultsFit
<1>3. PICK result : results' = Append(results, result) /\ ResultIsOf(result, test)
  <2>1. CASE \E verdict \in {Pass, Failure} :
               /\ test.ends_with_hole => verdict = Failure
               /\ results' = Append(results, Checked(test, verdict))
    BY <1>2, <2>1 DEF ResultIsOf, IsResult, Checked, Pass, Failure
  <2>2. CASE \E steps \in Recordings, code \in Exitcodes :
               /\ test.ends_with_hole
               /\ results' = Append(results, Recorded(Filled(test, steps, code)))
    <3>1. PICK steps \in Recordings, code \in Exitcodes :
               /\ test.ends_with_hole
               /\ results' = Append(results, Recorded(Filled(test, steps, code)))
      BY <2>2
    <3> DEFINE filled == Filled(test, steps, code)
    <3>2. IsTest(filled) /\ ~filled.ends_with_hole
      BY <1>2, FilledIsTest
    <3> HIDE DEF filled
    <3>3. ResultIsOf(Recorded(filled), test)
      BY <3>1, <3>2 DEF ResultIsOf, IsResult, Recorded, Pass
    <3> QED BY <3>1, <3>3 DEF filled
  <2> QED BY <2>1, <2>2 DEF RunTest
<1>4. /\ IsArray(results') /\ Len(results') = Len(results) + 1 /\ Len(results) \in Nat
      /\ DOMAIN results = 1..Len(results) /\ DOMAIN results' = 1..(Len(results) + 1)
      /\ \A i \in DOMAIN results : results'[i] = results[i]
      /\ results'[Len(results) + 1] = result
  <2>1. IsArray(results)
    BY DEF ResultsFit
  <2> DEFINE new == Append(results, result)
  <2>2. /\ IsArray(new) /\ Len(new) = Len(results) + 1 /\ Len(results) \in Nat
        /\ DOMAIN results = 1..Len(results) /\ DOMAIN new = 1..(Len(results) + 1)
        /\ \A i \in DOMAIN results : new[i] = results[i]
        /\ new[Len(results) + 1] = result
    BY <2>1, AppendToArray
  <2>3. results' = new
    BY <1>3
  <2> HIDE DEF new
  <2> QED BY <2>2, <2>3
<1>5. Len(results') <= Len(tests.tests)
  <2>1. Len(tests.tests) \in Nat /\ DOMAIN tests.tests = 1..Len(tests.tests)
    BY ArrayIsFunction DEF ResultsFit
  <2> QED BY <1>1, <1>4, <2>1 DEF Current
<1>6. ASSUME NEW i \in DOMAIN results' PROVE ResultIsOf(results'[i], tests.tests[i])
  <2>1. CASE i = Len(results) + 1
    BY <1>3, <1>4, <2>1 DEF Current
  <2>2. CASE i \in DOMAIN results
    BY <1>4, <2>2 DEF ResultsFit
  <2> QED BY <1>4, <2>1, <2>2
<1> QED BY <1>1, <1>4, <1>5, <1>6 DEF ResultsFit

LEMMA LoadTestsFits == ASSUME FilePart, LoadTests PROVE ResultsFit'
<1>1. tests' = Load(file) /\ tests' # Error /\ results' = <<>>
  BY DEF LoadTests
<1>2. AreTests(Load(file))
  BY <1>1, FileIsRead DEF FilePart
<1>3. IsArray(<<>>) /\ Len(<<>>) = 0 /\ DOMAIN <<>> = {}
  BY DEF IsArray
<1>4. Len(tests'.tests) \in Nat
  BY <1>1, <1>2, ArrayIsFunction DEF AreTests
<1> QED BY <1>1, <1>2, <1>3, <1>4 DEF ResultsFit, AreTests

\* As long as tests and results stay, so does all that depends on them only.
LEMMA ResultsStay ==
    ASSUME UNCHANGED <<tests, results>>
    PROVE  /\ ResultsFit' <=> ResultsFit
           /\ AllRun' <=> AllRun
           /\ AllPass' <=> AllPass
           /\ SomeRecorded' <=> SomeRecorded
           /\ FilledTests' = FilledTests
           /\ ReportLines' = ReportLines
<1>1. ResultsFit' <=> ResultsFit
  BY DEF ResultsFit
<1>2. (AllRun' <=> AllRun) /\ (AllPass' <=> AllPass) /\ (SomeRecorded' <=> SomeRecorded)
  BY DEF AllRun, Current, AllPass, SomeRecorded
<1>3. FilledTests' = FilledTests
  BY DEF FilledTests
<1>4. CheckedTests' = CheckedTests
  BY DEF CheckedTests
<1>5. Reported' = Reported
  BY <1>2, <1>4 DEF Reported
<1>6. ReportLines' = ReportLines
  BY <1>4, <1>5 DEF ReportLines, Number
<1> QED BY <1>1, <1>2, <1>3, <1>6

LEMMA ResultsAreWritable == ASSUME ResultsFit PROVE AreWritable(FilledTests)
<1> DEFINE written == [i \in DOMAIN results |-> results[i].test]
<1>1. IsArray(results) /\ \A i \in DOMAIN results : IsTest(results[i].test)
  BY DEF ResultsFit, ResultIsOf
<1>2. written = [i \in DOMAIN results |-> written[i]] /\ \A i \in DOMAIN written : IsTest(written[i])
  BY <1>1
<1>3. IsArray(written)
  <2> HIDE DEF written
  <2> QED BY <1>1, <1>2, SerializedArray
<1>4. /\ FilledTests.tests = written /\ FilledTests.unmocked_commands # Error
      /\ AreTexts(FilledTests.unmocked_commands)
  BY DEF FilledTests, ResultsFit
<1> HIDE DEF written
<1> QED BY <1>2, <1>3, <1>4 DEF AreWritable

\* Whatever a write leaves behind is YAML or no YAML at all.
LEMMA CutOffIsYaml ==
    ASSUME ResultsFit, NEW contents \in CutOff
    PROVE  contents \in {Missing, Garbage} \/ IsYaml(contents)
<1>1. CASE contents = <<>>
  <2>1. IsArray(<<>>) /\ DOMAIN <<>> = {}
    BY DEF IsArray
  <2> QED BY <1>1, <2>1 DEF IsYaml
<1>2. ASSUME NEW n \in 0..Len(results) - 1,
             contents = <<Serialize([FilledTests EXCEPT !.tests = SubSeq(@, 1, n)])>>
      PROVE  IsYaml(contents)
  <2> DEFINE all == FilledTests.tests
             some == SubSeq(all, 1, n)
             written == [FilledTests EXCEPT !.tests = some]
  <2>1. /\ IsArray(all) /\ \A i \in DOMAIN all : IsTest(all[i])
        /\ FilledTests.unmocked_commands # Error /\ AreTexts(FilledTests.unmocked_commands)
    BY ResultsAreWritable DEF AreWritable
  <2>2. Len(results) \in Nat /\ DOMAIN results = 1..Len(results)
    BY ArrayIsFunction DEF ResultsFit
  <2>3. DOMAIN all = 1..Len(results)
    BY <2>2 DEF FilledTests
  <2>4. /\ written.tests = some
        /\ written.unmocked_commands = FilledTests.unmocked_commands
    BY DEF FilledTests
  <2> HIDE DEF all
  <2>5. n \in Nat /\ 1..n \subseteq DOMAIN all /\ n <= Len(all)
    BY <2>1, <2>2, <2>3, ArrayIsFunction
  <2>6. some = [i \in 1..n |-> all[i]]
    <3> DEFINE S == {all[i] : i \in DOMAIN all}
    <3>1. all \in Seq(S)
      BY <2>1 DEF IsArray
    <3> HIDE DEF S
    <3> QED BY <2>5, <3>1
  <2> HIDE DEF some
  <2>7. IsArray(some) /\ DOMAIN some = 1..n
    BY <2>5, <2>6, FunctionIsArray
  <2>8. \A i \in DOMAIN some : IsTest(some[i])
    BY <2>1, <2>5, <2>6, <2>7
  <2>9. contents = <<Serialize(written)>>
    BY <1>2 DEF some, all
  <2> HIDE DEF written
  <2>10. AreWritable(written)
    BY <2>1, <2>4, <2>7, <2>8 DEF AreWritable
  <2> QED BY <2>9, <2>10, TestsAreWritten
<1> QED BY <1>1, <1>2 DEF CutOff

LEMMA SessionInvInit == Init => SessionInv
<1> SUFFICES ASSUME Init PROVE SessionInv
  OBVIOUS
<1>1. pc = "start" /\ report = {} /\ ~Succeeded /\ ~Active
  BY DEF Init, Succeeded, Active
<1>2. file \in {Missing, Garbage} \/ IsYaml(file)
  BY SessionAssumption DEF Init
<1> QED BY <1>1, <1>2 DEF SessionInv, FilePart, MemoryPart, EndPart

\* A session that ends without success: nothing is left to be shown.
LEMMA FailureKeeps ==
    ASSUME SessionInv, pc # "ended", pc' = "ended", exit' # 0, UNCHANGED report,
           file' \in {Missing, Garbage} \/ IsYaml(file')
    PROVE  SessionInv'
<1>1. report' = {} /\ ~Succeeded' /\ ~Active'
  BY DEF SessionInv, EndPart, Succeeded, Active
<1> QED BY <1>1 DEF SessionInv, FilePart, MemoryPart, EndPart

LEMMA SessionInvNext == SessionInv /\ [Next]_sessionVars => SessionInv'
<1> SUFFICES ASSUME SessionInv, [Next]_sessionVars PROVE SessionInv'
  OBVIOUS
<1>1. NoValue # 0
  BY TestSpecAssumption
<1>2. file \in {Missing, Garbage} \/ IsYaml(file)
  BY DEF SessionInv, FilePart
<1>3. CASE LoadTests
  <2>1. /\ pc = "start" /\ pc' = "run" /\ file' = file /\ report' = report
        /\ tests' = Load(file) /\ tests' # Error
    BY <1>3 DEF LoadTests
  <2>2. ResultsFit'
    BY <1>3, LoadTestsFits DEF SessionInv
  <2>3. report' = {} /\ ~Succeeded'
    BY <2>1 DEF SessionInv, EndPart, Succeeded
  <2> QED BY <1>2, <2>1, <2>2, <2>3 DEF SessionInv, FilePart, MemoryPart, EndPart
<1>4. CASE LoadFails \/ TracerFails \/ ReportFails
  BY <1>2, <1>4, FailureKeeps DEF LoadFails, TracerFails, ReportFails, Exit
<1>5. CASE RunTest
  <2>1. /\ pc = "run" /\ pc' = "run" /\ file' = file /\ report' = report /\ tests' = tests
    BY <1>5 DEF RunTest
  <2>2. ResultsFit'
    BY <1>5, <2>1, RunTestKeeps DEF SessionInv, MemoryPart, Active
  <2>3. report' = {} /\ ~Succeeded'
    BY <2>1 DEF SessionInv, EndPart, Succeeded
  <2> QED BY <1>2, <2>1, <2>2, <2>3 DEF SessionInv, FilePart, MemoryPart, EndPart
<1>6. CASE HandleResults
  <2>1. /\ pc = "run" /\ AllRun
        /\ pc' = IF AllPass /\ SomeRecorded THEN "open" ELSE "report"
        /\ UNCHANGED <<file, tests, results, report, exit>>
    BY <1>6 DEF HandleResults, ToBeFilled
  <2>2. /\ ResultsFit' <=> ResultsFit
        /\ AllRun' <=> AllRun
        /\ AllPass' <=> AllPass
        /\ SomeRecorded' <=> SomeRecorded
    BY <2>1, ResultsStay
  <2>3. report' = {} /\ ~Succeeded' /\ ResultsFit
    BY <2>1 DEF SessionInv, EndPart, MemoryPart, Active, Succeeded
  <2> QED BY <1>2, <2>1, <2>2, <2>3 DEF SessionInv, FilePart, MemoryPart, EndPart
<1>7. CASE OpenFile
  <2>1. CASE file' = <<>> /\ pc' = "write"
    <3>1. pc = "open" /\ UNCHANGED <<tests, results, report>>
      BY <1>7 DEF OpenFile
    <3>2. /\ ResultsFit' <=> ResultsFit
          /\ AllRun' <=> AllRun
          /\ AllPass' <=> AllPass
          /\ SomeRecorded' <=> SomeRecorded
      BY <3>1, ResultsStay
    <3>3. report' = {} /\ ~Succeeded' /\ ResultsFit
      BY <2>1, <3>1 DEF SessionInv, EndPart, MemoryPart, Active, Succeeded
    <3>4. IsArray(<<>>) /\ DOMAIN <<>> = {}
      BY DEF IsArray
    <3>5. IsYaml(file')
      BY <2>1, <3>4 DEF IsYaml
    <3> QED BY <2>1, <3>1, <3>2, <3>3, <3>5 DEF SessionInv, FilePart, MemoryPart, EndPart
  <2>2. CASE Exit(1) /\ UNCHANGED file
    BY <1>2, <1>7, <2>2, FailureKeeps DEF OpenFile, Exit
  <2> QED BY <1>7, <2>1, <2>2 DEF OpenFile
<1>8. CASE Write
  <2>1. /\ pc = "write" /\ pc' = "report" /\ file' = <<Serialize(FilledTests)>>
        /\ UNCHANGED <<tests, results, report>>
    BY <1>8 DEF Write
  <2>2. /\ ResultsFit' <=> ResultsFit
        /\ AllRun' <=> AllRun
        /\ AllPass' <=> AllPass
        /\ SomeRecorded' <=> SomeRecorded
        /\ FilledTests' = FilledTests
    BY <2>1, ResultsStay
  <2>3. report' = {} /\ ~Succeeded' /\ ResultsFit /\ AllRun /\ AllPass /\ SomeRecorded
    BY <2>1 DEF SessionInv, EndPart, MemoryPart, Active, Succeeded
  <2>4. IsYaml(file')
    BY <2>1, <2>3, ResultsAreWritable, TestsAreWritten
  <2> QED BY <2>1, <2>2, <2>3, <2>4 DEF SessionInv, FilePart, MemoryPart, EndPart
<1>9. CASE WriteFails
  <2>1. pc = "write" /\ file' \in CutOff /\ pc' = "ended" /\ exit' = 1 /\ UNCHANGED report
    BY <1>9 DEF WriteFails, Exit
  <2>2. ResultsFit
    BY <2>1 DEF SessionInv, MemoryPart, Active
  <2> QED BY <2>1, <2>2, CutOffIsYaml, FailureKeeps
<1>10. CASE Report
  <2>1. /\ pc = "report" /\ pc' = "ended" /\ exit' = Exitcode /\ report' = ReportLines
        /\ UNCHANGED <<file, tests, results>>
    BY <1>10 DEF Report, Exit
  <2>2. /\ ResultsFit' <=> ResultsFit
        /\ AllRun' <=> AllRun
        /\ AllPass' <=> AllPass
        /\ SomeRecorded' <=> SomeRecorded
        /\ FilledTests' = FilledTests
        /\ ReportLines' = ReportLines
    BY <2>1, ResultsStay
  <2>3. ResultsFit /\ AllRun
    BY <2>1 DEF SessionInv, EndPart, MemoryPart, Active
  <2>4. Succeeded' => AllPass
    BY <2>1 DEF Succeeded, Exitcode
  <2>5. IF AllPass /\ SomeRecorded THEN file = <<Serialize(FilledTests)>>
                                  ELSE tests = Load(file) /\ tests # Error
    BY <2>1 DEF SessionInv, FilePart
  <2> QED BY <1>2, <2>1, <2>2, <2>3, <2>4, <2>5 DEF SessionInv, FilePart, MemoryPart, EndPart
<1>11. CASE Killed
  <2>1. /\ pc # "ended" /\ pc' = "ended" /\ exit' # 0 /\ UNCHANGED report
        /\ file' = file \/ (pc = "write" /\ file' \in CutOff)
    BY <1>1, <1>11 DEF Killed, Exit
  <2>2. pc = "write" => ResultsFit
    BY DEF SessionInv, MemoryPart, Active
  <2> QED BY <1>2, <2>1, <2>2, CutOffIsYaml, FailureKeeps
<1>12. CASE Restart
  <2>1. pc' = "start" /\ report' = {} /\ file' = file
    BY <1>12 DEF Restart
  <2>2. ~Succeeded' /\ ~Active'
    BY <2>1 DEF Succeeded, Active
  <2> QED BY <1>2, <2>1, <2>2 DEF SessionInv, FilePart, MemoryPart, EndPart
<1>13. CASE UNCHANGED sessionVars
  <2>1. UNCHANGED <<file, pc, tests, results, report, exit>>
    BY <1>13 DEF sessionVars
  <2>2. /\ ResultsFit' <=> ResultsFit
        /\ AllRun' <=> AllRun
        /\ AllPass' <=> AllPass
        /\ SomeRecorded' <=> SomeRecorded
        /\ FilledTests' = FilledTests
        /\ ReportLines' = ReportLines
    BY <2>1, ResultsStay
  <2>3. (Succeeded' <=> Succeeded) /\ (Active' <=> Active)
    BY <2>1 DEF Succeeded, Active
  <2> QED BY <2>1, <2>2, <2>3 DEF SessionInv, FilePart, MemoryPart, EndPart
<1> QED
  BY <1>3, <1>4, <1>5, <1>6, <1>7, <1>8, <1>9, <1>10, <1>11, <1>12, <1>13 DEF Next, Over

(***************************************************************************)
(* Memory, file and report agree in every session, whatever fails and      *)
(* whenever scriptkeeper is killed.                                        *)
(***************************************************************************)
THEOREM SessionInvariant == Spec => []SessionInv
BY SessionInvInit, SessionInvNext, PTL DEF Spec

LEMMA AllTestsRun == ASSUME SessionInv, Succeeded PROVE Len(results) = Len(tests.tests)
<1>1. ResultsFit /\ AllRun
  BY DEF SessionInv, MemoryPart, EndPart, Active
<1>2. /\ Len(results) \in Nat /\ Len(tests.tests) \in Nat /\ Len(results) <= Len(tests.tests)
      /\ DOMAIN tests.tests = 1..Len(tests.tests)
  BY <1>1, ArrayIsFunction DEF ResultsFit
<1> QED BY <1>1, <1>2 DEF AllRun, Current

(***************************************************************************)
(* scriptkeeper exits with 0 only after each test of the file was run and  *)
(* passed or was recorded (CheckerResults::exitcode, collect_results).     *)
(***************************************************************************)
THEOREM SuccessIsTrue == Spec => []SuccessMeansAllPass
<1>1. SessionInv => SuccessMeansAllPass
  BY AllTestsRun DEF SessionInv, EndPart, SuccessMeansAllPass, AllPass, Pass
<1> QED BY <1>1, SessionInvariant, PTL

LEMMA PassedHasNoHole ==
    ASSUME ResultsFit, AllPass, NEW i \in DOMAIN results
    PROVE  IsTest(results[i].test) /\ results[i].test.ends_with_hole = FALSE
<1>1. ResultIsOf(results[i], tests.tests[i]) /\ results[i].verdict = Pass
  BY DEF ResultsFit, AllPass
<1>2. results[i].kind \in {"checked", "recorded"}
  BY <1>1 DEF ResultIsOf, IsResult, Checked, Recorded
<1>3. ~results[i].test.ends_with_hole
  BY <1>1, <1>2 DEF ResultIsOf, Pass, Failure
<1> QED BY <1>1, <1>3 DEF ResultIsOf, IsTest

LEMMA FilledFileIsLoaded ==
    ASSUME SessionInv, Written, \A i \in DOMAIN results : Readable(results[i].test),
           SymbolsAreApart
    PROVE  /\ Load(file) # Error
           /\ Load(file) = [tests |-> [i \in DOMAIN results |-> WrittenTest(results[i].test)],
                            unmocked_commands |-> tests.unmocked_commands,
                            interpreter |-> NoValue]
<1>1. file = <<Serialize(FilledTests)>> /\ ResultsFit
  BY DEF SessionInv, FilePart, MemoryPart, EndPart, Active, Written
<1>2. AreWritable(FilledTests)
  BY <1>1, ResultsAreWritable
<1>3. /\ FilledTests.tests = [i \in DOMAIN results |-> results[i].test]
      /\ FilledTests.unmocked_commands = tests.unmocked_commands
  BY DEF FilledTests
<1>4. \A i \in DOMAIN FilledTests.tests : Readable(FilledTests.tests[i])
  BY <1>3
<1>5. /\ Load(file) # Error
      /\ Load(file) = [tests |-> [i \in DOMAIN FilledTests.tests |-> WrittenTest(FilledTests.tests[i])],
                       unmocked_commands |-> FilledTests.unmocked_commands,
                       interpreter |-> NoValue]
  BY <1>1, <1>2, <1>4, TestsAreReadBack
<1>6. [i \in DOMAIN FilledTests.tests |-> WrittenTest(FilledTests.tests[i])]
        = [i \in DOMAIN results |-> WrittenTest(results[i].test)]
  BY <1>3
<1> QED BY <1>3, <1>5, <1>6

\* Conversely, a test that is read back, without a hole, was readable.
LEMMA OnlyReadableIsRead ==
    ASSUME NEW test, IsTest(test), SymbolsAreApart, NEW yaml, yaml = SerializeTest(test),
           ParseTest(yaml) # Error, ~ParseTest(yaml).ends_with_hole
    PROVE  Readable(test)
<1> DEFINE array == [i \in DOMAIN test.steps |-> SerializeStep(test.steps[i])]
           node == [steps |-> <<"array", array>>,
                    arguments |-> <<"string", FormatArguments(test.arguments)>>,
                    env |-> SerializeEnv(test.env), exitcode |-> <<"integer", test.exitcode>>]
           object == [key \in SerializedKeys(test) |-> node[key]]
<1>1. yaml = <<"hash", object>>
  BY DEF SerializeTest
<1>2. /\ object["steps"] = <<"array", array>>
      /\ test.env # <<>> => "env" \in DOMAIN object /\ object["env"] = SerializeEnv(test.env)
  BY DEF SerializedKeys
<1>3. /\ DOMAIN array = DOMAIN test.steps
      /\ \A i \in DOMAIN test.steps : array[i] = SerializeStep(test.steps[i])
  OBVIOUS
<1> HIDE DEF array, object
<1>4. /\ StepsOf(array) # Error /\ ~EndsWithHole(array) /\ IsArray(array)
      /\ "env" \in DOMAIN object => ExpectEnv(object["env"]) # Error
  <2>1. yaml[2] = object /\ object["steps"][2] = array
    BY <1>1, <1>2
  <2> QED BY <2>1, TestIsWritten, TestIsRead
<1>5. ReadableEnv(test.env)
  <2>1. CASE test.env = <<>>
    BY <2>1, NoTexts DEF ReadableEnv
  <2>2. CASE test.env # <<>>
    <3>1. ExpectEnv(SerializeEnv(test.env)) # Error
      BY <1>2, <1>4, <2>2
    <3> QED BY <3>1, OnlyReadableEnvIsRead
  <2> QED BY <2>1, <2>2
<1>6. ASSUME NEW i \in DOMAIN test.steps PROVE ReadableStep(test.steps[i])
  <2>1. ~IsHole(array[i]) /\ ParseStep(array[i]) # Error
    <3> DEFINE parts == [k \in 1..Len(array) |-> IF IsHole(array[k]) THEN Error ELSE ParseStep(array[k])]
    <3>1. StepsOf(array) = AllOrError(parts)
      BY <1>4 DEF StepsOf
    <3>2. i \in 1..Len(array)
      BY <1>3, <1>4, ArrayIsFunction
    <3>3. \A k \in DOMAIN parts : parts[k] # Error
      <4> HIDE DEF parts
      <4> QED BY <1>4, <3>1, NoErrorLeft
    <3> QED BY <3>2, <3>3
  <2> DEFINE step == test.steps[i]
             text == FormatMatcher(step.matcher)
  <2>2. ~IsHole(SerializeStep(step)) /\ ParseStep(SerializeStep(step)) # Error
    BY <1>3, <2>1
  <2> HIDE DEF step
  <2>3. CommandNew(text) # Error
    <3>1. CASE step.exitcode = 0
      <4>1. SerializeStep(step) = <<"string", text>>
        BY <3>1 DEF SerializeStep
      <4>2. AllOrError(NewStep(CommandNew(text))) # Error
        BY <2>2, <4>1 DEF ParseStep, StepFromText
      <4>3. \A key \in DOMAIN NewStep(CommandNew(text)) : NewStep(CommandNew(text))[key] # Error
        BY <4>2, NoErrorLeft
      <4> QED BY <4>3 DEF NewStep
    <3>2. CASE step.exitcode # 0
      <4> DEFINE fields == [command |-> <<"string", text>>, exitcode |-> <<"integer", step.exitcode>>]
                 read == [matcher  |-> MatcherOf(fields),
                          stdout   |-> Optional(fields, "stdout", ExpectString(fields["stdout"]), NoText),
                          exitcode |-> Optional(fields, "exitcode", ExpectInteger(fields["exitcode"]), 0)]
      <4>1. ParseStep(<<"hash", fields>>) # Error
        BY <2>2, <3>2 DEF SerializeStep
      <4>2. MatcherOf(fields) = CommandNew(text)
        BY DEF MatcherOf, ExpectString
      <4> HIDE DEF fields
      <4>3. AllOrError(read) # Error
        BY <4>1 DEF ParseStep, StepFromObject
      <4>4. read.matcher # Error
        BY <4>3, NoErrorLeft
      <4> QED BY <4>2, <4>4
    <3> QED BY <3>1, <3>2
  <2>4. ~(text = HoleText /\ step.exitcode = 0)
    BY <2>2 DEF SerializeStep, IsHole
  <2> QED BY <2>3, <2>4 DEF CommandNew, ReadableStep, step
<1> QED BY <1>5, <1>6 DEF Readable

LEMMA OnlyReadableFileIsLoaded ==
    ASSUME NEW written, AreWritable(written), SymbolsAreApart, Complete(Load(<<Serialize(written)>>))
    PROVE  \A i \in DOMAIN written.tests : Readable(written.tests[i])
<1> DEFINE array == [i \in DOMAIN written.tests |-> SerializeTest(written.tests[i])]
           node == [tests |-> <<"array", array>>,
                    unmockedCommands |-> SerializeStrings(written.unmocked_commands)]
           keys == {"tests"} \cup
                    (IF written.unmocked_commands = <<>> THEN {} ELSE {"unmockedCommands"})
           object == [key \in keys |-> node[key]]
           document == Serialize(written)
           loaded == Load(<<document>>)
<1>1. document = <<"hash", object>>
  BY DEF Serialize
<1>2. /\ DOMAIN object \subseteq TestsKeys /\ "tests" \in DOMAIN object
      /\ object["tests"] = <<"array", array>>
  BY DEF TestsKeys
<1>3. array # Error /\ DOMAIN array = DOMAIN written.tests
      /\ \A i \in DOMAIN array : array[i] = SerializeTest(written.tests[i])
  <2>1. array = [i \in DOMAIN written.tests |-> array[i]]
    OBVIOUS
  <2>2. array # Error
    <3> HIDE DEF array
    <3> QED BY <2>1 DEF SymbolsAreApart, NoFunction
  <2> QED BY <2>2
<1> HIDE DEF array, object, document
<1>4. loaded # Error /\ \A i \in DOMAIN loaded.tests : ~loaded.tests[i].ends_with_hole
  BY DEF Complete, document
<1>5. loaded = AllOrError(TestsFromObject(object))
  <2>1. loaded = Parse(document)
    BY <1>4 DEF Load
  <2> QED BY <1>1, <1>2, <2>1 DEF Parse
<1>6. TestsFromObject(object).tests = TestsFromArray(array) /\ "tests" \in DOMAIN TestsFromObject(object)
  <2>1. ExpectArray(object["tests"]) = array
    BY <1>2 DEF ExpectArray
  <2> QED BY <1>2, <2>1 DEF TestsFromObject, NewTests
<1>7. loaded.tests = TestsFromArray(array) /\ TestsFromArray(array) # Error
  BY <1>4, <1>5, <1>6, NoErrorLeft
<1> DEFINE parts == [i \in DOMAIN array |-> ParseTest(array[i])]
<1>8. TestsFromArray(array) = parts /\ \A i \in DOMAIN parts : parts[i] # Error
  <2>1. TestsFromArray(array) = AllOrError(parts)
    BY <1>3 DEF TestsFromArray
  <2> HIDE DEF parts
  <2> QED BY <1>7, <2>1, NoErrorLeft
<1>9. \A i \in DOMAIN array : ParseTest(array[i]) # Error /\ ~ParseTest(array[i]).ends_with_hole
  BY <1>4, <1>7, <1>8
<1> QED BY <1>3, <1>9, OnlyReadableIsRead DEF AreWritable

(***************************************************************************)
(* After a success the test file can be loaded and no hole is left in it,  *)
(* whichever tests had one (handle_recorded), if and only if everything    *)
(* that was written is read as it was meant.                               *)
(***************************************************************************)
THEOREM HolesAreFilled == ASSUME SymbolsAreApart PROVE Spec => []HolesFilled
<1>1. SessionInv => HolesFilled
  <2> SUFFICES ASSUME SessionInv, Succeeded
               PROVE  Complete(Load(file)) <=>
                        (SomeRecorded => \A i \in DOMAIN results : Readable(results[i].test))
    BY DEF HolesFilled
  <2>1. ResultsFit /\ AllPass
    BY DEF SessionInv, MemoryPart, EndPart, Active
  <2>2. CASE SomeRecorded
    <3>1. ASSUME \A i \in DOMAIN results : Readable(results[i].test) PROVE Complete(Load(file))
      <4>1. /\ Load(file) # Error
            /\ Load(file) = [tests |-> [i \in DOMAIN results |-> WrittenTest(results[i].test)],
                             unmocked_commands |-> tests.unmocked_commands,
                             interpreter |-> NoValue]
        BY <2>2, <3>1, FilledFileIsLoaded DEF Written
      <4>2. Load(file).tests = [i \in DOMAIN results |-> WrittenTest(results[i].test)]
        BY <4>1
      <4>3. \A i \in DOMAIN results : ~WrittenTest(results[i].test).ends_with_hole
        BY DEF WrittenTest
      <4> QED BY <4>1, <4>2, <4>3 DEF Complete
    <3>2. ASSUME Complete(Load(file)) PROVE \A i \in DOMAIN results : Readable(results[i].test)
      <4>1. file = <<Serialize(FilledTests)>>
        BY <2>1, <2>2 DEF SessionInv, FilePart
      <4>2. \A i \in DOMAIN FilledTests.tests : Readable(FilledTests.tests[i])
        BY <2>1, <3>2, <4>1, ResultsAreWritable, OnlyReadableFileIsLoaded
      <4> QED BY <4>2 DEF FilledTests
    <3> QED BY <2>2, <3>1, <3>2
  <2>3. CASE ~SomeRecorded
    <3>1. tests = Load(file) /\ tests # Error
      BY <2>3 DEF SessionInv, FilePart
    <3>2. DOMAIN results = DOMAIN tests.tests
      BY <2>1, AllTestsRun, ArrayIsFunction DEF ResultsFit
    <3>3. ASSUME NEW i \in DOMAIN results PROVE ~tests.tests[i].ends_with_hole
      <4>1. ResultIsOf(results[i], tests.tests[i]) /\ results[i].kind # "recorded"
        BY <2>1, <2>3 DEF ResultsFit, SomeRecorded
      <4>2. results[i].test = tests.tests[i]
        BY <4>1 DEF ResultIsOf, IsResult, Checked, Recorded
      <4> QED BY <2>1, <4>2, PassedHasNoHole
    <3> QED BY <2>3, <3>1, <3>2, <3>3 DEF Complete
  <2> QED BY <2>2, <2>3
<1> QED BY <1>1, SessionInvariant, PTL

LEMMA StepIsWrittenEntirely ==
    ASSUME NEW step, IsStep(step), step.stdout = NoText, step.matcher.kind = "exact",
           FormatCommand(step.matcher.text) = step.matcher.text
    PROVE  WrittenStep(step) = step
<1> DEFINE matcher == step.matcher
<1>1. /\ step = [matcher |-> matcher, stdout |-> NoText, exitcode |-> step.exitcode]
      /\ matcher = [kind |-> "exact", text |-> matcher.text]
  <2>1. /\ step = [matcher |-> [kind |-> step.matcher.kind, text |-> step.matcher.text],
                   stdout |-> step.stdout, exitcode |-> step.exitcode]
    BY DEF IsStep
  <2>2. step.matcher = [kind |-> step.matcher.kind, text |-> step.matcher.text]
    BY <2>1
  <2> QED BY <2>1, <2>2
<1>2. ExactMatch(FormatMatcher(matcher)) = matcher
  BY <1>1 DEF ExactMatch, FormatMatcher
<1> QED BY <1>1, <1>2 DEF WrittenStep

LEMMA SerializableIsWritten ==
    ASSUME NEW test, IsTest(test), Serializable(test), test.ends_with_hole = FALSE
    PROVE  WrittenTest(test) = test
<1> DEFINE steps == [i \in DOMAIN test.steps |-> WrittenStep(test.steps[i])]
           written == WrittenTest(test)
<1>1. \A i \in DOMAIN test.steps : WrittenStep(test.steps[i]) = test.steps[i]
  BY StepIsWrittenEntirely DEF IsTest, Serializable
<1>2. steps = test.steps
  <2>1. test.steps = [i \in DOMAIN test.steps |-> test.steps[i]]
    BY ArrayIsFunction DEF IsTest
  <2> QED BY <1>1, <2>1
<1>3. test = [field \in TestFields |-> test[field]]
  BY DEF IsTest
<1>4. written = [field \in TestFields |-> written[field]]
  BY DEF WrittenTest, TestFields
<1>5. /\ written.steps = steps /\ written.ends_with_hole = FALSE
      /\ written.arguments = test.arguments /\ written.env = test.env /\ written.cwd = NoValue
      /\ written.stdout = NoValue /\ written.stderr = NoValue /\ written.exitcode = test.exitcode
      /\ written.mocked_files = <<>>
  BY DEF WrittenTest, Serializable
<1>6. /\ test.cwd = NoValue /\ test.stdout = NoValue /\ test.stderr = NoValue
      /\ test.mocked_files = <<>>
  BY DEF Serializable
<1> HIDE DEF steps, written
<1>7. \A field \in TestFields : written[field] = test[field]
  BY <1>2, <1>5, <1>6 DEF TestFields
<1>8. written = test
  BY <1>3, <1>4, <1>7, Zenon
<1> QED BY <1>8 DEF written

(***************************************************************************)
(* A filled file is loaded as what was recorded, if all of it is what      *)
(* scriptkeeper writes (Tests::serialize and Tests::parse).                *)
(***************************************************************************)
THEOREM FilledIsRead == ASSUME SymbolsAreApart PROVE Spec => []FilledFileIsRead
<1>1. SessionInv => FilledFileIsRead
  <2> SUFFICES ASSUME SessionInv, Written, \A i \in DOMAIN results : Serializable(results[i].test)
               PROVE  Load(file) = FilledTests
    BY DEF FilledFileIsRead
  <2>1. ResultsFit /\ AllPass
    BY DEF SessionInv, MemoryPart, EndPart, Active, Written
  <2>2. Load(file) = [tests |-> [i \in DOMAIN results |-> WrittenTest(results[i].test)],
                      unmocked_commands |-> tests.unmocked_commands,
                      interpreter |-> NoValue]
    BY FilledFileIsLoaded DEF Serializable
  <2>3. \A i \in DOMAIN results : WrittenTest(results[i].test) = results[i].test
    BY <2>1, PassedHasNoHole, SerializableIsWritten
  <2>4. [i \in DOMAIN results |-> WrittenTest(results[i].test)] = [i \in DOMAIN results |-> results[i].test]
    BY <2>3
  <2> QED BY <2>2, <2>4 DEF FilledTests
<1> QED BY <1>1, SessionInvariant, PTL

(***************************************************************************)
(* Each failing test is in the report, with the number that it has in the  *)
(* file if no test was recorded (CheckerResults::format).                  *)
(***************************************************************************)
THEOREM ReportIsComplete == Spec => []FailuresAreReported
<1>1. SessionInv => FailuresAreReported
  <2> SUFFICES ASSUME SessionInv, report # {}, NEW i \in DOMAIN results, results[i].verdict = Failure
               PROVE  \E line \in report :
                        /\ line.test = i
                        /\ Len(results) > 1 /\ ~SomeRecorded => line.number = i
    BY DEF FailuresAreReported
  <2> DEFINE line == [number |-> Number(CheckedTests, i), test |-> i]
  <2>1. report = ReportLines /\ ResultsFit
    BY DEF SessionInv, EndPart, MemoryPart, Active
  <2>2. ResultIsOf(results[i], tests.tests[i])
    BY <2>1 DEF ResultsFit
  <2>3. i \in CheckedTests
    BY <2>2 DEF CheckedTests, ResultIsOf, IsResult, Checked, Recorded, Pass, Failure
  <2>4. ~AllPass
    BY DEF AllPass, Pass, Failure
  <2>5. line \in report
    BY <2>1, <2>3, <2>4 DEF ReportLines, Reported
  <2>6. ASSUME Len(results) > 1, ~SomeRecorded PROVE Number(CheckedTests, i) = i
    <3>1. Len(results) \in Nat /\ DOMAIN results = 1..Len(results)
      BY <2>1, ArrayIsFunction DEF ResultsFit
    <3>2. CheckedTests = 1..Len(results)
      <4>1. \A j \in DOMAIN results : results[j].kind = "checked"
        BY <2>1, <2>6 DEF ResultsFit, ResultIsOf, IsResult, Checked, Recorded, SomeRecorded
      <4> QED BY <3>1, <4>1 DEF CheckedTests
    <3>3. Cardinality(CheckedTests) # 1
      BY <2>6, <3>1, <3>2, FS_Interval
    <3>4. {j \in CheckedTests : j <= i} = 1..i /\ i \in Nat
      BY <3>1, <3>2
    <3>5. Cardinality(1..i) = i
      BY <3>1, <3>4, FS_Interval
    <3> QED BY <3>3, <3>4, <3>5 DEF Number
  <2> QED BY <2>5, <2>6
<1> QED BY <1>1, SessionInvariant, PTL

(***************************************************************************)
(* The exit code of a step is the number in the file, if that is not below *)
(* the range of an i32; one above the range is refused (expect_integer).   *)
(***************************************************************************)
THEOREM ExitcodesKept == Spec => []ExitcodesAreKept
<1>1. SessionInv => ExitcodesAreKept
  <2> DEFINE yaml == file[1]
             array == yaml[2]["steps"][2]
  <2> SUFFICES ASSUME SessionInv, pc = "run", yaml[1] = "hash", "steps" \in DOMAIN yaml[2],
                      NEW i \in DOMAIN tests.tests[1].steps, GivenExitcode(array[i]) >= -IntegerLimit
               PROVE  tests.tests[1].steps[i].exitcode = GivenExitcode(array[i])
    BY DEF ExitcodesAreKept
  <2>1. tests = Load(file) /\ tests # Error /\ (file \in {Missing, Garbage} \/ IsYaml(file))
    BY DEF SessionInv, FilePart
  <2>2. Len(file) = 1 /\ tests = Parse(yaml) /\ IsYaml(file)
    BY <2>1 DEF Load
  <2>3. IsTestNode(yaml)
    BY <2>2, ArrayIsFunction DEF IsYaml, IsDocument
  <2> HIDE DEF yaml
  <2>4. "tests" \notin DOMAIN yaml[2]
    <3>1. CASE "tests" \in DOMAIN yaml[2]
      <4>1. TestsFromObject(yaml[2]) = <<Error>>
        BY DEF TestsFromObject, TestsKeys
      <4>2. Parse(yaml) = AllOrError(<<Error>>)
        BY <3>1, <4>1 DEF Parse
      <4> QED BY <2>1, <2>2, <4>2, RefusedDocument
    <3> QED BY <3>1
  <2>5. tests = AllOrError(NewTests(TestsFromArray(<<yaml>>)))
    BY <2>2, <2>4 DEF Parse
  <2>6. tests.tests = TestsFromArray(<<yaml>>) /\ tests.tests # Error
    BY <2>1, <2>5, NoErrorLeft DEF NewTests
  <2>7. tests.tests[1] = ParseTest(yaml) /\ ParseTest(yaml) # Error
    BY <2>3, <2>6, OneTestIsArray, TestsAreRead
  <2>8. IsArray(array) /\ tests.tests[1].steps = StepsOf(array) /\ StepsOf(array) # Error
    BY <2>3, <2>7, TestIsRead
  <2>9. \A j \in DOMAIN array : IsStepNode(array[j])
    <3>1. yaml[2]["steps"][1] = "array"
      BY <2>7 DEF ParseTest, TestFromObject, ExpectArray
    <3> QED BY <2>3, <3>1 DEF IsTestNode
  <2> DEFINE node == array[i]
  <2>10. /\ tests.tests[1].steps[i] = ParseStep(node) /\ ParseStep(node) # Error
         /\ IsStepNode(node)
    BY <2>8, <2>9, StepsAreRead
  <2> HIDE DEF array, node
  <2>11. GivenExitcode(node) >= -IntegerLimit
    BY DEF node
  <2>12. ParseStep(node).exitcode = GivenExitcode(node)
    <3>1. CASE node[1] = "string"
      BY <2>10, <3>1 DEF ParseStep, StepFromText, AllOrError, NewStep, GivenExitcode
    <3>2. CASE node[1] = "hash"
      <4> DEFINE object == node[2]
                 step == [matcher  |-> MatcherOf(object),
                          stdout   |-> Optional(object, "stdout", ExpectString(object["stdout"]), NoText),
                          exitcode |-> Optional(object, "exitcode", ExpectInteger(object["exitcode"]), 0)]
      <4>1. ParseStep(node) = AllOrError(step)
        BY <2>10, <3>2 DEF ParseStep, StepFromObject
      <4>2. ParseStep(node) = step /\ step.exitcode # Error
        BY <2>10, <4>1, NoErrorLeft
      <4>3. CASE "exitcode" \in DOMAIN object
        <5> DEFINE n == object["exitcode"][2]
        <5>1. ExpectInteger(object["exitcode"]) # Error
          BY <4>2, <4>3 DEF Optional
        <5>2. n \in Int /\ n < IntegerLimit /\ ExpectInteger(object["exitcode"]) = ToI32(n)
          BY <2>10, <3>2, <4>3, <5>1 DEF IsStepNode, HasExitcode, ExpectInteger
        <5>3. GivenExitcode(node) = n
          BY <3>2, <4>3 DEF GivenExitcode
        <5>4. n \in I32
          BY <2>11, <5>2, <5>3, TestSpecAssumption DEF I32
        <5>5. ToI32(n) = n
          <6> HIDE DEF n
          <6> QED BY <5>4, I32IsNarrowed
        <5> QED BY <4>2, <4>3, <5>2, <5>3, <5>5 DEF Optional
      <4>4. CASE "exitcode" \notin DOMAIN object
        BY <3>2, <4>2, <4>4 DEF GivenExitcode, Optional
      <4> QED BY <4>3, <4>4
    <3>3. CASE node[1] \notin {"string", "hash"}
      BY <2>10, <3>3 DEF ParseStep
    <3> QED BY <3>1, <3>2, <3>3
  <2> QED BY <2>10, <2>12 DEF node
<1> QED BY <1>1, SessionInvariant, PTL

\* The file changes only when it is truncated or written.
LEMMA ChangedWhenWritten ==
    [Next]_sessionVars /\ file' # file => pc \in {"open", "write"}
BY DEF Next, sessionVars, LoadTests, LoadFails, RunTest, TracerFails, HandleResults, OpenFile,
       Write, WriteFails, Report, ReportFails, Killed, Restart, Over

(***************************************************************************)
(* Only sessions in which all tests were run, passed or were recorded, and *)
(* one was recorded, touch the test file, whatever fails and whenever      *)
(* scriptkeeper is killed.                                                 *)
(***************************************************************************)
THEOREM FileTouchedOnlyByRecording == Spec => TouchedOnlyByRecording
<1>1. SessionInv /\ [Next]_sessionVars => [file' # file => AllRun /\ AllPass /\ SomeRecorded]_sessionVars
  BY ChangedWhenWritten DEF SessionInv, EndPart
<1> QED BY <1>1, SessionInvariant, PTL DEF Spec, TouchedOnlyByRecording

(***************************************************************************)
(* The test file of a script whose tests have no hole is never changed,    *)
(* neither in this session nor in a later one.                             *)
(***************************************************************************)
THEOREM CompleteFileStays == Spec => CompleteFileIsKept
<1>1. SessionInv /\ [Next]_sessionVars
        => [Complete(Load(file)) => file' = file]_sessionVars
  <2> SUFFICES ASSUME SessionInv, [Next]_sessionVars, file' # file
               PROVE  ~Complete(Load(file))
    OBVIOUS
  <2>1. CASE pc = "open"
    <3>1. PICK i \in DOMAIN results : results[i].kind = "recorded"
      BY <2>1 DEF SessionInv, EndPart, SomeRecorded
    <3>2. ResultsFit
      BY <2>1 DEF SessionInv, MemoryPart, Active
    <3>3. i \in DOMAIN tests.tests
      <4>1. DOMAIN results = 1..Len(results) /\ DOMAIN tests.tests = 1..Len(tests.tests)
            /\ Len(results) <= Len(tests.tests) /\ Len(results) \in Nat /\ Len(tests.tests) \in Nat
        BY <3>2, ArrayIsFunction DEF ResultsFit
      <4> QED BY <4>1
    <3>4. tests.tests[i].ends_with_hole
      BY <3>1, <3>2 DEF ResultsFit, ResultIsOf
    <3>5. Load(file) = tests
      BY <2>1 DEF SessionInv, FilePart
    <3> QED BY <3>3, <3>4, <3>5 DEF Complete
  <2>2. CASE pc = "write"
    <3>1. file = <<>>
      BY <2>2 DEF SessionInv, FilePart
    <3>2. Load(<<>>) = Error
      BY DEF Load
    <3> QED BY <3>1, <3>2 DEF Complete
  <2> QED BY <2>1, <2>2, ChangedWhenWritten
<1> QED BY <1>1, SessionInvInit, SessionInvNext, PTL DEF Spec, CompleteFileIsKept
=============================================================================
