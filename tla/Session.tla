------------------------------ MODULE Session -------------------------------
(***************************************************************************)
(* Sessions with scriptkeeper: it loads the test file of a script, runs    *)
(* the script once for every test, fills the holes of the file if all is   *)
(* well, prints a report and exits (lib.rs, recorder/result.rs and         *)
(* checker_result.rs).  What the script does is not determined here: any   *)
(* test may pass or fail, and any steps may be recorded.  scriptkeeper may *)
(* be killed at any moment and started again.                              *)
(***************************************************************************)
EXTENDS TestSpec, FiniteSets

CONSTANTS
    Files,          \* the contents of the test file at first
    Missing,        \* there is no test file
    Garbage,        \* a file that is not YAML
    Recordings,     \* the steps that may be recorded in a hole
    Exitcodes,      \* the exit codes of a script
    MaxSessions     \* bound on the number of sessions

ASSUME SessionAssumption ==
    /\ \A contents \in Files : contents \in {Missing, Garbage} \/ IsYaml(contents)
    /\ \A steps \in Recordings : IsArray(steps) /\ \A i \in DOMAIN steps : IsCommand(steps[i])
    /\ Exitcodes \subseteq I32

VARIABLES
    file,           \* the contents of the test file: Missing, Garbage, or documents
    pc,             \* what scriptkeeper does next
    tests,          \* the loaded tests
    results,        \* the results so far
    report,         \* the lines of the report: the number and the index of a test
    exit,           \* the exit code, if there is one
    session         \* counts sessions

sessionVars == <<file, pc, tests, results, report, exit, session>>

Pass == "pass"
Failure == "failure"
Checked(test, verdict) == [kind |-> "checked", test |-> test, verdict |-> verdict]
Recorded(test) == [kind |-> "recorded", test |-> test, verdict |-> Pass]
IsResult(result) ==
    result \in {Checked(result.test, Pass), Checked(result.test, Failure), Recorded(result.test)}

-----------------------------------------------------------------------------
Load(contents) ==
    IF contents \in {Missing, Garbage} THEN Error
    ELSE IF Len(contents) # 1 THEN Error
    ELSE Parse(contents[1])

LoadTests ==
    /\ pc = "start"
    /\ tests' = Load(file)
    /\ tests' # Error
    /\ results' = <<>>
    /\ pc' = "run"
    /\ UNCHANGED <<file, report, exit, session>>

Exit(code) == pc' = "ended" /\ exit' = code

LoadFails ==
    /\ pc = "start"
    /\ Load(file) = Error
    /\ Exit(1)
    /\ UNCHANGED <<file, tests, results, report, session>>

\* A test whose hole was filled: an exit code of 0 is not recorded.
Filled(test, steps, code) ==
    [test EXCEPT !.steps = @ \o steps, !.ends_with_hole = FALSE,
                 !.exitcode = IF code = 0 THEN @ ELSE code]

\* The tests are run in their order.
Current == Len(results) + 1
AllRun == Current \notin DOMAIN tests.tests

\* RecorderResult::collect_results calls run_against_test.
RunTest ==
    /\ pc = "run"
    /\ ~AllRun
    /\ LET test == tests.tests[Current]
       IN  \/ \E verdict \in {Pass, Failure} :
                /\ test.ends_with_hole => verdict = Failure
                /\ results' = Append(results, Checked(test, verdict))
           \/ \E steps \in Recordings, code \in Exitcodes :
                /\ test.ends_with_hole
                /\ results' = Append(results, Recorded(Filled(test, steps, code)))
    /\ UNCHANGED <<file, pc, tests, report, exit, session>>

TracerFails ==
    /\ pc = "run"
    /\ ~AllRun
    /\ Exit(1)
    /\ UNCHANGED <<file, tests, results, report, session>>

-----------------------------------------------------------------------------
AllPass == \A i \in DOMAIN results : results[i].verdict = Pass
SomeRecorded == \E i \in DOMAIN results : results[i].kind = "recorded"

\* Broken: failures do not matter, or recordings do not.
FillAnyway == SomeRecorded
FillAlways == AllPass

\* Broken: a hole is filled only if every test had one.
FillIfAllRecorded == SomeRecorded /\ \A i \in DOMAIN results : results[i].kind = "recorded"

\* handle_recorded
ToBeFilled == AllPass /\ SomeRecorded

HandleResults ==
    /\ pc = "run"
    /\ AllRun
    /\ pc' = IF ToBeFilled THEN "open" ELSE "report"
    /\ UNCHANGED <<file, tests, results, report, exit, session>>

\* OpenOptions::truncate
OpenFile ==
    /\ pc = "open"
    /\ \/ /\ file' = <<>>
          /\ pc' = "write"
          /\ UNCHANGED exit
       \/ /\ Exit(1)
          /\ UNCHANGED file
    /\ UNCHANGED <<tests, results, report, session>>

\* RecorderResult::get_test for each result, without the interpreter
FilledTests ==
    [tests |-> [i \in DOMAIN results |-> results[i].test],
     unmocked_commands |-> tests.unmocked_commands,
     interpreter |-> NoValue]

\* What a write that is cut off leaves: nothing, something that is not YAML, or
\* the first tests.
CutOff ==
    {<<>>, Garbage} \cup
    {<<Serialize([FilledTests EXCEPT !.tests = SubSeq(@, 1, n)])>> : n \in 0..Len(results) - 1}

Write ==
    /\ pc = "write"
    /\ file' = <<Serialize(FilledTests)>>
    /\ pc' = "report"
    /\ UNCHANGED <<tests, results, report, exit, session>>

WriteFails ==
    /\ pc = "write"
    /\ file' \in CutOff
    /\ Exit(1)
    /\ UNCHANGED <<tests, results, report, session>>

\* handle_results leaves out the tests that were recorded.
CheckedTests == {i \in DOMAIN results : results[i].kind = "checked"}

\* The tests that CheckerResults::format mentions.
Reported == IF AllPass THEN {} ELSE CheckedTests

\* enumerate() and CheckerResult::format; 0 is for no number.
Number(counted, i) ==
    IF Cardinality(CheckedTests) = 1 THEN 0 ELSE Cardinality({j \in counted : j <= i})

\* Broken: only the failures are counted.
CountedFailures ==
    LET failures == {i \in CheckedTests : results[i].verdict # Pass}
    IN  {[number |-> Number(failures, i), test |-> i] : i \in failures}

\* CheckerResults::format
ReportLines == {[number |-> Number(CheckedTests, i), test |-> i] : i \in Reported}

\* Broken: the exit code of the last test.
LastExitcode == IF results = <<>> \/ results[Len(results)].verdict = Pass THEN 0 ELSE 1

Exitcode == IF AllPass THEN 0 ELSE 1

Report ==
    /\ pc = "report"
    /\ report' = ReportLines
    /\ Exit(Exitcode)
    /\ UNCHANGED <<file, tests, results, session>>

\* The standard output cannot be written to.
ReportFails ==
    /\ pc = "report"
    /\ Exit(1)
    /\ UNCHANGED <<file, tests, results, report, session>>

Killed ==
    /\ pc # "ended"
    /\ Exit(NoValue)
    /\ \/ UNCHANGED file
       \/ pc = "write" /\ file' \in CutOff
    /\ UNCHANGED <<tests, results, report, session>>

Restart ==
    /\ pc = "ended"
    /\ session < MaxSessions
    /\ pc' = "start"
    /\ exit' = NoValue
    /\ report' = {}
    /\ session' = session + 1
    /\ UNCHANGED <<file, tests, results>>

Over == pc = "ended" /\ session = MaxSessions /\ UNCHANGED sessionVars

-----------------------------------------------------------------------------
Init ==
    /\ file \in Files
    /\ pc = "start"
    /\ tests = NewTests(<<>>)
    /\ results = <<>>
    /\ report = {}
    /\ exit = NoValue
    /\ session = 1

Next ==
    \/ LoadTests \/ LoadFails \/ RunTest \/ TracerFails
    \/ HandleResults \/ OpenFile \/ Write \/ WriteFails \/ Report \/ ReportFails
    \/ Killed \/ Restart \/ Over

Spec == Init /\ [][Next]_sessionVars

-----------------------------------------------------------------------------
\* What was loaded is tests, none of which has a hole.
Complete(loaded) ==
    loaded # Error /\ \A i \in DOMAIN loaded.tests : ~loaded.tests[i].ends_with_hole

\* Sessions that ended well, and those in which tests and results count.
Succeeded == pc = "ended" /\ exit = 0
Active == pc \in {"run", "open", "write", "report"} \/ Succeeded \/ report # {}

(***************************************************************************)
(* The inductive invariant.  Until it is truncated, the file is what was   *)
(* loaded; the results are results of the tests in memory, recorded only   *)
(* where a test had a hole; and a file that was written has these results. *)
(***************************************************************************)
FilePart ==
    /\ file \in {Missing, Garbage} \/ IsYaml(file)
    /\ pc \in {"run", "open"} => tests = Load(file) /\ tests # Error
    /\ pc = "write" => file = <<>>
    /\ pc = "report" \/ Succeeded =>
        IF AllPass /\ SomeRecorded THEN file = <<Serialize(FilledTests)>>
                                   ELSE tests = Load(file) /\ tests # Error

ResultIsOf(result, test) ==
    /\ IsResult(result)
    /\ IsTest(result.test)
    /\ result.kind = "recorded" => test.ends_with_hole /\ ~result.test.ends_with_hole
    /\ result.kind = "checked" =>
        result.test = test /\ (test.ends_with_hole => result.verdict = Failure)

ResultsFit ==
    /\ IsArray(tests.tests) /\ \A i \in DOMAIN tests.tests : IsTest(tests.tests[i])
    /\ tests.unmocked_commands # Error /\ AreTexts(tests.unmocked_commands)
    /\ IsArray(results) /\ Len(results) <= Len(tests.tests)
    /\ \A i \in DOMAIN results : ResultIsOf(results[i], tests.tests[i])

MemoryPart == Active => ResultsFit

EndPart ==
    /\ pc \in {"open", "write", "report"} \/ Succeeded => AllRun
    /\ pc \in {"open", "write"} => AllPass /\ SomeRecorded
    /\ Succeeded => AllPass
    /\ report # {} => pc = "ended" /\ report = ReportLines

SessionInv == FilePart /\ MemoryPart /\ EndPart

(***************************************************************************)
(* scriptkeeper exits with 0 only if every test of the file was run and    *)
(* passed or was recorded.                                                 *)
(***************************************************************************)
SuccessMeansAllPass ==
    Succeeded =>
        /\ Len(results) = Len(tests.tests)
        /\ \A i \in DOMAIN results : results[i].verdict = Pass

(***************************************************************************)
(* After a success the file can be loaded and no hole is left in it, unless*)
(* something was written that is not read as it was meant: a text that is  *)
(* no command, the command _ that is taken for a hole, or an environment   *)
(* with a text that YAML has for another value.                            *)
(***************************************************************************)
ReadableStep(step) ==
    LET text == FormatMatcher(step.matcher)
    IN  text \notin NotCommands /\ ~(text = HoleText /\ step.exitcode = 0)

ReadableEnv(env) == \A key \in DOMAIN env : key \notin NotStrings /\ env[key] \notin NotStrings

Readable(test) == ReadableEnv(test.env) /\ \A i \in DOMAIN test.steps : ReadableStep(test.steps[i])

HolesFilled ==
    Succeeded =>
        (Complete(Load(file)) <=> (SomeRecorded => \A i \in DOMAIN results : Readable(results[i].test)))

(***************************************************************************)
(* Whoever fails is reported, whether or not other tests were recorded,    *)
(* and under the number that the test has in the file if none was.         *)
(***************************************************************************)
FailuresAreReported ==
    pc = "ended" /\ report # {} =>
        \A i \in DOMAIN results : results[i].verdict = Failure =>
            \E line \in report :
                /\ line.test = i
                /\ Len(results) > 1 /\ ~SomeRecorded => line.number = i

(***************************************************************************)
(* The file is touched only in a session in which every test passed or was *)
(* recorded and one was recorded: a failing test keeps its neighbours'     *)
(* holes unfilled.                                                         *)
(***************************************************************************)
TouchedOnlyByRecording ==
    [][file' # file => AllRun /\ AllPass /\ SomeRecorded]_sessionVars

(***************************************************************************)
(* A file whose tests have no hole is never changed again, in no session.  *)
(***************************************************************************)
CompleteFileIsKept ==
    [][Complete(Load(file)) => file' = file]_sessionVars

(***************************************************************************)
(* Filling a hole keeps everything that the file said: it is loaded as     *)
(* what was recorded.  Limited to what can be serialized, and not limited. *)
(***************************************************************************)
Serializable(test) ==
    /\ {test.cwd, test.stdout, test.stderr} = {NoValue} /\ test.mocked_files = <<>>
    /\ FormatArguments(test.arguments) = test.arguments
    /\ Readable(test)
    /\ \A i \in DOMAIN test.steps :
        /\ test.steps[i].matcher.kind = "exact" /\ test.steps[i].stdout = NoText
        /\ FormatCommand(test.steps[i].matcher.text) = test.steps[i].matcher.text

Written == Succeeded /\ SomeRecorded

FilledFileIsRead ==
    Written /\ (\A i \in DOMAIN results : Serializable(results[i].test)) =>
        Load(file) = FilledTests

FieldsKept ==
    Written => Load(file) = [FilledTests EXCEPT !.interpreter = tests.interpreter]

(***************************************************************************)
(* An exit code of a step is the number that the file has for it, if that  *)
(* is not below the range of an i32; one above the range is refused.       *)
(***************************************************************************)
GivenExitcode(node) ==
    IF node[1] = "hash" /\ "exitcode" \in DOMAIN node[2] THEN node[2]["exitcode"][2] ELSE 0

ExitcodesAreKept ==
    pc = "run" /\ file[1][1] = "hash" /\ "steps" \in DOMAIN file[1][2] =>
        \A i \in DOMAIN tests.tests[1].steps :
            LET given == GivenExitcode(file[1][2]["steps"][2][i])
            IN  given >= -IntegerLimit => tests.tests[1].steps[i].exitcode = given
=============================================================================
