# Verification of scriptkeeper in TLA+

scriptkeeper tests scripts without running what they run.  It starts a script
under `ptrace`, lets the commands of the script be replaced by mock executables,
compares them with the steps of a test file `<script>.test.yaml`, and can fill
*holes* in test files with what a script really does.  This directory models the
crate `src/` in TLA+, checks the models with TLC and proves theorems about them
with TLAPS.  Line numbers below are of `src/src/...`.

## 1. Inventory

| component | state | operations | what makes it correct |
|---|---|---|---|
| **Tracer** `tracer/mod.rs` | `tracee_pid`, `entered_syscalls` (per pid, the syscall that was entered), the `SyscallMock`, the relay threads; in the kernel: the tracees | `run_against_mock`, `fork_with_child_errors`, `trace`, `handle_wait_status`, `update_syscall_state`, `handle_syscall` | each stop is known for an entry or an exit; each syscall is shown to the mock once; each run ends, with a verdict only when there was a script and all its output was read |
| Syscall table `tracer/syscall.rs` | none | number to name | the names that matter are told apart |
| StdioRedirecting `tracer/stdio_redirecting.rs` | three pipes, relay threads, captured bytes | `new`, `child_redirect_streams`, `join` | all that is written is relayed and captured, in order |
| TraceeMemory `tracer/tracee_memory.rs` | none, changes that of a tracee | `peek_*`, `poke_*` | reads what is there, overwrites nothing else |
| Debugger `tracer/debugging.rs` | clock, flags | printing | – |
| **TestChecker** `test_checker/` | the steps left, the first error, the mock executables | `handle_execve_enter`, `handle_getcwd_exit`, `handle_stat_exit`, `handle_end`; the mock executable itself | the verdict is the one of the test on the whole run; the nth mock behaves like the nth step |
| **Recorder** `recorder/mod.rs` | the test so far, one slot for the command that runs | `handle_execve_enter`, `handle_exited`, `handle_end` | what is recorded is what happened |
| **HoleRecorder** `recorder/hole_recorder.rs` | a checker or a recorder | as above, and becoming a recorder at the hole | nothing is executed before the hole; a deviation before it is reported |
| **RecorderResult** `recorder/result.rs`, `test_checker/checker_result.rs`, `lib.rs` | loaded tests, results, the test file | `collect_results`, `handle_recorded`, `handle_results`, exit code | file, report and exit code agree |
| **TestSpec** `test_spec/mod.rs`, `yaml.rs` | none | parsing and serializing of tests | what is written can be read and says the same |
| **Command** `test_spec/command.rs`, `argument_parser.rs` | the input of the parser | `Command::new`, `format`, `Parser` | formatting is the inverse of parsing |
| **CommandMatcher** `test_spec/command_matcher.rs`, `executable_path.rs` | none, reads the file system | `canonicalize`, `compare_executables`, anchored regexes | equal means: the same program |
| ShortTempFiles `utils/short_temp_files.rs` | files in `/tmp` | `new`, `drop` | a path as short as any path it replaces, unique, there while needed |
| Cli, Context | none | arguments, standard streams | – |

How they interact.  `lib.rs` loads the tests and has `RecorderResult` run the
script once for each.  A run makes a new `Tracer`, which owns one mock: a
`TestChecker`, a `HoleRecorder` for a test that ends with a hole, or a `Recorder`
for `--record`.  The tracer calls the mock back at the entry of each `execve`
(except those of the process that runs the script), at the exit of each `getcwd` and
`stat`, when a process exits, and at the end.  The checker answers by writing into
the memory of the stopped process: the path of a mock executable over the path of
the command, a directory or a `stat` structure over the result.  The mock
executable is a file of two characters in `/tmp` whose interpreter is scriptkeeper
itself.  Relay threads read the pipes that the script writes to.  The results of
all runs decide whether the test file is rewritten, what is reported and the exit
code.

What is hard here: stops of many processes come in any order and an entry looks
like an exit; pids are reused and processes stay behind; processes are
killed between a stop and its handling; the mock is changed by commands of processes
that know nothing of each other; a checker turns into a recorder while commands
are in flight; the test file is parsed, changed in memory, truncated and written
anew.  `PROJECT.json` lists these as hazards, each at its line.

## 2. Modules

| module | models | extends or instantiates |
|---|---|---|
| `Tracees` | the processes as the kernel runs them (environment of the tracer) | |
| `Tracer` | `tracer/mod.rs`, several runs of a session | `Tracees` |
| `TracerInvariant`, `TracerProofs` | its inductive invariant and theorems | `Tracer` |
| `TestVerdict` | abstract: a judgement on a whole run | |
| `TestChecker`, `TestCheckerProofs` | `test_checker/`, implements `TestVerdict` | INSTANCE `TestVerdict` |
| `MockedRun` | the tracer with the mock and with the programs that processes really execute | `Tracer`, INSTANCE `TestChecker` |
| `MockedRunInvariant`, `MockedRunProofs` | its inductive invariants and theorems | `MockedRun`, `TracerProofs` |
| `Recorder` | `recorder/mod.rs` | |
| `HoleRecorder` | `recorder/hole_recorder.rs`, scripts with concurrent and nested commands | `Recorder`, INSTANCE `TestChecker` |
| `HoleRecorderInvariant`, `HoleRecorderProofs` | its inductive invariant and theorems | `HoleRecorder`, INSTANCE `TestCheckerProofs` |
| `ByteStream` | abstract: a reliable first-in first-out stream | |
| `Redirector` | `tracer/stdio_redirecting.rs`, implements `ByteStream` | INSTANCE `ByteStream` |
| `OutputRun` | the tracer with the pipes, the relay threads and processes that write | `Tracer`, `Redirector` |
| `OutputRunProofs` | theorems about `Redirector` and `OutputRun` | `OutputRun`, `TracerProofs` |
| `ShortTempFiles` | `utils/short_temp_files.rs`, several scriptkeepers and other programs in `/tmp` | |
| `TraceeMemory` | `tracer/tracee_memory.rs`: peeks and pokes in words | |
| `MockExecutables` | from the command in the memory of a process to the file that the kernel executes | `ShortTempFiles`, `TraceeMemory` |
| `MockExecutablesProofs` | theorems about these three, and their inductive invariant | `MockExecutables` |
| `CommandLine` | `command.rs`, `argument_parser.rs` | |
| `CommandMatching` | `executable_path.rs` and exact matchers | |
| `AnchoredRegex`, `CommandMatcher` | `command_matcher.rs` | `CommandMatching` |
| `CommandProofs` | theorems about `CommandMatching`, `CommandMatcher` and `CommandLine` | `CommandMatcher`, `CommandLine` |
| `TestSpec` | `test_spec/mod.rs`, `yaml.rs` | |
| `Session`, `SessionProofs` | `lib.rs`, `recorder/result.rs`, `checker_result.rs` | `TestSpec` |
| `MC...` | small instances for TLC | the module of that name |

The correspondence of each definition with lines of the source is in
`PROJECT.json` under `map`.  Definitions marked *Broken* in a comment are not part
of the model: each is a definition with a plausible mistake, and stands beside the
one it could replace to show that a property notices the mistake.

**Tracees and Tracer.**  `pstate` says what each process does: running its code,
running in a syscall, stopped at an entry or an exit, by a signal or by a fork event,
or a zombie.  The kernel's actions (`EnterSyscall`, `CompleteSyscall`, `ForkChild`,
`Signal`, `Fault`, `Kill`) are interleaved with those of the tracer.  The tracer waits
(`Wait`), has a status in hand (`status`) and handles it; between the two a process may
be killed.  Every `ptrace` call that finds its process gone returns ESRCH
(`TraceeVanished`).  One action stands for the handling of one status, since nothing
but a kill can happen to a stopped process in between.  The root process starts as
scriptkeeper's own child (`child = "starting"`); if redirection or the `execve`
fails (`ChildFailsEarly`, `ChildExecve`), it writes an error file and exits with 0, or
cannot even write that file, when nothing tells of its failure (`ChildFails`).
`ReturnFromRun` reads the file after whatever the parent's closure returned.
Sets of processes and `writers` model which processes hold the write ends of the
pipes: `JoinStreams` waits until there is none.  A session is a sequence of runs; what
one run leaves is still there to be returned by the `wait` of the next.
`used` and `suspect` are history: which pids were used in this run, and which
processes carry a used pid or come from an earlier run.

**TestChecker.**  One action per callback.  A matcher is whatever accepts a set of
commands, so that the module covers exact matchers and regular expressions.
`HandleEnd` looks at leftover steps, exit code, stdout and stderr in the order of the
code.  `TestVerdict` judges the whole list of commands at once; the refinement maps
`received` and `verdict` to themselves.

**MockedRun** adds to every process the program it runs (`image`), the argument of its
syscall in its memory (`arg`) and what a `getcwd` or `stat` told it (`answer`).  The
callback changes `arg` at the entry of the `execve`; the kernel acts on whatever
`arg` is when the syscall is completed.  Signals, faults, kills, failing callbacks and
second runs are left to `Tracer`; a root that fails to start without a word is not, since
its run ends like one of a script that executes nothing: `PassNeedsScript` says when such
a run is a pass.

**HoleRecorder** has processes that execute commands one after the other, at
once, or nested in a command that really runs.  `truth` is the list of what really
happened.  Processes that execute no command exit too, subshells and forked builtins
(`BystanderExits`), and their exits reach the recorder like any other; `interrupted` is
history, whether that happened while a command was running.  `Sequential`, the
precondition of `SequenceIsRecorded` and `RecordedTestPasses`, is that there were no two
commands at once, none in another, and no such exit.
`LoadMock` is the moment when a mock executable reads its own file.  Exit
codes of steps are integers, those of processes are taken modulo `Codes`
(`ProcessCode`), as `exit(2)` keeps a byte.

**Redirector and OutputRun.**  Per stream, `pipe` is what is in the pipe, `relay` what
its thread does next, `buffer` its 1024 bytes, `out` what the terminal of scriptkeeper
got, `captured` what the verdict sees, and `written` the history of what processes
wrote.  `Read` takes what is there up to the size of the buffer; `WriteAll` and
`CaptureAll` are separate steps, as the code does them one after the other;
`WriteFails` is a terminal that takes a part and then fails, after which nobody reads
the pipe.  `OutputRun` conjoins the actions of `Tracer` and `Redirector`: the pipe is
`open` as long as `writers` of `Tracer` is not empty, the syscall "other" of `Tracer`
is a `write` of several bytes, which can only complete when all of them are in the
pipe, and `JoinStreams` waits for both threads (`JoinBoth`) or gets the error of one
(`JoinOneFails`).

**ShortTempFiles.**  `names` is the two-character iterator with its three fields,
`pc` where a scriptkeeper is in `ShortTempFile::new` or in a `drop`, `files` the
directory.  Creation is one step (`O_EXCL`), writing the contents another, and
everything may happen in between: other scriptkeepers and programs create and remove
files, a cleaner removes any file, a scriptkeeper is killed and leaves its files
behind.  `freed` is history: the names that became free while a scriptkeeper was
looking for one; `cleaned` are the names a cleaner removed.

**TraceeMemory and MockExecutables.**  A memory is a function from addresses to bytes;
peeks and pokes are of whole words, least byte first, as in the code, and fail if a
word is not mapped.  A `fork` copies the memory, a `vfork` shares it.  One execve is
`Execve` (the process stops), `HandleExecveEnter` (the command is peeked, a file is
begun), the steps of `ShortTempFiles`, `PokePath` and `KernelExecve`, which looks up
what the path in memory names *then*.  `mock` is the file that was made for the
command, `tainted` the address spaces in which a path was overwritten.  What a script
passes to `execve` is a constant, `Call`; `CallAssumption` says of it what the ABI asks
for: the path and the pointers of `argv` lead to strings that end, a null pointer ends
the array, there is a program name, and the buffers that the script has for its queries
(`Queried`) are elsewhere.  A child of a `vfork` makes no other `vfork`, a bound of
`Vfork`: it is there to execute something.

**Session** has the test file as a sequence of YAML documents, and each test's
outcome nondeterministic.  Opening truncates (`OpenFile`), and a write may
be cut off (`CutOff`).  The report is a set of lines, each with the number that
`enumerate` gives to a test.  A scriptkeeper that is killed is started again.
**TestSpec** works on YAML trees, not on their text; `IsYaml` and `IsTest` say what
trees and tests are.  A command is named by a text that is read as it.  Constants say which
texts are refused (`NotWords`, `NotRegexes`), which are written as another text
(`AlteredCommands`, `AlteredArguments`: the executable is not quoted, empty arguments are
lost), and which YAML has for another value (`NotStrings`: `1`, `true`, `null`), so that an
env with them is written as something else (`FromText`) and refused when it is read
(`ExpectEnv`).  `Readable` says of a test that all that is written of it is accepted again
by the parser, and is no hole.  **CommandLine** takes the
parser one character after the other, over a text and then over what the formatter makes of
it.  **CommandMatching** has several machines,
since a test is recorded on one and run on others.

## 3. Runs

| run | instance | shows |
|---|---|---|
| `tracer` | 3 pids, 3 syscalls per process, 2 runs; forks, signals, faults, kills, pid reuse, background processes, failing callbacks and relays | `entered_syscalls` agrees with the kernel (`PhaseAgrees`), each syscall is shown once (`ShownExactlyOnce`), the wrong-syscall error needs a reused pid or a left process, a start that failed never ends in a verdict unless the error file could not be written (`FailedStartIsReported`), a verdict leaves only orphans; `IInv` is the inductive invariant of the proofs |
| `checker` | tests of up to 2 steps, up to 3 commands, 2 outputs, 2 exit codes | the incremental checker implements the abstract judgement; mocks follow the steps |
| `hole` | up to 4 commands of 2 processes, up to 2 steps before the hole, or `--record` | what a sequential script does, in which nothing else exits while a command runs, is what is recorded and passes again; a deviation is reported; nothing runs before the hole; mocks exit as their steps say (`StepsAreObeyed`) |
| `hole_pipeline` (violated) | `--record`, 2 processes, other processes that exit | the recorder has one slot, which any exit empties |
| `run` | 3 processes, 4 syscalls each, pid reuse, up to 3 checked commands, a mocked cwd and a mocked file | no command runs unmocked but those of the root, no process acts on an answer that should be mocked, each `execve` is checked once, and a test whose script was never started passes only if it has no steps and expects exit code 1 (`PassNeedsScript`) |
| `command_line` | all texts of up to 5 characters over plain, `n`, space, quote, backslash, newline | words survive formatting and parsing; formatted arguments are never refused |
| `matching` | 2 names, 2 directories, all PATHs that result; all regexes of up to 2 alternatives of 2 parts | equal means same file; recorded names are portable; anchoring |
| `regex_alternatives` (violated) | as above, parts of length 1 | a match that is not of the entire command |
| `session` | up to 3 tests, or one with any set of fields, or something refused; 2 sessions | success means all pass, a filled file can be loaded exactly if its recorded tests are `Readable`, and then says what was recorded if it can be serialized, failures are reported, the file changes only after success and never without a hole |
| `session_fields` (violated) | one test with any fields | fields are dropped by filling a hole |
| `mocks` | 2 scriptkeepers with up to 3 mocks on 4 names, 2 processes, words of 4 bytes in a memory of 42, 1 query | each mock has its own file (`MockIsOwn`), foreign files are kept, the names run out only when they are used up, the checker sees the command in memory, and the process starts its own mock; mocked answers are complete and overwrite nothing but the end of a word |
| `output` | 2 processes that write 2 bytes at a time and fork, 2 streams, pipes and buffers of 2 bytes, 2 runs; kills in a write, failing relays | the verdict has all output; a run always returns unless a process is stuck behind a failed relay; the relays implement `ByteStream` |

**Bounds.**  Three pids are a root, a child and a grandchild or sibling: the hazards of the
tracer are about two processes interleaved, and a third that reuses a pid or stays
behind.  Three syscalls, signals or faults of each process suffice to fork, execute and
query.  `tracer` leaves out `stat`, which the tracer treats like `getcwd`; `run` has it.  Two runs are what it
takes for something to be left by one to the other.  Two steps are a first and a
last one, three commands one more than the steps; the proofs of `TestChecker` remove
this bound.  Four commands in `hole` are two before and two after the hole.  Five
characters hold a quoted word with an escape, or two words with a special
character.  `IntegerLimit` stands for 2^31 and is scaled down to 4, since only the two
sides of each end matter.  `FewQueries` in `run` leaves out `getcwd` and `stat` in
states where a third process exists or a mocked command was executed, to keep
the instance small; the queries of two processes remain interleaved with everything
else.  `RootExecsFirst` does the same for an `exec` of the root.  In `mocks` a word
has 4 bytes, so that a path of 3 fits as one of 7 does in the code; the memory holds a
path shorter than a word with its argument right behind it, buffers that are a whole
number of words and one that is not, and a command at the very end of the mapping; four names,
of which one is always in use and one comes and goes, let the names run out.  `MCBound` allows
only one of the rare things (a query, a second scriptkeeper, a failure, a cleaner) in a
behaviour; `Undisturbed` keeps queries apart from what goes on in `/tmp`, with which
they share nothing.  In `output` two bytes fill the pipe and the buffer, so that writers
block and relays take parts of writes; the proofs remove these bounds.  Process ids are
symmetric, since no definition orders them; `output`, which checks liveness, uses no
symmetry.

**Deadlock** is checked everywhere except in `tracer` and `output`, where joining
the relay threads may block for ever, and so does the real program, and in `mocks`, where
scriptkeepers stop.

**Fairness** (`OutputSpec`).  Weak fairness of `Tracing`: the tracer is one thread that
blocks only in `wait` and in `join`, and both return when the kernel has something
for it.  Weak fairness of each process's `Process`: the kernel schedules every runnable
process, and a `write` goes on when there is room; the bound `Fuel` makes scripts
terminate, as the property is only about the tracer.  Weak fairness of each `Relay`: it
is a thread that blocks only on an empty pipe.  Nothing forces a signal, a kill or a
failing relay.  `OutputRunAssumption` excludes faults and background processes, with
which a run need not return (section 5).

**Violated runs** each check one statement of the README of the repository that the
code does not keep; `PROJECT.json` quotes them under `findings`.  The
corresponding limited properties (`SequenceIsRecorded`,
`SingleMatchesEntireCommand`, `FilledFileIsRead`) hold.

## 4. What is proved

All with `tlapm`, for every value of the constants that satisfies the assumptions
named in the modules.  TLC found each inductive invariant to hold on the instance of
the run before it was proved.

* **Tracer** (`TracerProofs`).  `IInv` of `TracerInvariant` is inductive.  `PhaseAgrees`
  alone is not: a stop in hand must fit the state of its process (`StatusHolds`), an
  unused pid must not be in the table (`PidsUsed`), the process in a fork must be in
  that syscall (`SyscallKnown`), and no step of the tracer may follow an error
  (`ErrorEndsTrace`).  `FailedStartIsReported` rests on `StartingRoot`: the root
  makes no other syscall than its `execve` until that returns, so that a root that exited
  normally has started the script, written the error file, or failed to write it.  One lemma
  per action shows that it keeps `IInv`.  From it follow `PhaseCorrect`, `MockInformed`,
  `VerdictSound` and `AssertionSound`.  `VerdictLeavesOrphans` needs a second invariant,
  `FamilyInv`: the root stays away once its exit was waited for, parents are alive, and
  nobody is an ancestor of itself, so that the eldest process of those left has no parent.
* **TestChecker** (`TestCheckerProofs`).  `CheckerInv` says that steps, first error and
  mocks are functions of the commands received; it is inductive by the lemmas `ReportKept`
  and `ReportNew` on how a judgement changes with one more command.  From it
  `CheckerImplementsVerdict`: every step of the checker is a step of `TestVerdict` or
  a stutter.
* **HoleRecorder** (`HoleRecorderProofs`).  All seven invariants of the run `hole`, for
  any number of processes and commands.  `IInv` of `HoleRecorderInvariant` relates what
  the checker received (`ReportPart`; its step is the one that `TestCheckerProofs`
  proves, by an instance of that module), what the processes run (`ProcessPart`), and the
  history `truth`: without nested commands, what was received is a prefix of it
  (`TruthPart`).  `StepsAreObeyed` needs `MockIsNth`: the mock a process was given is that
  of its position in `truth`, as long as a checker decides.  `SequenceIsRecorded`
  needs `SequencePart`: the recorded steps are `truth` without the command that runs,
  which is in the slot; it holds until some other process exits while a command runs.
  `ExitcodeIsTrue` says which exit code is expected of the script in both cases, also in
  the one where it is the wrong one (`SuccessForgotten`).  `RecordedTestPasses` then is a fact about the judgement of
  `TestVerdict` on that list.
* **MockedRun** (`MockedRunProofs`).  `MockedTracer`: the composition implements `Tracer`,
  so that `IInv` holds in it.  `CommandsAreMocked` is the conclusion of `MockingInv`.
  `PhaseAgrees` is not enough for it, as it says nothing of a process whose pid was
  used before: `EntriesKnown` says what entry such a process can find, namely the
  `exit_group` of its predecessor, which is never taken for an `execve`.  The rest is that
  a recorder stays at the hole (`RecorderAtHole`) and that between the callback and the
  kernel the argument is what the callback left (`ArgumentsKnown`).
  `AnswersAreMocked` needs that a result is still the kernel's when the exit stop is
  handled (`AnswersReal`).  `EveryCommandChecked` is a counting argument: the executions
  of a command are those checked and those `Pending` (`CountsAgree`), and with a verdict
  nothing is pending, since the root is gone and, by `FamilyStays`, nobody outlives
  its parent.  This is a theorem only without background processes: with them TLC finds a
  process that redirects its output away, outlives the script and is stopped at an
  `execve` that no one looks at any more.  `PassNeedsTheScript` rests on `UnstartedInv`: of
  a script that was not started nothing reaches the mock, and its run ends with exit code
  1, so that only a test without steps that expects this code can pass.
* **CommandMatching** (`CommandProofs`).  `FilesCompared`, `RecordingIsPortable`, for any
  machines and names.
* **CommandMatcher** (`CommandProofs`).  `NothingIsMissed` and `SingleIsEntire`: a regex
  without alternatives matches exactly the entire commands of its language;
  `RegexIsPortable`.  The first two rest on one lemma each about `IsMatch` and
  `InLanguage`; alternatives are where the second fails.
* **CommandLine** (`CommandProofs`).  `WordsSurvive` and `ArgumentsAccepted`, for texts of
  any length.  `LineInv` says where the parser is in the formatted text (`Position`):
  after some words and letters of the next word, and what is left of the text is what the
  formatter makes of the letters and words that are left.  It is inductive because each
  character or escape that the parser takes is what `EscapeChar` made of one letter
  (`NextLetter`), a word has no bare quote or space that would end it early, and it ends
  where the formatter ended it (`NoLetter`).  Quotes are written if the *escaped* word has
  a space, so that the proof needs that escaping neither adds nor removes one
  (`EscapeKeepsSpaces`).  An empty word leaves no trace in the text; then the parser
  loses count, which the invariant allows, but never its place, so that arguments
  are accepted even so.  An executable is written as it is, and the invariant says
  nothing of a command whose executable is not plain or that has an empty argument.
  What `FlattenSeq`, a recursive function, returns is found by `SetInduction`, induction
  over the natural numbers stated for a set, which follows from the library's theorem that
  `<` is well-founded; the induction theorems of the library themselves are out of
  reach, as they take an operator.
* **Session** (`SessionProofs`).  All properties of the run `session`, for any test
  files, recordings and exit codes, and any number of sessions.  `SessionInv` says that
  until it is truncated the file is what was loaded (`FilePart`), that results are results
  of the tests in memory, which are well-formed, and recorded only where there was a hole
  (`MemoryPart`), and what is known at the end (`EndPart`).  `SuccessMeansAllPass`,
  `FailuresAreReported` (with the cardinality that `enumerate` computes) and the two action
  properties follow from it.  `ExitcodesAreKept` rests on lemmas about
  what is read: each function of `TestSpec` returns `Error` or something well-formed.
  `HolesFilled` and `FilledFileIsRead` rest on the round trip `TestsAreReadBack`: what
  `Serialize` writes is accepted by `Load` and has the fields that were written.
  These two theorems have the hypothesis `SymbolsAreApart`: the symbols `Error`,
  `Missing` and `Garbage` are not functions, so that no parsed test or file is one of
  them.  Model values of TLC are like that, but TLC cannot evaluate it as an assumption.
  `HolesFilled` is an equivalence: a recorded file can be loaded exactly if what was
  written of each test is `Readable`.  The converse is `OnlyReadableFileIsLoaded`: an env
  with `NotStrings`, a command that is written as `_` or as no command at all is refused or
  read as a hole.  `FilledFileIsRead` asks of a file, besides, that writing alters no text
  (`Serializable`).
* **ShortTempFiles** (`MockExecutablesProofs`).  For any number of scriptkeepers and names.
  `MockIsOwn` is inductive only together with the facts that a file being written is
  owned in the same way (`WrittenIsOwn`) and that the serials of a scriptkeeper's mocks rise
  (`SerialsRise`), so that no two mocks have the same file;
  `RanOutMeansFull` rests on the lemma that advancing the iterator adds exactly one name
  to those tried.  `ForeignFilesAreKept` is an action property that follows from the
  ownership of what is written and dropped.
* **TraceeMemory** (`MockExecutablesProofs`).  What the functions return, for memories of
  any size, any number of values of a byte, and words of four bytes: `RoundTrip`,
  `PeekStringIs`, `PeekStringArrayIs`, `PokeStringAt`.  `peek_string` and `poke_string`
  are recursive functions, which the provers know only by a `CHOOSE`; first there is
  a function that satisfies the definition (`ChainExists`, by `SetInduction`,
  induction over the natural numbers stated for a set, since the induction theorems
  of the library take an operator), then what it yields is found by the same
  induction, from the word in which the string ends backwards.  Words are calculated in
  Horner's form, one byte after the other (`LeastByte`), as the provers do not
  calculate with powers.
* **MockExecutables** (`MockExecutablesProofs`).  All properties of the run `mocks`, for
  any number of processes, any image, commands, buffers and directories.  The inductive
  invariant `IInv` consists of the one of the directory (`FilesInv`), types, and:
  the registers of a process in a syscall hold its arguments (`RegistersTyped`);
  who shares the memory of another one has suspended it by a `vfork`, so that two
  running processes never share one (`Shared`, `Alone`); while the mock is made the
  `execve` waits, with a path whose first word is mapped because it was read
  (`CallbackWaits`); the path of a process that is about to execute names the mock with
  the serial it was given (`PathWritten`); and a memory that is not tainted is as in the
  image, but for the buffers of queries (`MemoryKept`).  `OwnMockIsStarted` alone is not
  inductive: it says nothing of a mock that is still written or already gone, and
  nothing of the path before it is executed.  That a serial keeps its name (`NamedStays`)
  is what connects a path written earlier with what the directory has later.  Each part of
  the invariant has a lemma for its step, with one case per action.  `Spec` is not an
  instance of `FilesSpec`, since a callback may fail between two steps of
  `ShortTempFiles`; `StepsMoveFiles` says what else happens in the directory, and
  `ScriptMocksAreOwned`, `ScriptRunsOutTruly` and `ScriptKeepsForeignFiles` state the
  properties of `ShortTempFiles` for the composition.
* **Redirector** (`OutputRunProofs`).  `NothingIsLost` (relayed, in the buffer and in
  the pipe, put together, is what was written) is the inductive invariant, for any
  capacity and buffer; with it `RelayIsReliable`: every step maps to one of `ByteStream`
  or to a stutter.
* **OutputRun** (`OutputRunProofs`).  `ComposedTracer` and `ComposedRedirector`: the
  composition implements both of its parts, so that their invariants can be used in it.
  `VerdictIsInformed` combines `IInv` of the tracer, `NothingIsLost` and two facts of
  the composition: the pipe is open exactly as long as there are writers (`Linked`), and
  a verdict comes only after both threads have ended (`ThreadsJoined`), when pipe and
  buffer are empty.

Only model-checked: the liveness property `RunsReturnUnlessStuck`, since fairness is out
of the prover's reach, and that the three statements of the violated runs fail.

## 5. What the models showed besides

Behaviour of the code that the models contain and that no document of the
repository contradicts, so that it has no run of its own:

* `join` waits for every process that holds the pipes.  A background process of the
  script is not continued any more once the root has exited, and `join` blocks for ever
  (`tracer/mod.rs:174`).
* Signals are not delivered when a tracee is continued (`mod.rs:193`): a faulting
  instruction is executed again for ever.
* A process that ends by `exit_group` or a kill leaves its entry in
  `entered_syscalls`.  Another one with its pid is misread and the run may end with
  "exiting with the wrong syscall" (`mod.rs:227`).
* The commands of the process that runs the script itself (`exec` in a shell script) are
  not shown to the mock (`mod.rs:244`): they are neither checked nor mocked, although
  the README of the repository speaks of all commands that the script executes.  `CommandsAreMocked` excepts them.
* A relay thread that cannot write ends and leaves the pipe unread: a process that
  writes more than the pipe holds blocks for ever, and scriptkeeper with it
  (`stdio_redirecting.rs:135`; `Stuck` in `OutputRun`).
* Strings are peeked in whole words: a command less than a word before the end of a
  mapping fails the run (`tracee_memory.rs:53`; `NearTheEnd`).
* The path of the mock is longer than a short path: what lies behind it in memory, often
  its arguments, is overwritten, which matters if the memory is used again, by the parent of
  a `vfork` or after a failed `execve` (`tainted` in `MockExecutables`).
* A mocked directory is written up to the end of a word, beyond a buffer that is no whole
  number of words; one that does not fit ends the run (`tracee_memory.rs:147`).
* Dropping a mock whose file was cleaned away panics, or removes the file that has its
  name by now (`short_temp_files.rs:65`); if writing a mock fails its file stays.
* Processes that an earlier run left are returned by the `wait` of the next one,
  and their commands are checked against the wrong test.
* A command that a recorded command executes is recorded too, and
  overwrites the slot of the outer one (`recorder/mod.rs:54`).
* At the hole the mock executables are deleted, which a mock that was started but
  has not read its file yet does not survive (`hole_recorder.rs:57`).
* A script that ends before the hole, without a deviation, is recorded; its missing
  steps are not an error.  An exit code of 0 is not recorded over another.
* A test with a hole ignores `cwd` and `mockedFiles`: `HoleRecorder` has no handler for
  these callbacks.
* If the child cannot write its error file (`mod.rs:376`, `/tmp` is full), it exits with 1
  and says nothing to its parent, which judges a run in which no script was started.  A test
  without steps that expects exit code 1 passes; one with a hole is recorded.
* The exit of any process but the root reaches the recorder (`mod.rs:190`,
  `recorder/mod.rs:62`).  In `echo foo | grep bar` the subshell that runs `echo` may exit
  first, and `grep` is recorded with its exit code.
* The texts of an env are written as YAML that is not quoted (`test_spec/mod.rs:345`): `1`,
  `true` and `null` are numbers, booleans and nothing for the next load, which refuses the
  file that was written with success.
* Empty arguments are lost by formatting, and the executable of a command is neither
  quoted nor escaped (`command.rs:40`): a recorded command may be read as another one, or
  not at all.
* A mock exits with the lower byte of the exit code of its step (`executable_mock.rs:38`):
  a step with exit code 256 succeeds.
* A process that is killed between a stop and the handling of it ends the run with ESRCH,
  and with it the whole session (`mod.rs:207`).
* The file is truncated before it is written; a kill or an error in between loses all
  tests.
* Numbers below the range of an i32 wrap (`yaml.rs:55`).
* The numbers of the report do not count recorded tests; a regex is written back as a
  command, and the command `_` of a step `{command: _}` as `_`, which is then read as a hole
  (`mod.rs:78`, `mod.rs:230`).

## 6. Limits

* *Threads.*  `PTRACE_O_TRACECLONE` is not set: threads are not traced, and not modelled.
* *Kills with pid reuse* can make `CommandsAreMocked` fail: an entry of a killed process
  makes the first entry of the next one look like an exit.  `Tracer` has both;
  `MockedRun` has no kills.
* *`stat`* stands for the one syscall of that name; `lstat`, `fstat` and `statx` are not
  mocked and are "other".
* `CommandLine` leaves out the canonicalization that formatting does and bytes that are
  not UTF-8.
* `TestSpec` does not spell texts: two texts for commands with the same words and the same
  canonical executable are one, and which texts are altered is a constant.  What becomes
  of each text is in `CommandLine`.
* What a child that fails without an error file prints before its first stop is not
  modelled.
* A process that executes a second command in its place (`exec`, `env`) is, in
  `HoleRecorder`, one whose first command never exits; `MockedRun` has such processes.
* `Session` has the effect of a hole; `--record` is in `HoleRecorder` only.
* Processes that are detached when scriptkeeper exits with an error run on unmocked;
  the models end there, as nothing in the code decides any more what they do.
* The text of YAML is left to `yaml_rust`.
* `MockExecutables` has one kind of mapping; read-only memory and strings across two
  mappings are not modelled.  Which mock a command gets is left to `TestChecker`, the
  stops of the tracer to `Tracer`.
* `OutputRun` has only kills in the middle of a write; the other ones are in `Tracer`.
  The descriptors of read ends, which are never closed, are not counted.
* An edit of the test file during a session is lost; the code has no point where it could
  notice one, and `Session` has no editor.

## 7. Not modelled

`Debugger` prints what it sees and changes nothing.  `Cli` and `Context` parse arguments
and hold the standard streams.  Of the syscall table the names that the tracer tells apart
are modelled; the rest is data.  None of these parts has state that a property
could be about.
