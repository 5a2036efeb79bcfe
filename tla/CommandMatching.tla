--------------------------- MODULE CommandMatching ---------------------------
(***************************************************************************)
(* When is a command the expected one?  Executables are compared by what   *)
(* src/src/test_spec/executable_path.rs finds in the PATH, which differs   *)
(* from machine to machine.  Here a command is recorded on one machine,    *)
(* written to a test file in its short form, and compared on other ones.   *)
(***************************************************************************)
EXTENDS Naturals

CONSTANTS
    Names,          \* file names
    Directories,    \* directories, whether or not the PATH names them
    Arguments,      \* lists of arguments
    Bare,           \* the directory of a name without one
    Nowhere         \* what a lookup in the PATH finds, if nothing

ASSUME MatchingAssumption ==
    /\ Bare \notin Directories
    /\ Nowhere \notin Directories
    /\ Bare # Nowhere

Executables == [dir: Directories \cup {Bare}, name: Names]
Commands == [executable: Executables, arguments: Arguments]

\* What `which` finds for every name: the PATH and the files of a machine.
Machines == [Names -> Directories \cup {Nowhere}]

VARIABLES
    machine,        \* where scriptkeeper runs now
    script,         \* the command the script contains
    original,       \* the command it contained when the test was recorded
    expected,       \* the recorded command
    stage,          \* "new", "recorded", "compared"
    verdict         \* whether the command compared last was the expected one

matchVars == <<machine, script, original, expected, stage, verdict>>

-----------------------------------------------------------------------------
Canonicalize(m, e) ==
    IF m[e.name] # Nowhere /\ e.dir = m[e.name]
    THEN [dir |-> Bare, name |-> e.name]
    ELSE e

\* Broken: executables are compared as they are.
CompareVerbatim(m, a, b) == a = b

CompareExecutables(m, a, b) == Canonicalize(m, a) = Canonicalize(m, b)

\* CommandMatcher::ExactMatch
Compare(m, expectation, command) ==
    /\ CompareExecutables(m, expectation.executable, command.executable)
    /\ expectation.arguments = command.arguments

\* Broken: the path is recorded as it is.
FormatInFull(m, command) == command

\* Command::format, as far as the executable goes.
Format(m, command) ==
    [command EXCEPT !.executable = Canonicalize(m, command.executable)]

\* What an interpreter of the script passes to execve: names are looked up.
Executed(m, command) ==
    IF command.executable.dir = Bare /\ m[command.executable.name] # Nowhere
    THEN [command EXCEPT !.executable.dir = m[command.executable.name]]
    ELSE command

-----------------------------------------------------------------------------
Init ==
    /\ machine \in Machines
    /\ script \in Commands
    /\ original = script
    /\ expected = script
    /\ stage = "new"
    /\ verdict = FALSE

Record ==
    /\ stage = "new"
    /\ expected' = Format(machine, Executed(machine, script))
    /\ original' = script
    /\ stage' = "recorded"
    /\ UNCHANGED <<machine, script, verdict>>

Check ==
    /\ stage = "recorded"
    /\ verdict' = Compare(machine, expected, Executed(machine, script))
    /\ stage' = "compared"
    /\ UNCHANGED <<machine, script, original, expected>>

\* The test file, or the machine, or the script, is another one.
Change ==
    /\ stage = "compared" \/ stage = "recorded"
    /\ machine' \in Machines
    /\ script' \in Commands
    /\ stage' = "recorded"
    /\ UNCHANGED <<original, expected, verdict>>

Next == Record \/ Check \/ Change

Spec == Init /\ [][Next]_matchVars

-----------------------------------------------------------------------------
TypeOK ==
    /\ machine \in Machines
    /\ script \in Commands /\ original \in Commands /\ expected \in Commands
    /\ stage \in {"new", "recorded", "compared"}
    /\ verdict \in BOOLEAN

\* The file that executing e on machine m starts.
Resolve(m, e) ==
    IF e.dir = Bare /\ m[e.name] # Nowhere THEN [e EXCEPT !.dir = m[e.name]] ELSE e

(***************************************************************************)
(* A command is the expected one exactly if executing the two would start  *)
(* the same file with the same arguments on this machine: the comparison   *)
(* of canonical forms of executable_path.rs is neither stricter nor laxer. *)
(***************************************************************************)
ComparesFiles ==
    stage = "compared" =>
        (verdict <=> /\ Resolve(machine, expected.executable)
                            = Resolve(machine, Executed(machine, script).executable)
                     /\ expected.arguments = script.arguments)

(***************************************************************************)
(* A recorded test is portable: a script that runs a command by its name   *)
(* passes on every machine that has the command, wherever it is installed. *)
(* Canonicalizing when the command is formatted and again when it is       *)
(* compared work together.                                                 *)
(***************************************************************************)
NamesArePortable ==
    /\ stage = "compared"
    /\ script = original
    /\ original.executable.dir = Bare
    /\ machine[script.executable.name] # Nowhere
    => verdict

(***************************************************************************)
(* The inductive invariant: a command that a script runs by its name is    *)
(* recorded by its name, without the directory it was found in.            *)
(***************************************************************************)
NamesAreRecorded == original.executable.dir = Bare => expected = original

MatchInv == TypeOK /\ NamesAreRecorded
=============================================================================
