--------------------------- MODULE MockExecutables ---------------------------
(***************************************************************************)
(* How a process comes to run a mock executable instead of a command, byte *)
(* by byte: handle_syscall of src/src/tracer/mod.rs reads the command from *)
(* the memory of the process, TestChecker (src/src/test_checker/mod.rs)    *)
(* makes the file of the mock and writes its path over that of the         *)
(* command, and the kernel executes what the path names by then.  The      *)
(* results of getcwd and stat are overwritten in the same memory.          *)
(*                                                                         *)
(* The processes are those of the script of one scriptkeeper, Mine; others *)
(* use the same directory.  A fork copies the memory, a vfork shares it    *)
(* and suspends the parent until the child has executed something.  Which  *)
(* mock a command gets is TestChecker's business; Tracer has the stops.    *)
(***************************************************************************)
EXTENDS ShortTempFiles, TraceeMemory

CONSTANTS
    Mine,        \* the scriptkeeper whose script runs
    Process,     \* the processes of the script, other than its root
    NoProcess,
    Image,       \* the memory of a process of the script at its start
    Call,        \* the commands the script executes: where path and argv are
    Buffer,      \* the buffers it has for getcwd: where they are and how big
    StatBuffer,  \* the addresses of its st_mode fields, which other fields follow
    RealCwd, MockCwd,   \* the directory, and the cwd of the test
    MockMode,    \* S_IFREG or S_IFDIR
    Slash,       \* stands for "/tmp/", which fills up the word
    MaxQueries   \* bound on the getcwd and stat calls

ASSUME MockExecutablesAssumption ==
    /\ Mine \in Keeper
    /\ NoProcess \notin Process
    /\ Image \in Memory
    /\ Call \subseteq [path : Address, argv : Address]
    /\ Buffer \subseteq [at : Address, size : Nat]
    /\ StatBuffer \subseteq {a \in Address : Mapped(a)}
    /\ MockMode \in Nat
    /\ {RealCwd, MockCwd} \subseteq Seq(Byte \ {0})
    /\ Slash \in Byte \ (0..Digits)
    /\ Word = 4
    /\ MaxQueries \in Nat

\* What the kernel and the mocks write: the buffers, half a word of each st_mode.
Queried ==
    {x \in Address : \/ \E b \in Buffer : x \in b.at..(b.at + b.size - 1)
                     \/ \E a \in StatBuffer : x \in a..(a + (Word \div 2) - 1)}

\* The n-th pointer of an array.
Pointer(argv, n) == Peekdata(Image, argv + n * Word)

IsString(a) ==
    \E e \in a..Size :
        /\ Image[e] = 0 /\ \A x \in a..(e - 1) : Image[x] # 0
        /\ (a..e) \cap Queried = {}

IsArgv(a) ==
    \E n \in 1..Size :
        /\ Pointer(a, n) = 0 /\ \A i \in 0..(n - 1) : Pointer(a, i) # 0
        /\ (a..(a + n * Word + Word - 1)) \subseteq Address \ Queried
        /\ \A i \in 1..(n - 1) : Pointer(a, i) \in Address /\ IsString(Pointer(a, i))

\* The script calls execve with strings that it does not overwrite itself, and with a
\* program name.
ASSUME CallAssumption == \A c \in Call : IsString(c.path) /\ IsArgv(c.argv)

VARIABLES
    pstate,      \* what each process is doing
    space,       \* its address space, named for the process it was made for
    memory,      \* the contents of each address space
    registers,   \* rdi and rsi of the syscall of each process
    callback,    \* the process whose execve is being handled, or NoProcess
    mock,        \* history: the serial of the mock each process was given
    tainted,     \* history: the address spaces in which a path was overwritten
    queries      \* bound: the number of queries so far

processVars == <<pstate, space, memory, registers, callback, mock, tainted, queries>>
vars == <<fileVars, processVars>>

(***************************************************************************)
(* none  no process of the script             user    runs its own code    *)
(* enter stopped at the entry of an execve       kernel  executes it       *)
(* getcwd, stat   stopped at the exit of that syscall                      *)
(* vfork suspended in a vfork                                             *)
(***************************************************************************)
ProcessState == {"none", "user", "enter", "kernel", "getcwd", "stat", "vfork"}

NoRegisters == [rdi |-> 0, rsi |-> 0]

\* When scriptkeeper ends its tracees are detached; the model ends there too, but
\* for an execve under way.
Runs(p) == pstate[p] = "user" /\ pc[Mine] # "stopped"

\* The tracer handles one stop after the other, until scriptkeeper ends.
Handling == callback = NoProcess /\ pc[Mine] = "idle"

-----------------------------------------------------------------------------
(***************************************************************************)
(* The processes and the kernel.                                           *)
(***************************************************************************)
Fork(p, c) ==
    /\ Runs(p) /\ pstate[c] = "none"
    /\ pstate' = [pstate EXCEPT ![c] = "user"]
    /\ space' = [space EXCEPT ![c] = c]
    /\ memory' = [memory EXCEPT ![c] = memory[space[p]]]
    /\ tainted' = IF space[p] \in tainted THEN tainted \cup {c} ELSE tainted
    /\ UNCHANGED <<fileVars, registers, callback, mock, queries>>

\* Bound: a child of a vfork has no child by a vfork; it is to execute something.
Vfork(p, c) ==
    /\ Runs(p) /\ pstate[c] = "none"
    /\ space[p] = p
    /\ pstate' = [pstate EXCEPT ![c] = "user", ![p] = "vfork"]
    /\ space' = [space EXCEPT ![c] = space[p]]
    /\ UNCHANGED <<fileVars, memory, registers, callback, mock, tainted,
                   queries>>

\* The parent in a vfork goes on when its child has a memory of its own.
Leaves(p) ==
    pstate' = [q \in Process |->
        IF q = p THEN "none"
        ELSE IF pstate[q] = "vfork" /\ space[q] = space[p] THEN "user" ELSE pstate[q]]

Execve(p, c) ==
    /\ Runs(p)
    /\ pstate' = [pstate EXCEPT ![p] = "enter"]
    /\ registers' = [registers EXCEPT ![p] = [rdi |-> c.path, rsi |-> c.argv]]
    /\ mock' = [mock EXCEPT ![p] = 0]
    /\ UNCHANGED <<fileVars, space, memory, callback, tainted, queries>>

\* The string at an address, as the kernel reads it.
StringAt(mem, a) ==
    LET end == CHOOSE n \in a..Size : mem[n] = 0 /\ \A m \in a..(n - 1) : mem[m] # 0
    IN  SubSeq(mem, a, end - 1)

FileToExecute(p) ==
    LET path == StringAt(memory[space[p]], registers[p].rdi) IN
    IF path \in {<<Slash>> \o n : n \in Name} THEN files[Tail(path)] ELSE NoFile

\* The mock of p was dropped, or its file cleaned away, before p started it.
MockIsGone(p) ==
    ~\E i \in DOMAIN temporary_executables[Mine] :
        /\ temporary_executables[Mine][i].serial = mock[p]
        /\ temporary_executables[Mine][i].name \notin cleaned

\* The kernel executes the file that the path names, with a memory of its own, or
\* returns ENOENT.  The mock executable is no process of the script any more.
KernelExecve(p) ==
    /\ pstate[p] = "kernel"
    /\ IF FileToExecute(p) # NoFile
       THEN /\ Leaves(p)
            /\ space' = [space EXCEPT ![p] = p]
            /\ memory' = IF space[p] = p THEN [memory EXCEPT ![p] = Image] ELSE memory
            /\ tainted' = IF space[p] = p THEN tainted \ {p} ELSE tainted
       ELSE pstate' = [pstate EXCEPT ![p] = "user"] /\ UNCHANGED <<space, memory, tainted>>
    /\ registers' = [registers EXCEPT ![p] = NoRegisters]
    /\ mock' = [mock EXCEPT ![p] = 0]
    /\ UNCHANGED <<fileVars, callback, queries>>

\* Bound: nothing happens in the directory, which the queries have nothing to do with.
Undisturbed ==
    /\ queries < MaxQueries
    /\ cleaned = {}
    /\ \A k \in Keeper \ {Mine} : created[k] = 0 /\ pc[k] = "idle"

\* The kernel writes the directory, or ERANGE is returned.
Getcwd(p, b) ==
    /\ Runs(p)
    /\ Undisturbed
    /\ queries' = queries + 1
    /\ pstate' = [pstate EXCEPT ![p] = "getcwd"]
    /\ registers' = [registers EXCEPT ![p] = [rdi |-> b.at, rsi |-> b.size]]
    /\ memory' = [memory EXCEPT ![space[p]] =
            IF Len(RealCwd) >= b.size THEN @
            ELSE [x \in Address |-> IF x \in b.at..(b.at + Len(RealCwd))
                                    THEN Append(RealCwd, 0)[x - b.at + 1] ELSE @[x]]]
    /\ UNCHANGED <<fileVars, space, callback, mock, tainted>>

\* The stat of a mocked file that does not exist writes nothing.
Stat(p, a) ==
    /\ Runs(p)
    /\ Undisturbed
    /\ queries' = queries + 1
    /\ pstate' = [pstate EXCEPT ![p] = "stat"]
    /\ registers' = [registers EXCEPT ![p] = [rdi |-> 0, rsi |-> a]]
    /\ UNCHANGED <<fileVars, space, memory, callback, mock, tainted>>

-----------------------------------------------------------------------------
(***************************************************************************)
(* The callbacks of the mock.                                              *)
(***************************************************************************)
PeekCommand(p) ==
    LET mem == memory[space[p]] IN
    <<PeekString(mem, registers[p].rdi), PeekStringArray(mem, registers[p].rsi)>>

CommandFails(command) == Failed(command[1]) \/ \E i \in DOMAIN command[2] : Failed(command[2][i])

\* handle_syscall reads the command; TestChecker::handle_step begins to make a mock.
HandleExecveEnter(p) ==
    /\ Handling
    /\ pstate[p] = "enter"
    /\ ~CommandFails(PeekCommand(p))
    /\ New(Mine)
    /\ callback' = p
    /\ UNCHANGED <<pstate, space, memory, registers, mock, tainted, queries>>

\* A ptrace call fails with EIO, or string_to_data refuses the string.
MemoryFails ==
    /\ Fails(Mine, "io")
    /\ UNCHANGED processVars

PeekFails(p) ==
    /\ Handling
    /\ pstate[p] = "enter"
    /\ CommandFails(PeekCommand(p))
    /\ MemoryFails

LastMock == temporary_executables[Mine][Len(temporary_executables[Mine])]

\* Broken: the path of the first mock is written again.
PokeFirstMock(p) ==
    /\ callback = p
    /\ pc[Mine] = "idle"
    /\ callback' = NoProcess
    /\ pstate' = [pstate EXCEPT ![p] = "kernel"]
    /\ mock' = [mock EXCEPT ![p] = LastMock.serial]
    /\ memory' = [memory EXCEPT ![space[p]] =
            PokeString(@, registers[p].rdi, <<Slash>> \o temporary_executables[Mine][1].name)]
    /\ tainted' = tainted \cup {space[p]}
    /\ UNCHANGED <<fileVars, space, registers, queries>>

\* The file is there: poke_single_word_string, and the process is continued.
PokePath(p) ==
    /\ callback = p
    /\ pc[Mine] = "idle"
    /\ callback' = NoProcess
    /\ pstate' = [pstate EXCEPT ![p] = "kernel"]
    /\ mock' = [mock EXCEPT ![p] = LastMock.serial]
    /\ memory' = [memory EXCEPT ![space[p]] =
            PokeString(@, registers[p].rdi, <<Slash>> \o LastMock.name)]
    /\ tainted' = tainted \cup {space[p]}
    /\ UNCHANGED <<fileVars, space, registers, queries>>

\* Broken: the null byte is not counted in the size of the buffer.
FullBuffer(size) == Len(MockCwd) > size

CwdTooLong(size) == TooLong(MockCwd, size)

HandleGetcwdExit(p) ==
    LET buffer == registers[p].rdi size == registers[p].rsi IN
    /\ Handling
    /\ pstate[p] = "getcwd"
    /\ ~CwdTooLong(size)
    /\ WordsMapped(buffer, MockCwd)
    /\ memory' = [memory EXCEPT ![space[p]] = PokeString(@, buffer, MockCwd)]
    /\ pstate' = [pstate EXCEPT ![p] = "user"]
    /\ tainted' = IF size % Word = 0 THEN tainted ELSE tainted \cup {space[p]}
    /\ registers' = [registers EXCEPT ![p] = NoRegisters]
    /\ UNCHANGED <<fileVars, space, callback, mock, queries>>

GetcwdFails(p) ==
    /\ Handling
    /\ pstate[p] = "getcwd"
    /\ CwdTooLong(registers[p].rsi) \/ ~WordsMapped(registers[p].rdi, MockCwd)
    /\ MemoryFails

HandleStatExit(p) ==
    /\ Handling
    /\ pstate[p] = "stat"
    /\ memory' = [memory EXCEPT ![space[p]] = PokeFourBytes(@, registers[p].rsi, MockMode)]
    /\ pstate' = [pstate EXCEPT ![p] = "user"]
    /\ registers' = [registers EXCEPT ![p] = NoRegisters]
    /\ UNCHANGED <<fileVars, space, callback, mock, tainted, queries>>

-----------------------------------------------------------------------------
\* The steps of the directory.  A mock is dropped only between callbacks.
FilesStep ==
    /\ \/ \E k \in Keeper \ {Mine} : KeeperStep(k)
       \/ OthersStep
       \/ TryName(Mine) \/ RanOut(Mine) \/ IoFails(Mine) \/ WriteContents(Mine) \/ DropFile(Mine)
       \/ AllDropped(Mine) \/ KeeperKilled(Mine)
       \/ Handling /\ DropMock(Mine)
    /\ UNCHANGED processVars

Init ==
    /\ FilesInit
    /\ \E p \in Process : pstate = [q \in Process |-> IF q = p THEN "user" ELSE "none"]
    /\ space = [p \in Process |-> p]
    /\ memory = [p \in Process |-> Image]
    /\ registers = [p \in Process |-> NoRegisters]
    /\ callback = NoProcess
    /\ mock = [p \in Process |-> 0]
    /\ tainted = {}
    /\ queries = 0

Next ==
    \/ \E p, c \in Process : Fork(p, c) \/ Vfork(p, c)
    \/ \E p \in Process, c \in Call : Execve(p, c)
    \/ \E p \in Process : KernelExecve(p)
    \/ \E p \in Process, b \in Buffer : Getcwd(p, b)
    \/ \E p \in Process, a \in StatBuffer : Stat(p, a)
    \/ \E p \in Process :
        \/ HandleExecveEnter(p) \/ PeekFails(p) \/ PokePath(p)
        \/ HandleGetcwdExit(p) \/ GetcwdFails(p) \/ HandleStatExit(p)
    \/ FilesStep

Spec == Init /\ [][Next]_vars

-----------------------------------------------------------------------------
(***************************************************************************)
(* Whatever the interleaving with other processes and scriptkeepers, what  *)
(* a continued process is about to execute is the file that was made for   *)
(* its command, complete, unless that was removed in the meantime.         *)
(***************************************************************************)
OwnMockIsStarted ==
    \A p \in Process : pstate[p] = "kernel" /\ ~MockIsGone(p) =>
        FileToExecute(p) = [owner |-> Mine, serial |-> mock[p], written |-> TRUE]

(***************************************************************************)
(* At the entry of an execve the mock is told of the command and arguments *)
(* that the program has in its image, in every process and after every     *)
(* fork and query, unless a path was overwritten in the same address space *)
(* before (by a vforked child, or if the execve failed) or a buffer that   *)
(* is no whole number of words overran.  It is an error only if one of the *)
(* strings ends less than a word before the end of the memory.             *)
(***************************************************************************)
Argc(argv) ==
    CHOOSE n \in 1..Size : Pointer(argv, n) = 0 /\ \A m \in 0..(n - 1) : Pointer(argv, m) # 0

Meant(r) ==
    << StringAt(Image, r.rdi),
       [n \in 1..(Argc(r.rsi) - 1) |-> StringAt(Image, Pointer(r.rsi, n))] >>

NearTheEnd(r) ==
    \E a \in {r.rdi} \cup {Pointer(r.rsi, n) : n \in 1..(Argc(r.rsi) - 1)} :
        a + Len(StringAt(Image, a)) > Size - Word + 1

CommandIsSeen ==
    \A p \in Process : pstate[p] = "enter" /\ space[p] \notin tainted =>
        LET command == PeekCommand(p) IN
        IF CommandFails(command) THEN NearTheEnd(registers[p])
        ELSE command = Meant(registers[p])

(***************************************************************************)
(* After a getcwd the process reads the mocked directory, after a stat the *)
(* mode of the mocked file, and what else is in its memory stays as it     *)
(* was, apart from the bytes up to the end of a word behind the directory. *)
(***************************************************************************)
OnlyChanges(mem, changed, first, last) ==
    \A x \in Address : changed[x] # mem[x] => x \in first..last

HalfWord(mem, a) == [i \in 1..(Word \div 2) |-> mem[a + i - 1]]

RoundedUp(n) == Word * (((n + Word - 1)) \div Word)

AnswersFit ==
    \A p \in Process :
        LET mem == memory[space[p]] changed == memory'[space[p]] r == registers[p] IN
        /\ pstate[p] = "getcwd" /\ pstate'[p] = "user" =>
            /\ StringAt(changed, r.rdi) = MockCwd
            /\ Len(MockCwd) < r.rsi
            /\ OnlyChanges(mem, changed, r.rdi, r.rdi + RoundedUp(r.rsi) - 1)
        /\ pstate[p] = "stat" /\ pstate'[p] = "user" =>
            /\ HalfWord(changed, r.rsi) = Bytes(MockMode, Word \div 2)
            /\ OnlyChanges(mem, changed, r.rsi, r.rsi + (Word \div 2) - 1)

AnswersAreWritten == [][AnswersFit]_vars

\* Every variable has its type.
TypeOK ==
    /\ FilesTypeOK
    /\ pstate \in [Process -> ProcessState]
    /\ space \in [Process -> Process]
    /\ memory \in [Process -> Memory]
    /\ callback \in Process \cup {NoProcess}
    /\ mock \in [Process -> Nat]
    /\ tainted \subseteq Process
    /\ queries \in 0..MaxQueries
=============================================================================
