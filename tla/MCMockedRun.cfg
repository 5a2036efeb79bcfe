\* Scripts whose processes execute commands and ask for files at once; pids are reused.
SPECIFICATION MockedSpec
CONSTANTS
    Pid = {p1, p2, p3}
    NoPid = NoPid
    NoSyscall = NoSyscall
    Calls <- MostCalls
    Fuel = 4
    PidReuse = TRUE
    Kills = FALSE
    Faults = FALSE
    Background = FALSE
    MaxRuns = 1
    MockMayFail = FALSE
    RelayMayFail = FALSE
    build = build
    push = push
    isBuild = isBuild
    Command <- Commands
    Matcher = {isBuild}
    Accepts <- AcceptedBy
    Output = {silent}
    NoOutput = silent
    ExitCode = {0, 1}
    NoValue = NoValue
    Test <- Tests
    Unmocked = {push}
    MaxReceived = 3
    File = {mockedFile, otherFile}
    NoArg = NoArg
    CwdMocked = TRUE
    MockedFiles = {mockedFile}
SYMMETRY Permuted
CONSTRAINTS FewQueries RootExecsFirst
INVARIANTS
    CommandsAreMocked
    AnswersAreMocked
    EveryCommandChecked
    PassNeedsScript
