\* Two runs with up to three processes that do everything processes can do.
SPECIFICATION Spec
CONSTANTS
    Pid = {p1, p2, p3}
    NoPid = NoPid
    NoSyscall = NoSyscall
    Calls <- MostCalls
    Fuel = 3
    PidReuse = TRUE
    Kills = TRUE
    Faults = TRUE
    Background = TRUE
    MaxRuns = 2
    MockMayFail = TRUE
    RelayMayFail = TRUE
SYMMETRY Permuted
\* Joining the relay threads may block for ever: the system really stops.
CHECK_DEADLOCK FALSE
INVARIANTS
    IInv
    PhaseAgrees
    ShownExactlyOnce
    WrongSyscallOnlyIfSuspect
    FailedStartIsReported
    OnlyOrphansLeft
