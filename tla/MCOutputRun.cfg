\* Scripts of two processes that fork and write at once; relays and processes may fail.
SPECIFICATION OutputSpec
CONSTANTS
    Pid = {p1, p2}
    NoPid = NoPid
    NoSyscall = NoSyscall
    Calls <- WritingCalls
    Fuel = 3
    PidReuse = FALSE
    Kills = TRUE
    Faults = FALSE
    Background = FALSE
    MaxRuns = 2
    MockMayFail = FALSE
    RelayMayFail = TRUE
    Stream = {"stdout", "stderr"}
    Byte <- Bytes
    Capacity = 2
    BufferSize = 2
    Capture = {"stderr"}
    Length = {2}
\* A process may wait for a relay thread that failed: the system really stops.
CHECK_DEADLOCK FALSE
INVARIANTS
    VerdictHasAllOutput
PROPERTIES
    RunsReturnUnlessStuck
    ImplementsStream
