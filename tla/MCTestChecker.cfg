SPECIFICATION Spec
CONSTANTS
    build = build
    push = push
    echo = echo
    exact = exact
    regex = regex
    silent = silent
    text = text
    MaxSteps = 2
    Command <- Commands
    Matcher <- Matchers
    Accepts <- AcceptedBy
    Output <- Outputs
    ExitCode = {0, 1}
    NoValue = NoValue
    Test <- Tests
    Unmocked = {echo}
    MaxReceived = 3
    NoOutput = silent
INVARIANTS
    MocksFollowSteps
PROPERTIES
    ImplementsVerdict
