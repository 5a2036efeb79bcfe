\* Files with up to three tests, and with one test with any fields; two sessions.
SPECIFICATION Spec
CONSTANTS
    HoleText = "_"
    NoText = ""
    NotWords = {"digits", "unquoted"}
    NotRegexes = {"("}
    NotStrings = {"1", "true"}
    AlteredCommands <- Formatted
    AlteredArguments <- FormattedArguments
    NoValue = NoValue
    Relative = {"relative"}
    IntegerLimit = 4
    Error = Error
    Files <- AnyFile
    Missing = Missing
    Garbage = Garbage
    Recordings <- RecordedSteps
    Exitcodes = {0, 3}
    MaxSessions = 2
INVARIANTS
    SuccessMeansAllPass
    HolesFilled
    FailuresAreReported
    FilledFileIsRead
    ExitcodesAreKept
PROPERTIES
    TouchedOnlyByRecording
    CompleteFileIsKept
