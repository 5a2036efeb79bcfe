\* Fields that are not written.
SPECIFICATION Spec
CONSTANTS
    HoleText = "_"
    NoText = ""
    NotWords = {"digits", "unquoted"}
    NotRegexes = {"("}
    NotStrings = {"1", "true"}
    AlteredCommands <- Formatted
    AlteredArguments <- FormattedArguments
    NoValue = NoValue
    Relative = {"relative"}
    IntegerLimit = 4
    Error = Error
    Files <- OneTest
    Missing = Missing
    Garbage = Garbage
    Recordings <- PlainSteps
    Exitcodes = {0, 3}
    MaxSessions = 1
INVARIANTS
    FieldsKept
