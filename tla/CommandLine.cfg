\* Every text of up to five characters.
SPECIFICATION LineSpec
CONSTANTS
    Plain = {"a"}
    MaxLength = 5
INVARIANTS
    PlainSurvives
    FormattedIsAccepted
