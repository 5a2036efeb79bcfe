\* The expression a|b matches more than a and b.
SPECIFICATION MatcherSpec
CONSTANTS
    Names = {cp, ls}
    Directories = {usr_bin, opt_bin}
    Arguments = {NoArguments, file}
    NoArguments = NoArguments
    Bare = Bare
    Nowhere = Nowhere
    Letters = {cp, ls, usr_bin, opt_bin, file}
    AnyText = AnyText
    NoRegex = NoRegex
    MaxRegex = 1
INVARIANTS
    MatchesEntireCommand
