\* Two names that may be in either of two directories, or in none; all short regexes.
SPECIFICATION MatcherSpec
CONSTANTS
    Names = {cp, ls}
    Directories = {usr_bin, opt_bin}
    Arguments = {NoArguments, file}
    NoArguments = NoArguments
    Bare = Bare
    Nowhere = Nowhere
    Letters = {cp, ls, usr_bin, opt_bin, file}
    AnyText = AnyText
    NoRegex = NoRegex
    MaxRegex = 2
INVARIANTS
    ComparesFiles
    
    SingleMatchesEntireCommand
