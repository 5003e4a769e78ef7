SPECIFICATION Spec
CONSTANTS
    None = None
    Blank = Blank
    Bad = Bad
    BadLower = BadLower
    Malformed = {Bad, BadLower}
    Lower <- MCLower
    Local = {"jdoe", "info"}
    Domain <- MCDomain
    Canon <- MCCanon
    PlusAlias = {"gmail.com", "googlemail.com"}
    DotInsensitive = {"gmail.com", "googlemail.com"}
    Roles = {"info"}
    Free = {"gmail.com"}
    Disposable = {"tmp.com"}
    Suggestion <- MCSuggestion
    ListType = {"Newsletter", "Imports"}
    PAGE = 2
    Sizes = {1, 2}
    TopLimit = 3
    Cases <- MCCases
    ChunkSize = 2
INVARIANT DeliverableOnly
CHECK_DEADLOCK FALSE
