\* Parsers that finish before, after or at their timeout, or never.
SPECIFICATION FairSearch
CONSTANTS
    nested = nested
    plain = plain
    broken = broken
    locked = locked
    File = {nested, plain, broken, locked}
    Walk <- MCWalk
    Rank <- MCRank
    Matches <- MCMatches
    Unreadable = {locked}
    Malformed = {broken}
    Limits <- MCLimits
    DefaultLimit = 4
CHECK_DEADLOCK FALSE
INVARIANTS
    TypeOK
    HitsComplete
    FilesCounted
PROPERTIES
    SearchEnds
    ParsersExit
