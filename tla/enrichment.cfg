\* Hunks of up to four lines of every kind, one or two hunks, one or two files,
\* an overlong line or none, each file rendered or not.
CONSTANTS
    first = first
    second = second
    Path = {first, second}
    Diffs <- MCDiffs
SPECIFICATION Spec
\* The enrichment ends.
CHECK_DEADLOCK FALSE
INVARIANTS
    TypeOK
    SectionsWhole
    MarksExact
