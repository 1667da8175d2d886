\* A developer commits between the two readings of HEAD in Assemble.
SPECIFICATION Spec
CONSTANTS
    guide = guide
    arch = arch
    cmd = cmd
    core = core
    sideA = sideA
    Nil = Nil
    Main = "main"
    Doc = {guide}
    Src = {core}
    Sidecar = {sideA}
    Branch <- MCBranches
    MaxCommits = 5
    MaxEdits = 2
    Tidy = TRUE
    Manifest <- MCGuide
    SidecarOrder <- MCOneSidecar
    MigrationSidecars = {}
    Modes <- MCInSideA
    DryRuns = {FALSE}
    Budget = 2
    MaxRuns = 1
    MaxModeChanges = 0
    Faults = {}
    CommitFree = {"resetIndex"}
    StageFree = {"resetFiles", "write", "sidecar", "stage", "commit"}
CHECK_DEADLOCK FALSE
INVARIANTS
    MarksTruthful
