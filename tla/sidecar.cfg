\* Both documents share a sidecar; every run starts from a clean checkout, as in CI.
SPECIFICATION Spec
CONSTANTS
    guide = guide
    arch = arch
    cmd = cmd
    core = core
    sideA = sideA
    Nil = Nil
    Main = "main"
    Doc = {guide, arch}
    Src = {cmd, core}
    Sidecar = {sideA}
    Branch <- MCBranches
    MaxCommits = 5
    MaxEdits = 2
    Tidy = TRUE
    Manifest <- MCSameAudience
    SidecarOrder <- MCOneSidecar
    MigrationSidecars = {}
    Modes <- MCInSideA
    DryRuns = {FALSE}
    Budget = 1
    MaxRuns = 3
    MaxModeChanges = 0
    Faults = {"io", "torn", "empty"}
    CommitFree = {"resolve", "resetIndex"}
    StageFree = {"resetFiles", "write", "sidecar", "stage", "commit"}
CHECK_DEADLOCK FALSE
INVARIANTS
    ControlOK
    MarksTruthful
PROPERTIES
    ImplementsDocumentation
    CommitExact
    NothingMissed
