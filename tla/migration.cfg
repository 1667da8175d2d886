\* The watermark of a document moves once between frontmatter and sidecar.
SPECIFICATION Spec
CONSTANTS
    guide = guide
    arch = arch
    cmd = cmd
    core = core
    sideA = sideA
    Nil = Nil
    Main = "main"
    Doc = {guide}
    Src = {cmd, core}
    Sidecar = {sideA}
    Branch <- MCBranches
    MaxCommits = 5
    MaxEdits = 2
    Tidy = TRUE
    Manifest <- MCGuide
    SidecarOrder <- MCOneSidecar
    MigrationSidecars = {sideA}
    Modes <- MCFrontmatterOrA
    DryRuns = {FALSE}
    Budget = 2
    MaxRuns = 3
    MaxModeChanges = 1
    Faults = {"io"}
    CommitFree = {"resolve", "resetIndex"}
    StageFree = {"resetFiles", "write", "sidecar", "stage", "commit"}
CHECK_DEADLOCK FALSE
INVARIANTS
    FreshWatermark
    OnlyWhenBehind
PROPERTIES
    NothingMissed
