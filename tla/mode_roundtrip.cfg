\* Sidecar to frontmatter and back: the old record shadows the frontmatter.
SPECIFICATION Spec
CONSTANTS
    guide = guide
    arch = arch
    cmd = cmd
    core = core
    sideA = sideA
    Nil = Nil
    Main = "main"
    Doc = {guide}
    Src = {core}
    Sidecar = {sideA}
    Branch <- MCBranches
    MaxCommits = 6
    MaxEdits = 3
    Tidy = TRUE
    Manifest <- MCGuide
    SidecarOrder <- MCOneSidecar
    MigrationSidecars = {sideA}
    Modes <- MCFrontmatterOrA
    DryRuns = {FALSE}
    Budget = 2
    MaxRuns = 3
    MaxModeChanges = 2
    Faults = {}
    CommitFree = {"resolve", "resetIndex"}
    StageFree = {"resetFiles", "write", "sidecar", "stage", "commit"}
CHECK_DEADLOCK FALSE
INVARIANTS
    FreshWatermark
