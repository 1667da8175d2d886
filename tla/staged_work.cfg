\* A developer has staged work when a run checks its branch out.
SPECIFICATION Spec
CONSTANTS
    guide = guide
    arch = arch
    cmd = cmd
    core = core
    sideA = sideA
    Nil = Nil
    Main = "main"
    Doc = {guide}
    Src = {core}
    Sidecar = {}
    Branch <- MCBranches
    MaxCommits = 4
    MaxEdits = 2
    Tidy = FALSE
    Manifest <- MCGuide
    SidecarOrder <- MCNoSidecars
    MigrationSidecars = {}
    Modes <- MCFrontmatter
    DryRuns = {FALSE}
    Budget = 2
    MaxRuns = 1
    MaxModeChanges = 0
    Faults = {}
    CommitFree = {"resolve", "ref", "checkout", "resetIndex", "resetFiles"}
    StageFree = {"resetFiles", "write", "sidecar", "stage", "commit"}
CHECK_DEADLOCK FALSE
PROPERTIES
    CheckoutKeepsFiles
