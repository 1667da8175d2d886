\* Watermarks in the frontmatter, a worktree people work in; anything may fail.
SPECIFICATION Spec
CONSTANTS
    guide = guide
    arch = arch
    cmd = cmd
    core = core
    sideA = sideA
    Nil = Nil
    Main = "main"
    Doc = {guide, arch}
    Src = {core}
    Sidecar = {}
    Branch <- MCBranches
    MaxCommits = 4
    MaxEdits = 2
    Tidy = FALSE
    Manifest <- MCTwoAudiences
    SidecarOrder <- MCNoSidecars
    MigrationSidecars = {}
    Modes <- MCFrontmatter
    DryRuns = {TRUE, FALSE}
    Budget = 2
    MaxRuns = 2
    MaxModeChanges = 0
    Faults = {"io", "torn", "empty"}
    CommitFree = {"resolve", "resetIndex"}
    StageFree = {"resetFiles", "write", "sidecar", "stage", "commit"}
CHECK_DEADLOCK FALSE
INVARIANTS
    TypeOK
    ControlOK
    MarksTruthful
    OnlyWhenBehind
    NeverEmptyCommit
PROPERTIES
    ImplementsDocumentation
    CommitExact
    BranchesKept
    EditsSurvive
