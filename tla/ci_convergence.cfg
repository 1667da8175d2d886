\* Without failures, what the team changes ends up documented.
SPECIFICATION LiveDelivery
CONSTANTS
    guide = guide
    core = core
    Nil = Nil
    Main = "main"
    Doc = {guide}
    Src = {core}
    Sidecar = {}
    Branch <- MCBranches
    MaxCommits = 12
    MaxEdits = 1
    Tidy = TRUE
    Manifest <- MCManifest
    SidecarOrder <- MCNoSidecars
    MigrationSidecars = {}
    Modes <- MCFrontmatter
    DryRuns = {FALSE}
    Budget = 1
    MaxRuns = 0
    MaxModeChanges = 0
    Faults = {}
    CommitFree = {}
    StageFree = {}
    Clones = {"fresh"}
    Rivals = {}
    Platform = {}
    Reviewers = {}
CHECK_DEADLOCK FALSE
INVARIANTS
    MarksReachable
PROPERTIES
    EventuallyDocumented
