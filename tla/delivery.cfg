\* Runs in fresh, shallow and kept clones, beside a rival job; the network may fail.
SPECIFICATION DeliverySpec
CONSTANTS
    guide = guide
    core = core
    Nil = Nil
    Main = "main"
    Doc = {guide}
    Src = {core}
    Sidecar = {}
    Branch <- MCBranches
    MaxCommits = 5
    MaxEdits = 1
    Tidy = FALSE
    Manifest <- MCManifest
    SidecarOrder <- MCNoSidecars
    MigrationSidecars = {}
    Modes <- MCFrontmatter
    DryRuns = {FALSE}
    Budget = 1
    MaxRuns = 4
    MaxModeChanges = 0
    Faults = {"io"}
    CommitFree = {}
    StageFree = {}
    Clones = {"fresh", "shallow", "kept"}
    Rivals = {"committed"}
    Platform = {"lost", "refused"}
    Reviewers = {"close", "keep"}
CHECK_DEADLOCK FALSE
INVARIANTS
    RequestHasBranch
    PublishedTruthful
PROPERTIES
    RemoteOnlyGrows
    OpenedMeansOpen
