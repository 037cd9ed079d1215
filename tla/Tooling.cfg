\* Several tools side by side: see MCTooling.
SPECIFICATION MCSpec
CONSTANTS
    None = None
    Absent = Absent
    Outside = Outside
    SiteSlugs = {s1, s2}
    Versions = {v1, v2}
    MaxFences = 1
    MaxChanges = 4
    Inventories <- MCInventories
    MaxFindings = 3
    Count = 2
    Specs = {"v1", "v2", "bad"}
    Invalid = {"bad"}
    Engines = {"e1", "e2"}
    Commits = {"c1", "c2"}
    MaxEdits = 2
    x1 = x1
    x2 = x2
    Repositories <- MCRepositories
    Durations = {2, 4}
    Deadline = 17
    InstallLimit = 3
    CommandTimeout = 3
    Bounds <- MCBounds
    OutputLines = 4
    ChildLines = {1, 3}
    a = a
    b = b
    c = c
    Packages = {a, b, c}
    Dependencies <- MCDependencies
    Stories = {a}
    CiFiles <- MCFiles
    MaxChanged = 2
    ChangeScoped = {"test", "stories"}
    EventScoped = {"docs-drift"}
    MustSucceed = {"semgrep"}
    Families = {"linux", "mac"}
    Cases <- MCCases
    E2e = "e2e"
    MinMinutes = 1
    MaxMinutes = 120
    DefaultMinutes = 360
    JobLimit = 2
    StepLimit = 3
    Commit = "this"
    Scored = {"", "this", "older"}
    Scores <- MCScores
    Threshold = 7
    Attempts = 3
    MaxPublished = 3
    Modules = {"lib"}
    Peers = {"typescript", "svelte"}
    Typescript = "typescript"
    Ranges = {"high", "low"}
    Admits <- MCAdmits
    PeerRange <- MCPeerRange
    Trees <- MCTrees
    Registries <- MCRegistries
    Releases = {2, 3}
    MaxReleased = 2
    SiteInputs <- MCSiteInputs
    Suffixed <- MCSuffixed
    Hidden = {".hid"}
    Underscored = {"_part.md"}
    Templates = "templates"
    Stem <- MCStem
    Lower <- MCLower
    MaxEntries = 6
    MaxPages = 2
    Globs <- MCGlobs
    Paths <- MCPaths
    Spelling <- MCSpelling
    Codes = {1, 2, 3}
    MaxAlternatives = 3
INVARIANTS TrueInTime MatchesAsWritten NothingHidden GateMeansChecked PassMeansCurrent PassMeansShown
    ShowsCurrentFigures PassMeansInstallable PassMeansEnforced
PROPERTY RuleIsTrue
CHECK_DEADLOCK FALSE
