\* Several modules side by side: see MCPackages.
SPECIFICATION MCSpec
CONSTANTS
    Tokens = {t1, t2, t3}
    None = None
    Callers = Callers
    Requests = {r1, r2, r3}
    Bodied = {r1}
    Mutations = {m1, m2, m3}
    Plain = {m3}
    MaxRetries = 1
    Absent = Absent
    e1 = e1
    e2 = e2
    e3 = e3
    e4 = e4
    Mounts = {e1, e2, e3, e4}
    Keys = {"core", "url", "bios", "name"}
    Required = {"core", "url"}
    Optional <- MCOptional
    Playable = {e1, e2, e3}
    Nobody = Nobody
    Tabs = {tab1, tab2}
    MaxSignIns = 2
    MaxTokens = 2
    Proxied = {g1, g2}
    Streaming = {g2}
    Audited = {g1, g2}
    Chunks = {c1, c2}
    Empty = Empty
    MaxEvents = 3
    Items = {"x"}
    Slots = {"k", "l"}
    People = {"me", "you"}
    Me = "me"
    Nothing = Nothing
    MaxLength = 3
    MaxId = 3
    MaxEdges = 2
    copy = copy
    cut = cut
    quit = quit
    Commands = {copy, cut, quit}
    Queries = {"", "cut", "t"}
    Blank = ""
    Words <- MCWords
    Opens = {cut}
    PageElements = {link}
    Apple = TRUE
    Rows = {"a", "b", "c"}
    Columns = {"size", "kind"}
    Cell <- MCCell
    Sortable = {"size"}
    Filterable = {"size", "kind"}
    Needles = {0, 2, 3}
    RowHeight = 2
    ClientHeight = 4
    MaxItems = 5
    MaxPages = 2
    SeekStep = 2
    MaxTime = 3
    Loudest = 2
    Renditions <- MCRenditions
    Scale = 4
    Widths = {0, 4, 5, 14, 16, 30}
    Slides = 3
    SlideWidth = 3
    Gap = 1
    PageWidth = 3
INVARIANTS DialsWithCurrentToken Reconciled FindsItsOwn AuditIsTrue AnswersRight ActsForItsPage ShowsEveryRow
PROPERTIES RetryIsFresher RightTarget ShowsDocument ShowsMedia
CHECK_DEADLOCK FALSE
