SPECIFICATION SharedSpec
CONSTANTS
    scraper = scraper
    initer = initer
    reader = reader
    p1 = p1
    p2 = p2
    a1 = a1
    a2 = a2
    NoFile = NoFile
    Hollow = Hollow
    Part = Part
    Half = Half
    None = None
    Scraper = scraper
    Initer = initer
    Readers = {reader}
    Published = 1
    Local = 1
    K = 3
    MaxTime = 3
    MaxKills = 1
    TurnK = 2
    TurnTime = 4
    Exporter = p1
    Users = {p1, p2}
    ExportCommands <- AllExports
    RacingCommands <- SomeExports
    BlockCommands <- BlocksAlone
    ToolCommands <- EveryTool
    MaxReorgs = 2
    RaceReorgs = 1
    BlockKills = 2
    Addrs = {a1, a2}
    Prefunds = {a2}
    Values = {"Old", "New"}
    Editors = {p1, p2}
    AnyEditors = {p1}
    NameCommands <- AllCommands
    MaxShipped = 1
    MaxCmds = 1
    EditTime = 2
    AnyTime = 1
    IndexAddrs = {1, 2, 3, 4}
    Apps = {1, 2}
    Bits <- SomeBits
    MAX_ADDRS_IN_BLOOM = 1
    NOTIFY = 2
    FirstListed = 3
    SomeListed <- ListedWithGap
    LastPeriod = 11
    RacePeriod = 8
    Window = 5
    Day = 4
    Every = 2
    Btc = FALSE
    MaxFails = 1
INVARIANTS
    ManifestKept
    NamesAsWanted
    NamesAreFresh
    CachesTrue
    FindsExactly
    PricesRight
CHECK_DEADLOCK FALSE
