SPECIFICATION SiteSpec
CONSTANTS
    alice = alice
    ann = ann
    anna = anna
    ben = ben
    m1 = m1
    m2 = m2
    m3 = m3
    old = old
    new = new
    Null = Null
    Users = {alice}
    Importer = alice
    Author <- mcAuthor
    Notes = {1, 3, 5}
    Batches = {2, 4}
    VaultBatches = {4}
    Tagged = {3, 5}
    Readers = {r1}
    Slots = {w1, w2}
    Filters = {TRUE}
    MaxHides = 1
    MaxTime = 1
    BurstStep = 1
    BurstWindow = 1
    BatchMin = 2
    PageSize = 1
    Files = 2
    Addresses = {ann, anna}
    Base <- mcBase
    LegacyUsers <- mcLegacy
    Links = {t1, t2}
    SignIns = {w1, w2}
    MaxCollisions = 3
    MaxUsers = 3
    Nobody = Nobody
    Posts = {p1}
    Tags = {1, 2, 3}
    TagSets <- mcTagSets
    Variants <- mcVariants
    SuggestLimit = 2
    ChipLimit = 2
    CloudLimit = 1
    Members = {ann, ben}
    Guest = Guest
    Admins = {ann}
    Writer <- mcWriter
    Follows <- mcFollows
    Saves <- mcSaves
    Edges <- mcEdges
    Chapters <- mcChapters
    Pins = {p1}
    Upload = {p1}
    TagRequests = {w1, w2}
    CloudMax = 1
    MaxWrites = 2
    Chips = Chips
    Embeddable = {m1, m2, m3}
    EmbedDepth = 2
    EmbedBodies <- mcBodies
    MaxRewrites = 1
    Servers = {old, new}
    Knows <- mcKnows
    MaxStarts = 2
    Anchors = {a, b}
    Nowhere = Nowhere
    PreviewCard = PreviewCard
    Transactions = {w1, w2}
    Rows = {1, 2, 3}
    NewRows = {4}
    RowAuthor <- mcRowAuthor
    Cites <- mcCites
    Stubs <- mcStubs
    None = None
    few = few
    many = many
    Words = {few, many}
    NoteFilters = {all}
    Matches <- mcMatches
    DeskPage = 1
    Loads = {w1, w2}
    MaxSaves = 1
    MaxListed = 2
    NoLoad = NoLoad
    MaxLost = 1
    MaxFetches = 2
    d = d
    e = e
    Paths <- mcPaths
    Stems = {"a", "b"}
    KebabSlug <- mcKebabSlug
    Typed <- mcTyped
    TakenSlugs <- mcTakenSlugs
    MaxVaultFiles = 5
    NoLink = NoLink
    HeadingTexts <- mcHeadingTexts
    Levels = {1, 2}
    MaxHeadings = 3
    MaxParts = 2
    Entries = {1, 2, 3}
    Everyone = Everyone
    Clicks = {w1, w2}
    ListPage = 2
    Spellings = 2
    MaxSeconds = 2
    MaxChanges = 2
    TourNotes <- mcTourNotes
    TourLinks <- mcTourLinks
    Welcome = "hello"
    Forks = {w1, w2}
    OtherSlugs = {d, e}
    MaxOwn = 1
    MaxRenamed = 2
    MaxHandles = 2
    NoNote = NoNote
CHECK_DEADLOCK FALSE
SYMMETRY Symmetry
INVARIANTS
    SiteTypeOK
    BatchSharesRank
    PageIsTopOfFeed
    ScrollIsComplete
    ImportedOnce
    SameEmailSameAccount
    SpentLinkHasAccount
    ListedOpens
    
    StaleOnlyByOverlap
    EmbedsComplete
    MigratedOnce
    PreviewFollowsPointer
    RankingNeverDeadlocks
    ListShowsTheQuery
    LinkOpensItsFile
    
    PagesHaveNoGaps
    TourIsWhole
PROPERTY
    RanksAsIfOneByOne
