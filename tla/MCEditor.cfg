\* Two tabs, two edits, edit_version up to 2.
SPECIFICATION Spec
SYMMETRY MCSymmetry
CONSTANTS
    Notes = {n1}
    Note = n1
    Titles = {Blank, t_plain}
    Bodies = {Empty}
    Blank = Blank
    Empty = Empty
    t_plain = t_plain
    t_emoji = t_emoji
    s_plain = s_plain
    SlugNames = {s_plain}
    DraftLike = {}
    Kebab <- MCKebab
    Null = Null
    Tabs = {t1, t2}
    MaxVersion = 2
    MaxEdits = 2
    MaxOpens = 2
    MaxLate = 1
CHECK_DEADLOCK FALSE
INVARIANTS
    SavedMeansSaved
    UnsavedIsPursued
PROPERTIES
    NoBlindOverwrite
    PublishesWhatIsShown
