\* One child, two pages.
SPECIFICATION Spec
SYMMETRY MCSymmetry
CONSTANTS
    Notes = {n1}
    Titles = {Blank, t_plain}
    Bodies = {Empty}
    Blank = Blank
    Empty = Empty
    t_plain = t_plain
    s_plain = s_plain
    SlugNames = {s_plain}
    DraftLike = {}
    Kebab <- MCKebab
    Null = Null
    Tabs = {p1, p2}
    MaxVersion = 2
    MaxRevision = 2
CHECK_DEADLOCK FALSE
PROPERTIES
    OnlyChosenChildrenShow
    UnfinishedTextStaysPrivate
    ReachAsAsked
    ChildEditsAreVersioned
    SpaceIsNotOverwritten
