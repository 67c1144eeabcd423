\* One note, two PATCH requests in flight, edit_version up to 2.
SPECIFICATION Spec
SYMMETRY MCSymmetry
CONSTANTS
    Notes = {n1}
    Titles = {Blank, t_plain}
    Bodies = {Empty, b1}
    Blank = Blank
    Empty = Empty
    t_plain = t_plain
    t_emoji = t_emoji
    t_drafty = t_drafty
    s_plain = s_plain
    s_drafty = s_drafty
    SlugNames = {s_plain, s_drafty}
    DraftLike = {s_drafty}
    Kebab <- MCKebab
    Null = Null
    Requests = {r1, r2}
    MaxVersion = 2
INVARIANTS
    PublishedIsComplete
    IndexFollowsText
PROPERTIES
    PublishedSlugIsPermanent
    UnavailableIsFrozen
    EditsAreVersioned
    ImplementsPublication
