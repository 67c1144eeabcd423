\* Violation run: the orphan sweep may delete a note that was once public.
SPECIFICATION Spec
SYMMETRY MCSymmetry
CONSTANTS
    Notes = {n1}
    Titles = {Blank, t_plain}
    Bodies = {Empty, b1}
    Blank = Blank
    Empty = Empty
    t_plain = t_plain
    t_emoji = t_emoji
    t_drafty = t_drafty
    s_plain = s_plain
    s_drafty = s_drafty
    SlugNames = {s_plain, s_drafty}
    DraftLike = {s_drafty}
    Kebab <- MCKebab
    Null = Null
    Requests = {r1}
    MaxVersion = 2
PROPERTIES
    SweepSparesPublished
