\* Violation run: the calendar of a profile.
SPECIFICATION TagCacheSpec
CONSTANTS
    ann = ann
    ben = ben
    Posts = {p1, p2}
    Tags = {1}
    TagSets <- mcTagSets
    Variants <- mcVariants
    SuggestLimit = 1
    ChipLimit = 1
    CloudLimit = 1
    Members = {ann, ben}
    Guest = Guest
    Admins = {ann}
    Writer <- mcWriter
    Follows <- mcFollows
    Saves <- mcSaves
    Edges <- mcEdges
    Chapters <- mcChapters
    Pins = {p1, p2}
    Upload = {p1, p2}
    TagRequests = {q1}
    CloudMax = 1
    MaxWrites = 2
    Chips = Chips
INVARIANTS
    CalendarOpens
