\* One save at a time; what the design notes say of renames.
SPECIFICATION Spec
CONSTANTS
    alice = alice
    bob = bob
    a1 = a1
    b1 = b1
    b2 = b2
    hAlice = hAlice
    hBob = hBob
    hNew = hNew
    s1 = s1
    s2 = s2
    Users = {alice, bob}
    Handles = {hAlice, hBob, hNew}
    Notes = {a1, b1, b2}
    Author <- MCAuthor
    Slugs = {s1, s2}
    Drafts <- MCDrafts
    FirstHandle <- MCFirstHandle
    Wishes <- MCWishes
    Requests = {w1}
    Null = Null
PROPERTIES
    RenameBreaksNoLink
