------------------------------ MODULE Reading ------------------------------
(***************************************************************************)
(* What the site offers to read: every handler that lists, counts or       *)
(* suggests notes, as the set of notes its query selects, and the note     *)
(* page such a list leads to.  A search text, a month, a cursor or a LIMIT *)
(* only shortens a list and is left out there; what is counted and how     *)
(* many counts are shown is kept.                                          *)
(***************************************************************************)
EXTENDS Integers, FiniteSets

CONSTANTS
    Posts, Members,
    Tags,       \* numbered in the order of nt.tag; as normalizeTag leaves them, as all
                \* are but some that the development seed writes
    TagSets,    \* sets of tags that a post may have
    Variants,   \* searchVariants: per tag those that its page matches, itself and what
                \* the other Chinese script writes for it
    SuggestLimit, ChipLimit, CloudLimit,   \* LIMIT 20, 8 and 40 of the counts of tags
    Guest,      \* a reader who is not signed in
    Admins,
    Writer,     \* the author of each post
    Follows,    \* pairs of members
    Saves,      \* pairs <<member, post>>
    Edges,      \* resolved links: pairs of posts
    Chapters,   \* per member the posts of the published space
    Pins,       \* pinned_note_id of the members
    Upload      \* posts of one import

ASSUME ReadingAssumption ==
    /\ IsFiniteSet(Posts) /\ IsFiniteSet(Tags) /\ Tags \subseteq Nat
    /\ TagSets \subseteq SUBSET Tags /\ {} \in TagSets
    /\ Variants \in [Tags -> SUBSET Tags] /\ \A t \in Tags : t \in Variants[t]
    /\ SuggestLimit \in Nat /\ ChipLimit \in Nat /\ CloudLimit \in Nat
    /\ Admins \subseteq Members /\ Guest \notin Members
    /\ Writer \in [Posts -> Members]
    /\ Upload \subseteq Posts
    /\ \A n, m \in Upload : Writer[n] = Writer[m]

VARIABLE posts

Viewers == Members \cup {Guest}

Post == [published : BOOLEAN, hidden : BOOLEAN, deleted : BOOLEAN,
         reach : {"public", "semi"}, tags : TagSets,
         recent : BOOLEAN]    \* updated_at is of the last 30 days

\* readableNote and recommendableNote, the queries' common conditions
Readable(n) == posts[n].published /\ ~posts[n].hidden /\ ~posts[n].deleted
MayRecommend(n) == Readable(n) /\ posts[n].reach = "public"

Kept(n) == ~posts[n].hidden /\ ~posts[n].deleted
ReadableOrOwn(v, n) == Kept(n) /\ (Writer[n] = v \/ posts[n].published)

\* GetNote shows the page, and GetNoteImage the image on it.
Opens(v, n) ==
    /\ posts[n].hidden \/ ~posts[n].published => v = Writer[n] \/ v \in Admins
    /\ ~posts[n].deleted
ShowsImage(v, n) == ~posts[n].deleted /\ (Readable(n) \/ v \in {Writer[n]} \cup Admins)

----------------------------------------------------------------------------
(* Lists *)

Written(a) == {n \in Posts : Writer[n] = a}

Following(v) == {n \in Posts : <<v, Writer[n]>> \in Follows /\ Readable(n)}
Saved(v) == {n \in Posts : <<v, n>> \in Saves /\ Readable(n)}

\* The tag page has an entry for each row of note_tags that matches, so a note with
\* two variants twice; a chip leads to the feed of its very tag.
TagRows(t) == {r \in Posts \X Variants[t] : r[2] \in posts[r[1]].tags /\ Readable(r[1])}
TagPage(t) == {r[1] : r \in TagRows(t)}
TagFeed(t) == {n \in Posts : t \in posts[n].tags /\ MayRecommend(n)}

Search == {n \in Posts : Readable(n)}
Palette == {n \in Posts : Readable(n)}
RandomNote == {n \in Posts : MayRecommend(n)}
Preview == {n \in Posts : Readable(n)}
SpaceReading(a) == {n \in Chapters[a] \cap Written(a) : Readable(n)}

Graph == {n \in Posts : Readable(n)}
Around(S) == S \cup {n \in Posts : \E m \in S : <<n, m>> \in Edges \/ <<m, n>> \in Edges}
LocalGraph(n) == {m \in Around(Around({n})) : Readable(m)}
Backlinks(n) == {m \in Posts : <<m, n>> \in Edges /\ Readable(m)}
Outgoing(n) == {m \in Posts : <<n, m>> \in Edges /\ Readable(m)}

(* Suggestions while writing *)

SuggestNotesForUser(v, a) == {n \in Written(a) : Kept(n) /\ (a # v => posts[n].published)}
SuggestHeadings(v) == {n \in Posts : ReadableOrOwn(v, n)}
SuggestNotes(v) == {n \in Written(v) : Kept(n)} \cup {n \in Posts : Readable(n)}
SuggestDeskNotes(v) == {n \in Posts : v # Guest /\ ReadableOrOwn(v, n)}

(* The desk *)

DeskWindows(v) == {n \in Posts : v # Guest /\ ReadableOrOwn(v, n)}
DeskResolve(v) == {n \in Posts : v # Guest /\ ReadableOrOwn(v, n)}
DeskNotes(v) == {n \in Written(v) : Kept(n)}
DeskBookmarks(v) == {n \in Posts : v # Guest /\ ReadableOrOwn(v, n)}

(* A profile; tab is "", "drafts" or "all", batch whether ?batch= is given *)

Timeline(v, a, tab, batch) ==
    {n \in Written(a) :
        /\ Kept(n)
        /\ v # a \/ tab = "" => posts[n].published
        /\ v = a /\ tab = "drafts" => ~posts[n].published
        /\ batch => n \in Upload /\ posts[n].reach = "public"}
ShowcaseNote(v, a) == {n \in Written(a) : Kept(n) /\ (v # a => posts[n].published)}
ShowcaseTag(a) == {n \in Written(a) : posts[n].tags # {} /\ Readable(n)}
ProfileLinks == {n \in Posts : Readable(n)}
\* Mutant of Pinned: to visitors too it shows whatever is not deleted.
PinnedKept(v, a) == {n \in Pins \cap Written(a) : ~posts[n].deleted}

Pinned(v, a) ==
    {n \in Pins \cap Written(a) : ~posts[n].deleted /\ (v # a => ~posts[n].hidden /\ posts[n].published)}
Calendar(v, a) == {n \in Written(a) : ~posts[n].deleted /\ (v # a => posts[n].published)}

(* Counts *)

NoteCount(v, a) == Cardinality({n \in Written(a) : Kept(n) /\ (v # a => posts[n].published)})

\* Mutant of AuthorNotes: hidden notes count.
AuthorNotesHiddenToo(a) ==
    Cardinality({n \in Written(a) : posts[n].published /\ ~posts[n].deleted})

AuthorNotes(a) == Cardinality({n \in Written(a) : Readable(n)})
CardCount == Cardinality({n \in Upload : MayRecommend(n)})

\* ORDER BY the count DESC, nt.tag LIMIT: tags with rows, the most used first.
Before(count, t, u) == count[t] > count[u] \/ (count[t] = count[u] /\ t < u)
MostUsed(count, limit) ==
    LET used == {t \in DOMAIN count : count[t] > 0}
    IN [t \in {u \in used : Cardinality({v \in used : Before(count, v, u)}) < limit} |-> count[t]]

\* typed are the tags that begin with what is typed.
TagSuggest(typed) ==
    MostUsed([t \in typed |-> Cardinality({n \in Posts : t \in posts[n].tags /\ Readable(n)})], SuggestLimit)
TopTags ==
    MostUsed([t \in Tags |-> Cardinality({n \in Posts : /\ t \in posts[n].tags
                                                      /\ posts[n].recent /\ MayRecommend(n)})],
             ChipLimit)

\* The join counts a note once for each of its tags that the page matches.
RelatedTags(t) ==
    MostUsed([u \in Tags \ Variants[t] |->
                 Cardinality({r \in Posts \X Variants[t] :
                                 {r[2], u} \subseteq posts[r[1]].tags /\ Readable(r[1])})],
             CloudLimit)

----------------------------------------------------------------------------
(* What must hold *)

\* All lists but the calendar.
ListedTo(v, n) ==
    \/ n \in Following(v) \cup Saved(v) \cup Search \cup Palette \cup RandomNote
    \/ n \in Preview \cup Graph \cup ProfileLinks \cup (UNION {TagPage(t) \cup TagFeed(t) : t \in Tags})
    \/ n \in SuggestHeadings(v) \cup SuggestNotes(v) \cup SuggestDeskNotes(v)
    \/ n \in DeskWindows(v) \cup DeskResolve(v) \cup DeskNotes(v) \cup DeskBookmarks(v)
    \/ \E m \in Posts : n \in LocalGraph(m) \cup Backlinks(m) \cup Outgoing(m)
    \/ \E a \in Members : n \in SpaceReading(a) \cup SuggestNotesForUser(v, a) \cup ShowcaseNote(v, a)
                                \cup ShowcaseTag(a) \cup Pinned(v, a)
    \/ \E a \in Members, tab \in {"", "drafts", "all"}, batch \in BOOLEAN :
          n \in Timeline(v, a, tab, batch)

\* feed.go:440: a list never offers a note whose page or image is then refused to
\* the same reader, and what recommends (a random note, the feed of a tag, the import
\* a card of the feed leads to) stays among the public notes.
ListedOpens ==
    /\ \A v \in Viewers, n \in Posts : ~(Opens(v, n) /\ ShowsImage(v, n)) => ~ListedTo(v, n)
    /\ \A n \in RandomNote : MayRecommend(n)
    /\ \A t \in Tags : \A n \in TagFeed(t) : MayRecommend(n)
    /\ \A a \in Members : \A n \in Timeline(Guest, a, "", TRUE) : MayRecommend(n)

\* feed.go:441: a count is the length of the list behind it: the notes of an
\* author for a visitor and the notes of an import.  A suggested tag counts the notes
\* of its page that have it in this very script, a chip those of the feed behind it
\* that are recent, and a related tag the entries of the page that its own page shows
\* too: each leads to a list that is not empty and no shorter than its count.
CountsMatchLists ==
    /\ \A a \in Members :
          /\ NoteCount(a, a) = Cardinality(Timeline(a, a, "all", FALSE))
          /\ \A v \in Viewers \ {a} :
                AuthorNotes(a) = NoteCount(v, a) /\ NoteCount(v, a) = Cardinality(Timeline(v, a, "", FALSE))
    /\ \A a \in Members : a \in {Writer[n] : n \in Upload} =>
          CardCount = Cardinality(Timeline(Guest, a, "", TRUE))
    /\ \A typed \in SUBSET Tags : \A t \in DOMAIN TagSuggest(typed) :
          /\ TagSuggest(typed)[t] = Cardinality({n \in TagPage(t) : t \in posts[n].tags})
          /\ TagSuggest(typed)[t] \in 1 .. Cardinality(TagPage(t))
    /\ \A t \in DOMAIN TopTags :
          /\ TopTags[t] = Cardinality({n \in TagFeed(t) : posts[n].recent})
          /\ TopTags[t] \in 1 .. Cardinality(TagFeed(t))
    /\ \A t \in Tags : \A u \in DOMAIN RelatedTags(t) :
          /\ RelatedTags(t)[u] = Cardinality({r \in TagRows(t) : r[1] \in TagPage(u) /\ u \in posts[r[1]].tags})
          /\ RelatedTags(t)[u] \in 1 .. Cardinality(TagRows(t))
          /\ TagPage(t) \cap TagPage(u) # {}

\* The same of the calendar of a profile, which does not leave out hidden notes.
CalendarOpens ==
    \A v \in Viewers, a \in Members : \A n \in Calendar(v, a) : Opens(v, n)
=============================================================================
